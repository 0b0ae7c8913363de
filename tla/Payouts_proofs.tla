--------------------------- MODULE Payouts_proofs ---------------------------
(***************************************************************************)
(* Proofs about Payouts, for any number of payouts, requests, goroutines   *)
(* and faults.  First each action is described record by record; then one  *)
(* invariant after the other is shown to be kept: who holds which payout   *)
(* (Base), the lock of Create, what each step of ProcessPayout knows of    *)
(* its row and of the money (Standing), where money that moved may be      *)
(* (Single) and when the books agree (Balanced).  The last parts are about *)
(* the balance: what it is a sum of, and what it leaves out (Prudent); and *)
(* about the jobs, which behave as the queue promises (ExclusiveJobs).     *)
(***************************************************************************)
EXTENDS Payouts, SumTheorems

(* Who holds what: a request or a goroutine holds at most one payout, no   *)
(* payout is held twice, and the job of an executed payout is claimed.     *)
Ownership ==
  /\ \A h \in Handlers : requests[h].step = "idle" <=> requests[h].payout = Idle
  /\ \A g, h \in Handlers :
       requests[g].payout = requests[h].payout /\ requests[g].payout # Idle => g = h
  /\ \A w \in Workers : doing[w].step = "idle" <=> doing[w].payout = Idle
  /\ \A v, w \in Workers :
       doing[v].payout = doing[w].payout /\ doing[v].payout # Idle => v = w

(* A job exists only of a row, and a request inserts each of them once.    *)
Creation ==
  /\ \A p \in Payouts : payouts[p].status = "absent" => jobs[p].status = "absent"
  /\ \A h \in Handlers :
       requests[h].step \in {"check", "create"} => payouts[requests[h].payout].status = "absent"
  /\ \A h \in Handlers :
       requests[h].step = "enqueue" =>
         /\ payouts[requests[h].payout].status # "absent"
         /\ jobs[requests[h].payout].status = "absent"
  /\ \A w \in Workers : doing[w].step # "idle" => jobs[doing[w].payout].status = "processing"

-----------------------------------------------------------------------------

(* Whoever is not idle holds a payout of the table. *)
LEMMA BusyHolds ==
  ASSUME TypeOK, Ownership
  PROVE  /\ \A h \in Handlers : requests[h].step # "idle" => requests[h].payout \in Payouts
         /\ \A w \in Workers : doing[w].step # "idle" => doing[w].payout \in Payouts
BY DEF TypeOK, Ownership, Request, Execution

(* One request moves to another step and nothing else of it changes. *)
LEMMA GotoMoves ==
  ASSUME TypeOK, NEW h \in Handlers, NEW step \in RequestSteps, Goto(h, step)
  PROVE  /\ requests' \in [Handlers -> Request]
         /\ requests'[h].step = step /\ requests'[h].payout = requests[h].payout
         /\ \A g \in Handlers : g # h => requests'[g] = requests[g]
<1> DEFINE q == [requests[h] EXCEPT !.step = step]
<1>1. q \in Request /\ q.step = step /\ q.payout = requests[h].payout
  BY DEF TypeOK, Request
<1>2. requests' = [requests EXCEPT ![h] = q]
  BY DEF Goto
<1> HIDE DEF q
<1> QED BY <1>1, <1>2 DEF TypeOK

(* One goroutine moves to another step and keeps its payout. *)
LEMMA ProceedMoves ==
  ASSUME TypeOK, NEW w \in Workers, NEW step \in WorkerSteps, Proceed(w, step)
  PROVE  /\ doing' \in [Workers -> Execution]
         /\ doing'[w].step = step /\ doing'[w].payout = doing[w].payout
         /\ \A v \in Workers : v # w => doing'[v] = doing[v]
<1> DEFINE e == [doing[w] EXCEPT !.step = step]
<1>1. e \in Execution /\ e.step = step /\ e.payout = doing[w].payout
  BY DEF TypeOK, Execution
<1>2. doing' = [doing EXCEPT ![w] = e]
  BY DEF Proceed
<1> HIDE DEF e
<1> QED BY <1>1, <1>2 DEF TypeOK

(* One payout changes its status and keeps its mode. *)
LEMMA SetStatusSets ==
  ASSUME TypeOK, NEW p \in Payouts, NEW status \in Statuses, SetStatus(p, status)
  PROVE  /\ payouts' \in [Payouts -> Row]
         /\ payouts'[p].status = status /\ payouts'[p].mode = payouts[p].mode
         /\ \A q \in Payouts : q # p => payouts'[q] = payouts[q]
<1> DEFINE r == [payouts[p] EXCEPT !.status = status]
<1>1. r \in Row /\ r.status = status /\ r.mode = payouts[p].mode
  BY DEF TypeOK, Row
<1>2. payouts' = [payouts EXCEPT ![p] = r]
  BY DEF SetStatus
<1> HIDE DEF r
<1> QED BY <1>1, <1>2 DEF TypeOK

(* The statements on one job row. *)
LEMMA JobRows ==
  ASSUME NEW r \in JobRow
  PROVE  /\ Claimed(r) \in JobRow /\ Claimed(r).status = "processing"
         /\ MarkedDone(r) \in JobRow /\ MarkedDone(r).status = "done"
         /\ MarkedFailed(r) \in JobRow /\ MarkedFailed(r).status = "failed"
         /\ Recovered(r) \in JobRow /\ Recovered(r).status = "pending"
         /\ LET c == [r EXCEPT !.status = "pending"] IN c \in JobRow /\ c.status = "pending"
<1>1. r.attempts + 1 \in Nat
  BY DEF JobRow
<1>2. Claimed(r) \in JobRow /\ Claimed(r).status = "processing"
  <2> DEFINE n == r.attempts + 1
  <2>1. n \in Nat
    BY <1>1
  <2>2. Claimed(r) = [r EXCEPT !.status = "processing", !.attempts = n]
    BY DEF Claimed
  <2> DEFINE c == [r EXCEPT !.status = "processing", !.attempts = n]
  <2> HIDE DEF n
  <2>3. c \in JobRow /\ c.status = "processing"
    BY <2>1 DEF JobRow, JobStatuses
  <2> HIDE DEF c
  <2> QED BY <2>2, <2>3 DEF c
<1>3. \A s \in JobStatuses :
        LET c == [r EXCEPT !.status = s] IN c \in JobRow /\ c.status = s
  BY DEF JobRow
<1> QED
  BY <1>2, <1>3 DEF JobStatuses, MarkedDone, MarkedFailed, Recovered

(* The blank request and the blank execution. *)
LEMMA Blanks ==
  /\ NoRequest \in Request /\ NoRequest.step = "idle" /\ NoRequest.payout = Idle
  /\ NoExecution \in Execution /\ NoExecution.step = "idle" /\ NoExecution.payout = Idle
BY DEF NoRequest, NoExecution, Request, Execution, RequestSteps, WorkerSteps, Modes

-----------------------------------------------------------------------------
(* What each action of Create does, record by record.                      *)

OtherRequests(h) == \A g \in Handlers : g # h => requests'[g] = requests[g]
OtherExecutions(w) == \A v \in Workers : v # w => doing'[v] = doing[v]
OtherJobs(p) == \A q \in Payouts : q # p => jobs'[q] = jobs[q]

(* A request takes an absent row that no other request holds. *)
LEMMA BeginDoes ==
  ASSUME TypeOK, NEW h \in Handlers, Begin(h)
  PROVE  \E p \in Payouts :
           /\ payouts[p].status = "absent" /\ \A g \in Handlers : requests[g].payout # p
           /\ requests' \in [Handlers -> Request] /\ OtherRequests(h)
           /\ requests'[h].step = "check" /\ requests'[h].payout = p
<1>1. PICK p \in Payouts, a \in Amounts, m \in Modes :
        /\ payouts[p].status = "absent"
        /\ \A g \in Handlers : requests[g].payout # p
        /\ requests' = [requests EXCEPT ![h] =
             [step |-> "check", payout |-> p, amount |-> a, mode |-> m]]
  BY DEF Begin
<1> DEFINE q == [step |-> "check", payout |-> p, amount |-> a, mode |-> m]
<1>2. q \in Request /\ q.step = "check" /\ q.payout = p
  BY DEF Request, RequestSteps
<1>3. requests' = [requests EXCEPT ![h] = q]
  BY <1>1
<1> HIDE DEF q
<1> QED BY <1>1, <1>2, <1>3 DEF TypeOK, OtherRequests

(* The row is inserted, or the request goes to its end without it. *)
LEMMA CreateRowDoes ==
  ASSUME TypeOK, Ownership, NEW h \in Handlers, CreateRow(h)
  PROVE  \E step \in {"enqueue", "release"} :
           /\ requests' \in [Handlers -> Request] /\ OtherRequests(h)
           /\ requests'[h].step = step /\ requests'[h].payout = requests[h].payout
           /\ payouts' \in [Payouts -> Row]
           /\ \A q \in Payouts : q # requests[h].payout => payouts'[q] = payouts[q]
           /\ step = "enqueue" => payouts'[requests[h].payout].status = "pending"
           /\ step = "release" => UNCHANGED payouts
<1>1. requests[h].payout \in Payouts
  BY BusyHolds DEF CreateRow
<1> DEFINE r == PendingRow(requests[h].amount, requests[h].mode)
<1>2. r \in Row /\ r.status = "pending"
  <2>1. requests[h].amount \in Amounts \cup {0} /\ requests[h].mode \in Modes
    BY DEF TypeOK, Request
  <2> QED BY <2>1 DEF PendingRow, Row, Statuses
<1> HIDE DEF r
<1>3. CASE payouts' = [payouts EXCEPT ![requests[h].payout] = r] /\ Goto(h, "enqueue")
  BY <1>1, <1>2, <1>3, GotoMoves DEF TypeOK, OtherRequests, RequestSteps
<1>4. CASE Goto(h, "release") /\ UNCHANGED payouts
  BY <1>4, GotoMoves DEF TypeOK, OtherRequests, RequestSteps
<1>5. \/ payouts' = [payouts EXCEPT ![requests[h].payout] = r] /\ Goto(h, "enqueue")
      \/ Goto(h, "release") /\ UNCHANGED payouts
  BY DEF CreateRow, r
<1> QED BY <1>3, <1>4, <1>5

(* The job is inserted, or not; the request goes to its end. *)
LEMMA EnqueueJobDoes ==
  ASSUME TypeOK, Ownership, NEW h \in Handlers, EnqueueJob(h)
  PROVE  /\ requests' \in [Handlers -> Request] /\ OtherRequests(h)
         /\ requests'[h].step = "release" /\ requests'[h].payout = requests[h].payout
         /\ jobs' \in [Payouts -> JobRow] /\ OtherJobs(requests[h].payout)
         /\ UNCHANGED jobs \/ jobs'[requests[h].payout].status = "pending"
<1>1. requests[h].payout \in Payouts
  BY BusyHolds DEF EnqueueJob
<1> DEFINE r == [jobs[requests[h].payout] EXCEPT !.status = "pending"]
<1>2. r \in JobRow /\ r.status = "pending"
  BY <1>1, JobRows DEF TypeOK
<1>3. UNCHANGED jobs \/ jobs' = [jobs EXCEPT ![requests[h].payout] = r]
  BY DEF EnqueueJob
<1> HIDE DEF r
<1>4. jobs' \in [Payouts -> JobRow] /\ OtherJobs(requests[h].payout)
        /\ (UNCHANGED jobs \/ jobs'[requests[h].payout].status = "pending")
  BY <1>1, <1>2, <1>3 DEF TypeOK, OtherJobs
<1> QED BY <1>4, GotoMoves DEF EnqueueJob, OtherRequests, RequestSteps

(* A request ends, by its last step or with its process. *)
LEMMA RequestEnds ==
  ASSUME TypeOK, NEW h \in Handlers, Release(h) \/ CrashRequest(h)
  PROVE  /\ requests' \in [Handlers -> Request] /\ OtherRequests(h)
         /\ requests'[h].step = "idle" /\ requests'[h].payout = Idle
         /\ lock' \in BOOLEAN
<1>1. requests' = [requests EXCEPT ![h] = NoRequest]
  BY DEF Release, CrashRequest
<1>2. lock' \in BOOLEAN
  BY DEF Release, CrashRequest, TypeOK
<1> QED BY <1>1, <1>2, Blanks DEF TypeOK, OtherRequests

-----------------------------------------------------------------------------
(* What the actions of ProcessPayout do to the records.                    *)

(* A pending job is claimed and its handler starts. *)
LEMMA ClaimNextDoes ==
  ASSUME TypeOK, NEW w \in Workers, ClaimNext(w)
  PROVE  \E p \in Payouts :
           /\ jobs[p].status = "pending"
           /\ jobs' \in [Payouts -> JobRow] /\ OtherJobs(p) /\ jobs'[p].status = "processing"
           /\ doing' \in [Workers -> Execution] /\ OtherExecutions(w)
           /\ doing'[w].step = "read" /\ doing'[w].payout = p
<1>1. PICK p \in Payouts :
        /\ Claimable(jobs[p])
        /\ jobs' = [jobs EXCEPT ![p] = Claimed(@)]
        /\ doing' = [doing EXCEPT ![w] = [step |-> "read", payout |-> p]]
  BY DEF ClaimNext
<1> DEFINE e == [step |-> "read", payout |-> p]
<1>2. e \in Execution /\ e.step = "read" /\ e.payout = p
  BY DEF Execution, WorkerSteps
<1>3. doing' = [doing EXCEPT ![w] = e]
  BY <1>1
<1> HIDE DEF e
<1>4. jobs' \in [Payouts -> JobRow] /\ OtherJobs(p) /\ jobs'[p].status = "processing"
  BY <1>1, JobRows DEF TypeOK, OtherJobs
<1>5. doing' \in [Workers -> Execution] /\ OtherExecutions(w)
        /\ doing'[w].step = "read" /\ doing'[w].payout = p
  BY <1>2, <1>3 DEF TypeOK, OtherExecutions
<1> QED BY <1>1, <1>4, <1>5 DEF Claimable

(* An execution ends: by an error, without one, or with its process. *)
LEMMA ExecutionEnds ==
  ASSUME TypeOK, Ownership, NEW w \in Workers, ReadFails(w) \/ Return(w) \/ CrashWorker(w)
  PROVE  /\ doing[w].step # "idle" /\ doing[w].payout \in Payouts
         /\ doing' \in [Workers -> Execution] /\ OtherExecutions(w)
         /\ doing'[w].step = "idle" /\ doing'[w].payout = Idle
         /\ jobs' \in [Payouts -> JobRow] /\ OtherJobs(doing[w].payout)
         /\ UNCHANGED jobs \/ jobs'[doing[w].payout].status \in {"done", "failed"}
         /\ UNCHANGED <<payouts, ledger, lock, requests, moved>>
         /\ UNCHANGED faults \/ faults' = faults + 1
<1>1. doing[w].step # "idle" /\ doing[w].payout \in Payouts
  BY BusyHolds DEF ReadFails, Return, CrashWorker
<1>2. doing' = [doing EXCEPT ![w] = NoExecution]
  BY DEF ReadFails, Return, CrashWorker
<1>3. \/ UNCHANGED jobs
      \/ jobs' = [jobs EXCEPT ![doing[w].payout] = MarkedDone(@)]
      \/ jobs' = [jobs EXCEPT ![doing[w].payout] = MarkedFailed(@)]
  BY DEF ReadFails, Return, CrashWorker
<1> DEFINE d == MarkedDone(jobs[doing[w].payout])
           f == MarkedFailed(jobs[doing[w].payout])
<1>4. /\ d \in JobRow /\ d.status = "done"
      /\ f \in JobRow /\ f.status = "failed"
  BY <1>1, JobRows DEF TypeOK
<1>5. UNCHANGED jobs \/ \E r \in {d, f} : jobs' = [jobs EXCEPT ![doing[w].payout] = r]
  BY <1>3
<1> HIDE DEF d, f
<1>6. jobs' \in [Payouts -> JobRow] /\ OtherJobs(doing[w].payout)
        /\ (UNCHANGED jobs \/ jobs'[doing[w].payout].status \in {"done", "failed"})
  BY <1>1, <1>4, <1>5 DEF TypeOK, OtherJobs
<1>7. doing' \in [Workers -> Execution] /\ OtherExecutions(w)
        /\ doing'[w].step = "idle" /\ doing'[w].payout = Idle
  BY <1>2, Blanks DEF TypeOK, OtherExecutions
<1>8. /\ UNCHANGED <<payouts, ledger, lock, requests, moved>>
      /\ UNCHANGED faults \/ faults' = faults + 1
  <2>1. CASE ReadFails(w)
    BY <2>1 DEF ReadFails, Fault, apiVars
  <2>2. CASE Return(w)
    BY <2>2 DEF Return, Fault, NoFault, apiVars
  <2>3. CASE CrashWorker(w)
    BY <2>3 DEF CrashWorker, Fault, apiVars
  <2> QED BY <2>1, <2>2, <2>3
<1> QED BY <1>1, <1>6, <1>7, <1>8

(* The goroutine goes on to another step with the payout it holds, and     *)
(* touches the status of no other; the queue and the requests stay.        *)
StepsTo(w, step) ==
  /\ doing[w].step # "idle" /\ doing[w].payout \in Payouts
  /\ doing' \in [Workers -> Execution] /\ OtherExecutions(w)
  /\ doing'[w].step = step /\ doing'[w].payout = doing[w].payout
  /\ UNCHANGED <<jobs, lock, requests>>

Becomes(p, status) ==
  /\ payouts' \in [Payouts -> Row]
  /\ payouts'[p].status = status /\ payouts'[p].mode = payouts[p].mode
  /\ \A q \in Payouts : q # p => payouts'[q] = payouts[q]

(* Only a pending payout is processed. *)
LEMMA ReadDoes ==
  ASSUME TypeOK, Ownership, NEW w \in Workers, Read(w)
  PROVE  /\ doing[w].step = "read" /\ UNCHANGED <<payouts, ledger, moved, faults>>
         /\ \/ payouts[doing[w].payout].status = "pending" /\ StepsTo(w, "mark")
            \/ payouts[doing[w].payout].status # "pending" /\ StepsTo(w, "return")
BY BusyHolds, ProceedMoves
DEF Read, Skips, StepsTo, OtherExecutions, WorkerSteps, apiVars

(* A test payout is completed next, a live one transferred. *)
LEMMA MarkProcessingDoes ==
  ASSUME TypeOK, Ownership, NEW w \in Workers, MarkProcessing(w)
  PROVE  /\ doing[w].step = "mark" /\ UNCHANGED <<ledger, moved>>
         /\ IF payouts[doing[w].payout].mode = "test"
            THEN StepsTo(w, "complete") ELSE StepsTo(w, "transfer")
         /\ \/ Becomes(doing[w].payout, "processing") /\ UNCHANGED faults
            \/ UNCHANGED payouts /\ faults' = faults + 1
<1>1. doing[w].step = "mark" /\ doing[w].payout \in Payouts
  BY BusyHolds DEF MarkProcessing
<1>2. /\ Proceed(w, AfterMark(payouts[doing[w].payout].mode))
      /\ UNCHANGED <<jobs, ledger, lock, requests, moved>>
      /\ \/ SetStatus(doing[w].payout, "processing") /\ UNCHANGED faults
         \/ UNCHANGED payouts /\ faults' = faults + 1
  BY DEF MarkProcessing, Fault, NoFault, apiVars
<1>3. IF payouts[doing[w].payout].mode = "test"
      THEN StepsTo(w, "complete") ELSE StepsTo(w, "transfer")
  BY <1>1, <1>2, ProceedMoves DEF AfterMark, StepsTo, OtherExecutions, WorkerSteps
<1>4. SetStatus(doing[w].payout, "processing") => Becomes(doing[w].payout, "processing")
  BY <1>1, SetStatusSets DEF Becomes, Statuses
<1> QED BY <1>1, <1>2, <1>3, <1>4

(* Money moves at most once in a transfer; failure is what a lost answer becomes. *)
LEMMA TransferDoes ==
  ASSUME TypeOK, Ownership, NEW w \in Workers, Transfer(w)
  PROVE  /\ doing[w].step = "transfer" /\ UNCHANGED <<payouts, ledger>>
         /\ moved' \in [Payouts -> Nat]
         /\ \A q \in Payouts : q # doing[w].payout => moved'[q] = moved[q]
         /\ \/ /\ moved'[doing[w].payout] = moved[doing[w].payout] + 1
               /\ StepsTo(w, "complete") /\ UNCHANGED faults
            \/ /\ moved'[doing[w].payout] = moved[doing[w].payout] + 1
               /\ StepsTo(w, "fail") /\ faults' = faults + 1
            \/ StepsTo(w, "fail") /\ UNCHANGED <<moved, faults>>
<1>1. doing[w].step = "transfer" /\ doing[w].payout \in Payouts
  BY BusyHolds DEF Transfer
<1>2. /\ UNCHANGED <<payouts, jobs, ledger, lock, requests>>
      /\ \/ /\ moved' = [moved EXCEPT ![doing[w].payout] = @ + 1]
            /\ Proceed(w, "complete") /\ UNCHANGED faults
         \/ /\ moved' = [moved EXCEPT ![doing[w].payout] = @ + 1]
            /\ Proceed(w, "fail") /\ faults' = faults + 1
         \/ Proceed(w, "fail") /\ UNCHANGED <<moved, faults>>
  BY DEF Transfer, Fault, NoFault, apiVars
<1>3. /\ Proceed(w, "complete") => StepsTo(w, "complete")
      /\ Proceed(w, "fail") => StepsTo(w, "fail")
  BY <1>1, <1>2, ProceedMoves DEF StepsTo, OtherExecutions, WorkerSteps
<1> QED BY <1>1, <1>2, <1>3 DEF TypeOK

(* The row is completed and the debit follows, or neither happens. *)
LEMMA MarkCompletedDoes ==
  ASSUME TypeOK, Ownership, NEW w \in Workers, MarkCompleted(w)
  PROVE  /\ doing[w].step = "complete" /\ UNCHANGED <<ledger, moved>>
         /\ \/ /\ Becomes(doing[w].payout, "completed")
               /\ StepsTo(w, "debit") /\ UNCHANGED faults
            \/ StepsTo(w, "return") /\ UNCHANGED payouts /\ faults' = faults + 1
<1>1. doing[w].step = "complete" /\ doing[w].payout \in Payouts
  BY BusyHolds DEF MarkCompleted
<1>2. /\ UNCHANGED <<jobs, ledger, lock, requests, moved>>
      /\ \/ /\ SetStatus(doing[w].payout, "completed")
            /\ Proceed(w, "debit") /\ UNCHANGED faults
         \/ Proceed(w, "return") /\ UNCHANGED payouts /\ faults' = faults + 1
  BY DEF MarkCompleted, Fault, NoFault, apiVars
<1>3. /\ Proceed(w, "debit") => StepsTo(w, "debit")
      /\ Proceed(w, "return") => StepsTo(w, "return")
  BY <1>1, <1>2, ProceedMoves DEF StepsTo, OtherExecutions, WorkerSteps
<1>4. SetStatus(doing[w].payout, "completed") => Becomes(doing[w].payout, "completed")
  BY <1>1, SetStatusSets DEF Becomes, Statuses
<1> QED BY <1>1, <1>2, <1>3, <1>4

(* The entry is appended, or not. *)
LEMMA RecordLedgerDebitDoes ==
  ASSUME TypeOK, Ownership, NEW w \in Workers, RecordLedgerDebit(w)
  PROVE  /\ doing[w].step = "debit" /\ StepsTo(w, "return") /\ UNCHANGED <<payouts, moved>>
         /\ \/ ledger' = ledger \cup {doing[w].payout} /\ UNCHANGED faults
            \/ UNCHANGED ledger /\ faults' = faults + 1
<1>1. doing[w].step = "debit" /\ doing[w].payout \in Payouts
  BY BusyHolds DEF RecordLedgerDebit
<1>2. /\ Proceed(w, "return") /\ UNCHANGED <<payouts, jobs, lock, requests, moved>>
      /\ \/ ledger' = ledger \cup {doing[w].payout} /\ UNCHANGED faults
         \/ UNCHANGED ledger /\ faults' = faults + 1
  BY DEF RecordLedgerDebit, Recorded, Fault, NoFault, apiVars
<1>3. StepsTo(w, "return")
  BY <1>1, <1>2, ProceedMoves DEF StepsTo, OtherExecutions, WorkerSteps
<1> QED BY <1>1, <1>2, <1>3

(* The row is failed, or stays as it was. *)
LEMMA MarkFailedDoes ==
  ASSUME TypeOK, Ownership, NEW w \in Workers, MarkFailed(w)
  PROVE  /\ doing[w].step = "fail" /\ StepsTo(w, "return") /\ UNCHANGED <<ledger, moved>>
         /\ \/ Becomes(doing[w].payout, "failed") /\ UNCHANGED faults
            \/ UNCHANGED payouts /\ faults' = faults + 1
<1>1. doing[w].step = "fail" /\ doing[w].payout \in Payouts
  BY BusyHolds DEF MarkFailed
<1>2. /\ Proceed(w, "return") /\ UNCHANGED <<jobs, ledger, lock, requests, moved>>
      /\ \/ SetStatus(doing[w].payout, "failed") /\ UNCHANGED faults
         \/ UNCHANGED payouts /\ faults' = faults + 1
  BY DEF MarkFailed, Fault, NoFault, apiVars
<1>3. StepsTo(w, "return")
  BY <1>1, <1>2, ProceedMoves DEF StepsTo, OtherExecutions, WorkerSteps
<1>4. SetStatus(doing[w].payout, "failed") => Becomes(doing[w].payout, "failed")
  BY <1>1, SetStatusSets DEF Becomes, Statuses
<1> QED BY <1>1, <1>2, <1>3, <1>4

(* The six steps of ProcessPayout between its claim and its end. *)
Advances(w) ==
  \/ Read(w) \/ MarkProcessing(w) \/ Transfer(w) \/ MarkCompleted(w)
  \/ RecordLedgerDebit(w) \/ MarkFailed(w)

(* None of them lets go of the payout, makes a row absent or touches another row. *)
LEMMA AdvancesDoes ==
  ASSUME TypeOK, Ownership, NEW w \in Workers, Advances(w)
  PROVE  /\ \E step \in WorkerSteps \ {"idle"} : StepsTo(w, step)
         /\ payouts' \in [Payouts -> Row]
         /\ \A q \in Payouts : q # doing[w].payout => payouts'[q] = payouts[q]
         /\ payouts'[doing[w].payout].status \in
              {payouts[doing[w].payout].status, "processing", "completed", "failed"}
         /\ ledger' \subseteq Payouts /\ moved' \in [Payouts -> Nat] /\ faults' \in Nat
<1> USE DEF TypeOK, WorkerSteps
<1>0. /\ doing[w].step # "idle" /\ doing[w].payout \in Payouts
  BY BusyHolds DEF Advances, Read, MarkProcessing, Transfer, MarkCompleted, RecordLedgerDebit,
                   MarkFailed
<1>1. CASE Read(w)
  BY <1>0, <1>1, ReadDoes
<1>2. CASE MarkProcessing(w)
  BY <1>0, <1>2, MarkProcessingDoes DEF Becomes
<1>3. CASE Transfer(w)
  BY <1>0, <1>3, TransferDoes
<1>4. CASE MarkCompleted(w)
  BY <1>0, <1>4, MarkCompletedDoes DEF Becomes
<1>5. CASE RecordLedgerDebit(w)
  BY <1>0, <1>5, RecordLedgerDebitDoes
<1>6. CASE MarkFailed(w)
  BY <1>0, <1>6, MarkFailedDoes DEF Becomes
<1> QED BY <1>1, <1>2, <1>3, <1>4, <1>5, <1>6 DEF Advances

(* The sweep gives a job nobody holds back. *)
LEMMA RecoverStaleLockDoes ==
  ASSUME TypeOK, NEW p \in Payouts, RecoverStaleLock(p)
  PROVE  /\ \A w \in Workers : doing[w].payout # p
         /\ jobs[p].status = "processing" /\ jobs'[p].status = "pending"
         /\ jobs' \in [Payouts -> JobRow] /\ OtherJobs(p)
         /\ UNCHANGED <<payouts, ledger, lock, requests, doing, moved, faults>>
<1> DEFINE r == Recovered(jobs[p])
<1>1. r \in JobRow /\ r.status = "pending"
  BY JobRows DEF TypeOK
<1>2. jobs' = [jobs EXCEPT ![p] = r]
  BY DEF RecoverStaleLock
<1> HIDE DEF r
<1> QED BY <1>1, <1>2 DEF RecoverStaleLock, Recoverable, TypeOK, OtherJobs, apiVars

-----------------------------------------------------------------------------

(* Types, and who holds what. *)
Base == TypeOK /\ Ownership /\ Creation

(* Nothing is held at the start. *)
LEMMA BaseInit == Init => Base
<1> SUFFICES ASSUME Init PROVE Base
  OBVIOUS
<1> DEFINE r == [status |-> "absent", amount |-> 0, mode |-> "live"]
           j == [status |-> "absent", attempts |-> 0, max |-> MaxAttempts]
<1>1. r \in Row /\ r.status = "absent" /\ j \in JobRow /\ j.status = "absent"
  BY DEF Row, JobRow, Statuses, Modes
<1>2. /\ payouts = [p \in Payouts |-> r] /\ jobs = [p \in Payouts |-> j]
      /\ ledger = {} /\ lock = FALSE /\ faults = 0 /\ moved = [p \in Payouts |-> 0]
      /\ requests = [h \in Handlers |-> NoRequest] /\ doing = [w \in Workers |-> NoExecution]
  BY DEF Init
<1> HIDE DEF r, j
<1> QED BY <1>1, <1>2, Blanks DEF Base, TypeOK, Ownership, Creation

(* No action lets two hold one payout, or inserts a row or a job twice. *)
LEMMA BaseStep == Base /\ [Next]_vars => Base'
<1> SUFFICES ASSUME TypeOK, Ownership, Creation, [Next]_vars PROVE Base'
  BY DEF Base
<1> USE PayoutAssumption
<1>0. /\ \A h \in Handlers : requests[h].step # "idle" => requests[h].payout \in Payouts
      /\ \A w \in Workers : doing[w].step # "idle" => doing[w].payout \in Payouts
  BY BusyHolds
<1>1. ASSUME NEW h \in Handlers, Begin(h)
      PROVE  Base'
  <2>1. UNCHANGED <<payouts, jobs, ledger, doing, moved, faults>> /\ lock' \in BOOLEAN
    BY <1>1 DEF Begin, workerVars
  <2>2. requests[h].step = "idle"
    BY <1>1 DEF Begin
  <2> QED
    BY <1>0, <1>1, <2>1, <2>2, BeginDoes DEF Base, TypeOK, Ownership, Creation, OtherRequests
<1>2. ASSUME NEW h \in Handlers, Approve(h) \/ Refuse(h)
      PROVE  Base'
  <2>1. UNCHANGED <<payouts, jobs, ledger, lock, doing, moved, faults>>
        /\ requests[h].step = "check" /\ \E step \in {"create", "release"} : Goto(h, step)
    BY <1>2 DEF Approve, Refuse, workerVars
  <2> QED
    BY <1>0, <2>1, GotoMoves DEF Base, TypeOK, Ownership, Creation, RequestSteps
<1>3. ASSUME NEW h \in Handlers, CreateRow(h)
      PROVE  Base'
  <2>1. /\ UNCHANGED <<jobs, ledger, lock, doing, moved>> /\ faults' \in Nat
        /\ requests[h].step = "create"
    BY <1>3 DEF CreateRow, workerVars, Fault, NoFault, TypeOK
  <2> QED
    BY <1>0, <1>3, <2>1, CreateRowDoes DEF Base, TypeOK, Ownership, Creation, OtherRequests
<1>4. ASSUME NEW h \in Handlers, EnqueueJob(h)
      PROVE  Base'
  <2>1. /\ UNCHANGED <<payouts, ledger, lock, doing, moved>> /\ faults' \in Nat
        /\ requests[h].step = "enqueue"
    BY <1>4 DEF EnqueueJob, Fault, NoFault, TypeOK
  <2> QED
    BY <1>0, <1>4, <2>1, EnqueueJobDoes
    DEF Base, TypeOK, Ownership, Creation, OtherRequests, OtherJobs
<1>5. ASSUME NEW h \in Handlers, Release(h) \/ CrashRequest(h)
      PROVE  Base'
  <2>1. UNCHANGED <<payouts, jobs, ledger, doing, moved>> /\ faults' \in Nat
    BY <1>5 DEF Release, CrashRequest, workerVars, Fault, NoFault, TypeOK
  <2> QED
    BY <1>0, <1>5, <2>1, RequestEnds DEF Base, TypeOK, Ownership, Creation, OtherRequests
<1>6. ASSUME NEW w \in Workers, ClaimNext(w)
      PROVE  Base'
  <2>1. UNCHANGED <<payouts, ledger, lock, requests, moved, faults>> /\ doing[w].step = "idle"
    BY <1>6 DEF ClaimNext, apiVars
  <2> QED
    BY <1>0, <1>6, <2>1, ClaimNextDoes
    DEF Base, TypeOK, Ownership, Creation, OtherExecutions, OtherJobs
<1>7. ASSUME NEW w \in Workers, ReadFails(w) \/ Return(w) \/ CrashWorker(w)
      PROVE  Base'
  BY <1>0, <1>7, ExecutionEnds
  DEF Base, TypeOK, Ownership, Creation, OtherExecutions, OtherJobs
<1>8. ASSUME NEW w \in Workers, Advances(w)
      PROVE  Base'
  BY <1>0, <1>8, AdvancesDoes DEF Base, TypeOK, Ownership, Creation, OtherExecutions, StepsTo
<1>9. CASE LockExpires
  BY <1>9 DEF LockExpires, workerVars, Base, TypeOK, Ownership, Creation
<1>10. ASSUME NEW p \in Payouts, RecoverStaleLock(p)
       PROVE  Base'
  BY <1>0, <1>10, RecoverStaleLockDoes DEF Base, TypeOK, Ownership, Creation, OtherJobs
<1>11. CASE UNCHANGED vars
  BY <1>11 DEF vars, Base, TypeOK, Ownership, Creation
<1> QED
  BY <1>1, <1>2, <1>3, <1>4, <1>5, <1>6, <1>7, <1>8, <1>9, <1>10, <1>11
  DEF Next, Serve, Work, Advances

(* Create rows, keys and jobs are written and locks given back without a   *)
(* goroutine, the ledger or the bank: at most an absent row is inserted.   *)
Elsewhere ==
  /\ UNCHANGED <<doing, ledger, moved>>
  /\ UNCHANGED faults \/ faults' = faults + 1
  /\ \/ UNCHANGED payouts
     \/ \E p \in Payouts :
          /\ payouts[p].status = "absent" /\ payouts'[p].status = "pending"
          /\ \A q \in Payouts : q # p => payouts'[q] = payouts[q]

Ends(w) == ReadFails(w) \/ Return(w) \/ CrashWorker(w)

(* Every step happens elsewhere, or starts, ends or advances an execution. *)
LEMMA NextSplits ==
  ASSUME Base, [Next]_vars
  PROVE  Elsewhere \/ \E w \in Workers : ClaimNext(w) \/ Ends(w) \/ Advances(w)
<1> USE DEF Base
<1>1. ASSUME NEW h \in Handlers, CreateRow(h)
      PROVE  Elsewhere
  <2>1. requests[h].payout \in Payouts /\ payouts[requests[h].payout].status = "absent"
    BY <1>1, BusyHolds DEF CreateRow, Creation
  <2>2. UNCHANGED <<doing, ledger, moved>> /\ (UNCHANGED faults \/ faults' = faults + 1)
    BY <1>1 DEF CreateRow, workerVars, Fault, NoFault
  <2> QED
    BY <1>1, <2>1, <2>2, CreateRowDoes DEF Elsewhere
<1>2. ASSUME NEW h \in Handlers,
             Begin(h) \/ Approve(h) \/ Refuse(h) \/ EnqueueJob(h) \/ Release(h) \/ CrashRequest(h)
      PROVE  Elsewhere
  <2>1. UNCHANGED <<payouts, doing, ledger, moved>>
    BY <1>2 DEF Begin, Approve, Refuse, EnqueueJob, Release, CrashRequest, workerVars
  <2>2. UNCHANGED faults \/ faults' = faults + 1
    BY <1>2 DEF Begin, Approve, Refuse, EnqueueJob, Release, CrashRequest, Fault, NoFault
  <2> QED BY <2>1, <2>2 DEF Elsewhere
<1>3. ASSUME LockExpires \/ UNCHANGED vars \/ \E p \in Payouts : RecoverStaleLock(p)
      PROVE  Elsewhere
  BY <1>3 DEF LockExpires, vars, RecoverStaleLock, workerVars, Elsewhere
<1> QED
  BY <1>1, <1>2, <1>3 DEF Next, Serve, Work, Ends, Advances

-----------------------------------------------------------------------------

(* A request in progress is the only one, and the key is there, unless the *)
(* ten seconds passed under it.                                            *)
LockHeld ==
  RequestsAreQuick =>
    /\ \A g, h \in Handlers : requests[g].step # "idle" /\ requests[h].step # "idle" => g = h
    /\ \A h \in Handlers : requests[h].step # "idle" => lock

(* SETNX admits nobody while a request is in progress. *)
LEMMA LockStep == Base /\ LockHeld /\ [Next]_vars => LockHeld'
<1> SUFFICES ASSUME TypeOK, Ownership, LockHeld, [Next]_vars, RequestsAreQuick
             PROVE  LockHeld'
  BY DEF Base, LockHeld
<1> USE DEF LockHeld, OtherRequests
<1>1. ASSUME NEW h \in Handlers, Begin(h)
      PROVE  LockHeld'
  BY <1>1, BeginDoes DEF Begin, LockIsFree
<1>2. ASSUME NEW h \in Handlers, Approve(h) \/ Refuse(h)
      PROVE  LockHeld'
  <2>1. UNCHANGED lock /\ requests[h].step = "check"
        /\ \E step \in {"create", "release"} : Goto(h, step)
    BY <1>2 DEF Approve, Refuse
  <2> QED BY <2>1, GotoMoves DEF RequestSteps
<1>3. ASSUME NEW h \in Handlers, CreateRow(h) \/ EnqueueJob(h)
      PROVE  LockHeld'
  <2>1. UNCHANGED lock /\ requests[h].step # "idle"
    BY <1>3 DEF CreateRow, EnqueueJob
  <2> QED BY <1>3, <2>1, CreateRowDoes, EnqueueJobDoes
<1>4. ASSUME NEW h \in Handlers, Release(h) \/ CrashRequest(h)
      PROVE  LockHeld'
  <2>1. requests[h].step # "idle"
    BY <1>4 DEF Release, CrashRequest
  <2> QED BY <1>4, <2>1, RequestEnds
<1>5. CASE LockExpires
  BY <1>5 DEF LockExpires
<1>6. ASSUME \/ UNCHANGED vars
             \/ \E w \in Workers : Work(w) \/ CrashWorker(w)
             \/ \E p \in Payouts : RecoverStaleLock(p)
      PROVE  LockHeld'
  <2>1. UNCHANGED <<lock, requests>>
    BY <1>6
    DEF vars, apiVars, Work, ClaimNext, Read, ReadFails, MarkProcessing, Transfer, MarkCompleted,
        RecordLedgerDebit, MarkFailed, Return, CrashWorker, RecoverStaleLock
  <2> QED BY <2>1
<1> QED
  BY <1>1, <1>2, <1>3, <1>4, <1>5, <1>6 DEF Next, Serve

(* What is known of the row and of the money at each step of ProcessPayout. *)
Standing ==
  \A w \in Workers :
    LET p == doing[w].payout  step == doing[w].step IN
    /\ step = "mark" => payouts[p].status = "pending"
    /\ step \in {"transfer", "complete", "fail"} => payouts[p].status \in {"pending", "processing"}
    /\ step = "transfer" => payouts[p].mode = "live"
    /\ step = "debit" => payouts[p].status = "completed"
    /\ step \in {"complete", "debit"} /\ payouts[p].mode = "live" => moved[p] > 0

(* The steps of ProcessPayout find what the one before them left. *)
LEMMA StandingStep ==
  ASSUME Base, Standing, DebitsAreBacked, [Next]_vars
  PROVE  Standing' /\ DebitsAreBacked'
<1> USE DEF Standing, DebitsAreBacked
<1>0. /\ \A w \in Workers : doing[w].step # "idle" =>
           doing[w].payout \in Payouts /\ payouts[doing[w].payout].status # "absent"
      /\ \A p \in Payouts : payouts[p].mode \in {"live", "test"} /\ moved[p] \in Nat
      /\ \A v, w \in Workers :
           doing[v].payout = doing[w].payout /\ doing[v].step # "idle" => v = w
      /\ ledger \subseteq Payouts
  BY BusyHolds DEF Base, TypeOK, Ownership, Creation, Row, Modes
<1>1. CASE Elsewhere
  BY <1>0, <1>1 DEF Elsewhere
<1>2. ASSUME NEW w \in Workers, ClaimNext(w)
      PROVE  Standing' /\ DebitsAreBacked'
  BY <1>0, <1>2, ClaimNextDoes DEF ClaimNext, OtherExecutions, Base
<1>3. ASSUME NEW w \in Workers, Ends(w)
      PROVE  Standing' /\ DebitsAreBacked'
  BY <1>0, <1>3, ExecutionEnds DEF Ends, OtherExecutions, Base
<1>4. ASSUME NEW w \in Workers, Advances(w)
      PROVE  Standing' /\ DebitsAreBacked'
  <2> USE <1>0 DEF Base, StepsTo, OtherExecutions, Becomes
  <2>1. CASE Read(w)
    BY <2>1, ReadDoes
  <2>2. CASE MarkProcessing(w)
    BY <2>2, MarkProcessingDoes
  <2>3. CASE Transfer(w)
    BY <2>3, TransferDoes
  <2>4. CASE MarkCompleted(w)
    BY <2>4, MarkCompletedDoes
  <2>5. CASE RecordLedgerDebit(w)
    BY <2>5, RecordLedgerDebitDoes
  <2>6. CASE MarkFailed(w)
    BY <2>6, MarkFailedDoes
  <2> QED BY <1>4, <2>1, <2>2, <2>3, <2>4, <2>5, <2>6 DEF Advances
<1> QED BY <1>1, <1>2, <1>3, <1>4, NextSplits

(* Money that moved for a row which still says pending is in the hands of  *)
(* the goroutine whose MarkProcessing failed; a death of that goroutine    *)
(* would be the second fault.                                              *)
Single ==
  /\ \A w \in Workers :
       doing[w].step = "transfer" /\ payouts[doing[w].payout].status = "pending" => faults > 0
  /\ faults <= 1 =>
       /\ \A p \in Payouts : moved[p] <= 1
       /\ \A w \in Workers : doing[w].step \in {"mark", "transfer"} => moved[doing[w].payout] = 0
       /\ \A p \in Payouts :
            payouts[p].status \in {"absent", "pending"} /\ moved[p] > 0 =>
              /\ faults = 1
              /\ \E w \in Workers : doing[w].payout = p /\ doing[w].step \in {"complete", "fail"}

(* A row that is tried again has not been paid. *)
LEMMA SingleStep ==
  ASSUME Base, Standing, Single, [Next]_vars
  PROVE  Single'
<1> USE DEF Single
<1>0. /\ \A w \in Workers : doing[w].step # "idle" =>
           /\ doing[w].payout \in Payouts /\ payouts[doing[w].payout].status # "absent"
           /\ jobs[doing[w].payout].status = "processing"
      /\ \A p \in Payouts : moved[p] \in Nat
      /\ \A v, w \in Workers :
           doing[v].payout = doing[w].payout /\ doing[v].step # "idle" => v = w
      /\ faults \in Nat
  BY BusyHolds DEF Base, TypeOK, Ownership, Creation
<1>1. CASE Elsewhere
  BY <1>0, <1>1 DEF Elsewhere
<1>2. ASSUME NEW w \in Workers, ClaimNext(w)
      PROVE  Single'
  <2>1. doing[w].step = "idle" /\ UNCHANGED <<payouts, ledger, moved, faults>>
    BY <1>2 DEF ClaimNext
  <2>2. \A v \in Workers : doing[v].step # "idle" => v # w /\ doing'[v] = doing[v]
    BY <1>2, <2>1, ClaimNextDoes DEF OtherExecutions, Base
  <2>3. \A v \in Workers : doing'[v].step \in {"mark", "transfer"} => doing'[v] = doing[v]
    BY <1>2, ClaimNextDoes DEF OtherExecutions, Base
  <2> QED
    BY <1>0, <2>1, <2>2, <2>3
<1>3. ASSUME NEW w \in Workers, Ends(w)
      PROVE  Single'
  <2>1. ReadFails(w) \/ CrashWorker(w) => faults' = faults + 1
    BY DEF ReadFails, CrashWorker, Fault
  <2>2. Return(w) => doing[w].step = "return"
    BY DEF Return
  <2> QED
    BY <1>0, <1>3, <2>1, <2>2, ExecutionEnds DEF Ends, OtherExecutions, Base
<1>4. ASSUME NEW w \in Workers, Advances(w)
      PROVE  Single'
  <2> USE <1>0 DEF Base, StepsTo, OtherExecutions, Becomes
  <2>1. CASE Read(w)
    BY <2>1, ReadDoes
  <2>2. CASE MarkProcessing(w)
    BY <2>2, MarkProcessingDoes DEF Standing
  <2>3. CASE Transfer(w)
    BY <2>3, TransferDoes DEF Standing
  <2>4. CASE MarkCompleted(w)
    BY <2>4, MarkCompletedDoes DEF Standing
  <2>5. CASE RecordLedgerDebit(w)
    BY <2>5, RecordLedgerDebitDoes
  <2>6. CASE MarkFailed(w)
    BY <2>6, MarkFailedDoes
  <2> QED BY <1>4, <2>1, <2>2, <2>3, <2>4, <2>5, <2>6 DEF Advances
<1> QED BY <1>1, <1>2, <1>3, <1>4, NextSplits

(* Status, ledger and money of a payout agree. *)
Agrees(p) ==
  /\ payouts[p].status = "completed" <=> p \in ledger
  /\ moved[p] = IF p \in ledger /\ payouts[p].mode = "live" THEN 1 ELSE 0

(* Without faults they agree but between a transfer and its entry.         *)
Balanced ==
  faults = 0 =>
    /\ \A p \in Payouts :
         (\A w \in Workers : Holds(w, p) => doing[w].step \notin {"complete", "debit"}) => Agrees(p)
    /\ \A w \in Workers :
         doing[w].step \in {"complete", "debit"} =>
           /\ doing[w].payout \notin ledger
           /\ moved[doing[w].payout] = IF payouts[doing[w].payout].mode = "live" THEN 1 ELSE 0

(* Each step keeps or restores the agreement. *)
LEMMA BalancedStep ==
  ASSUME Base, Standing, Balanced, [Next]_vars
  PROVE  Balanced'
<1> USE DEF Balanced, Agrees, Holds
<1>0. /\ \A w \in Workers : doing[w].step # "idle" =>
           /\ doing[w].payout \in Payouts /\ payouts[doing[w].payout].status # "absent"
           /\ jobs[doing[w].payout].status = "processing"
      /\ \A p \in Payouts : moved[p] \in Nat /\ payouts[p].mode \in {"live", "test"}
      /\ \A v, w \in Workers :
           doing[v].payout = doing[w].payout /\ doing[v].step # "idle" => v = w
      /\ faults \in Nat
  BY BusyHolds DEF Base, TypeOK, Ownership, Creation, Row, Modes
<1>1. CASE Elsewhere
  BY <1>0, <1>1 DEF Elsewhere
<1>2. ASSUME NEW w \in Workers, ClaimNext(w)
      PROVE  Balanced'
  <2>1. doing[w].step = "idle" /\ UNCHANGED <<payouts, ledger, moved, faults>>
    BY <1>2 DEF ClaimNext
  <2>2. \A v \in Workers : doing[v].step # "idle" => v # w
    BY <2>1
  <2> QED
    BY <1>0, <1>2, <2>1, <2>2, ClaimNextDoes DEF OtherExecutions, Base, Ownership
<1>3. ASSUME NEW w \in Workers, Ends(w)
      PROVE  Balanced'
  <2>1. ReadFails(w) \/ CrashWorker(w) => faults' = faults + 1
    BY DEF ReadFails, CrashWorker, Fault
  <2>2. Return(w) => doing[w].step = "return"
    BY DEF Return
  <2> QED
    BY <1>0, <1>3, <2>1, <2>2, ExecutionEnds DEF Ends, OtherExecutions, Base
<1>4. ASSUME NEW w \in Workers, Advances(w)
      PROVE  Balanced'
  <2> USE <1>0 DEF Base, StepsTo, OtherExecutions, Becomes
  <2>1. CASE Read(w)
    BY <2>1, ReadDoes
  <2>2. CASE MarkProcessing(w)
    BY <2>2, MarkProcessingDoes DEF Standing
  <2>3. CASE Transfer(w)
    BY <2>3, TransferDoes DEF Standing
  <2>4. CASE MarkCompleted(w)
    BY <2>4, MarkCompletedDoes DEF Standing
  <2>5. CASE RecordLedgerDebit(w)
    BY <2>5, RecordLedgerDebitDoes DEF Standing
  <2>6. CASE MarkFailed(w)
    BY <2>6, MarkFailedDoes DEF Standing
  <2> QED BY <1>4, <2>1, <2>2, <2>3, <2>4, <2>5, <2>6 DEF Advances
<1> QED BY <1>1, <1>2, <1>3, <1>4, NextSplits

-----------------------------------------------------------------------------

IInv == Base /\ LockHeld /\ Standing /\ DebitsAreBacked /\ Single /\ Balanced

(* The conjunction is inductive. *)
LEMMA Invariance == Spec => []IInv
<1>1. Init => IInv
  <2>1. ASSUME Init PROVE LockHeld /\ Standing /\ DebitsAreBacked /\ Single /\ Balanced
    <3>1. /\ \A h \in Handlers : requests[h].step = "idle"
          /\ \A w \in Workers : doing[w].step = "idle"
          /\ ledger = {} /\ \A p \in Payouts : moved[p] = 0 /\ payouts[p].status = "absent"
      BY <2>1, Blanks DEF Init
    <3> QED
      BY <3>1 DEF LockHeld, Standing, DebitsAreBacked, Single, Balanced, Agrees
  <2> QED BY <2>1, BaseInit DEF IInv
<1>2. IInv /\ [Next]_vars => IInv'
  BY BaseStep, LockStep, StandingStep, SingleStep, BalancedStep DEF IInv
<1> QED BY <1>1, <1>2, PTL DEF Spec

(* The tables, the requests and the goroutines keep their types, for any   *)
(* number of each and any faults.                                          *)
THEOREM TypeCorrect == Spec => []TypeOK
BY Invariance, PTL DEF IInv, Base

(* Payout creation is serialised (OneRequestAtATime) as long as requests   *)
(* end within the ten seconds of their lock.                               *)
THEOREM CreationSerialised == Spec => []OneRequestAtATime
<1>1. IInv => OneRequestAtATime
  BY DEF IInv, LockHeld, OneRequestAtATime
<1> QED BY <1>1, Invariance, PTL

(* A PAYOUT entry stands for a completed payout and for money that left    *)
(* (DebitsAreBacked), under any number of faults.                          *)
THEOREM DebitsBacked == Spec => []DebitsAreBacked
BY Invariance, PTL DEF IInv

(* One fault anywhere does not make ProcessPayout pay twice (PaidOutOnce). *)
THEOREM OnePayment == Spec => []PaidOutOnce
<1>1. IInv => PaidOutOnce
  BY DEF IInv, Single, PaidOutOnce
<1> QED BY <1>1, Invariance, PTL

(* Without faults status, ledger and bank agree on every payout that is in *)
(* nobody's hands (BooksBalance).                                          *)
THEOREM BooksBalanced == Spec => []BooksBalance
<1>1. IInv => BooksBalance
  BY DEF IInv, Balanced, Agrees, BooksBalance
<1> QED BY <1>1, Invariance, PTL

-----------------------------------------------------------------------------

(* A row, once inserted, keeps its amount and its mode; once completed or  *)
(* failed it is decided for good.                                          *)
RowsStand ==
  \A p \in Payouts :
    payouts[p].status # "absent" =>
      /\ payouts'[p].amount = payouts[p].amount /\ payouts'[p].mode = payouts[p].mode
      /\ payouts'[p].status # "absent"
      /\ payouts[p].status \in {"completed", "failed"} => payouts'[p].status = payouts[p].status

(* MarkProcessing, MarkCompleted and MarkFailed set a status. *)
LEMMA StatusOnly ==
  ASSUME TypeOK, NEW p \in Payouts, NEW status \in Statuses, SetStatus(p, status)
  PROVE  \A q \in Payouts : payouts'[q].amount = payouts[q].amount /\ payouts'[q].mode = payouts[q].mode
BY DEF TypeOK, Row, SetStatus

(* What a goroutine decides is not decided yet. *)
LEMMA RowsStep == Base /\ Standing /\ [Next]_vars => RowsStand
<1> SUFFICES ASSUME Base, Standing, [Next]_vars, NEW p \in Payouts, payouts[p].status # "absent"
             PROVE  /\ payouts'[p].amount = payouts[p].amount /\ payouts'[p].mode = payouts[p].mode
                    /\ payouts'[p].status # "absent"
                    /\ payouts[p].status \in {"completed", "failed"} => payouts'[p].status = payouts[p].status
  BY DEF RowsStand
<1> USE DEF Base
<1>1. CASE UNCHANGED payouts
  BY <1>1
<1>2. CASE Elsewhere
  BY <1>1, <1>2 DEF Elsewhere
<1>3. ASSUME NEW w \in Workers, ClaimNext(w) PROVE UNCHANGED payouts
  BY <1>3 DEF ClaimNext
<1>4. ASSUME NEW w \in Workers, Ends(w) PROVE UNCHANGED payouts
  BY <1>4 DEF Ends, ReadFails, Return, CrashWorker
<1>5. ASSUME NEW w \in Workers, Advances(w), ~ UNCHANGED payouts
      PROVE  /\ \E status \in Statuses \ {"absent"} :
                  doing[w].payout \in Payouts /\ SetStatus(doing[w].payout, status)
             /\ payouts[doing[w].payout].status \notin {"completed", "failed"}
  <2>1. doing[w].step \in {"mark", "complete", "fail"}
        /\ \E status \in Statuses \ {"absent"} : SetStatus(doing[w].payout, status)
    BY <1>5 DEF Advances, Read, MarkProcessing, Transfer, MarkCompleted, RecordLedgerDebit, MarkFailed,
                Statuses
  <2>2. doing[w].payout \in Payouts
    BY <2>1, BusyHolds
  <2> QED BY <2>1, <2>2 DEF Standing
<1>6. ASSUME NEW w \in Workers, Advances(w), ~ UNCHANGED payouts
      PROVE  /\ payouts'[p].amount = payouts[p].amount /\ payouts'[p].mode = payouts[p].mode
             /\ payouts'[p].status # "absent"
             /\ payouts[p].status \in {"completed", "failed"} => payouts'[p].status = payouts[p].status
  <2>1. PICK status \in Statuses \ {"absent"} :
          doing[w].payout \in Payouts /\ SetStatus(doing[w].payout, status)
    BY <1>5, <1>6
  <2>2. payouts[doing[w].payout].status \notin {"completed", "failed"}
    BY <1>5, <1>6
  <2> QED BY <2>1, <2>2, StatusOnly, SetStatusSets
<1> QED BY <1>1, <1>2, <1>3, <1>4, <1>6, NextSplits

(* A payout is decided once: ProcessPayout, executed as often as the queue *)
(* likes and by whomever, never turns a completed payout into a failed one *)
(* or back, and no row changes what was asked for.                         *)
THEOREM DecidedOnce == Spec => [][RowsStand]_vars
<1>1. IInv /\ [Next]_vars => RowsStand
  BY RowsStep DEF IInv
<1> QED BY <1>1, Invariance, PTL DEF Spec

-----------------------------------------------------------------------------
(* What the balance leaves out.                                            *)

(* A payout that was asked for, has not failed, and is not in the ledger.  *)
Unbooked(p) == p \notin ledger /\ payouts[p].status \notin {"absent", "failed"}

(* Nothing is approved while an earlier payout of its mode is unbooked.    *)
PatientStep ==
  \A h \in Handlers :
    Approve(h) => \A p \in Payouts : Unbooked(p) => payouts[p].mode # requests[h].mode

Patient == [][PatientStep]_vars

Booked(mode) == {p \in ledger : payouts[p].mode = mode}
AmountsIn(table, S) == MapThenSumSet(LAMBDA p : table[p].amount, S)
MovedIn(table, times, S) == MapThenSumSet(LAMBDA p : table[p].amount * times[p], S)

(* The amounts of some rows are a sum. *)
LEMMA AmountsInAsSum ==
  ASSUME NEW table, NEW S, IsFiniteSet(S)
  PROVE  AmountsIn(table, S) = SumFunctionOnSet([p \in S |-> table[p].amount], S)
<1> DEFINE f == [p \in S |-> table[p].amount]
           P(it) == it = [s \in SUBSET S |-> IF s = {} THEN 0
                           ELSE table[SomeOf(s)].amount + it[s \ {SomeOf(s)}]]
           chosen == CHOOSE it : P(it)
<1>1. AmountsIn(table, S) = chosen[S]
  BY DEF AmountsIn, MapThenSumSet, MapThenFoldSet, SomeOf
<1>2. ASSUME NEW it PROVE P(it) <=> SumRecursion(f, it, S)
  <2>1. ASSUME NEW s \in SUBSET S
        PROVE  SumStep(f, it, s) = IF s = {} THEN 0 ELSE table[SomeOf(s)].amount + it[s \ {SomeOf(s)}]
    <3>1. s # {} => SomeOf(s) \in S
      BY SomeOfIsIn
    <3> QED BY <3>1 DEF SumStep
  <2>2. [s \in SUBSET S |-> SumStep(f, it, s)]
        = [s \in SUBSET S |-> IF s = {} THEN 0 ELSE table[SomeOf(s)].amount + it[s \ {SomeOf(s)}]]
    <3> HIDE DEF f
    <3> QED BY <2>1
  <2> QED BY <2>2 DEF SumRecursion
<1> HIDE DEF f, P
<1>3. P(chosen)
  BY <1>2, SumRecursionExists
<1> HIDE DEF chosen
<1>4. SumFunctionOnSet(f, S) = chosen[S]
  BY <1>2, <1>3, SumIsRecursive
<1> QED BY <1>1, <1>4 DEF f

(* So is the money that left. *)
LEMMA MovedInAsSum ==
  ASSUME NEW table, NEW times, NEW S, IsFiniteSet(S)
  PROVE  MovedIn(table, times, S) = SumFunctionOnSet([p \in S |-> table[p].amount * times[p]], S)
<1> DEFINE f == [p \in S |-> table[p].amount * times[p]]
           P(it) == it = [s \in SUBSET S |-> IF s = {} THEN 0
                           ELSE table[SomeOf(s)].amount * times[SomeOf(s)] + it[s \ {SomeOf(s)}]]
           chosen == CHOOSE it : P(it)
<1>1. MovedIn(table, times, S) = chosen[S]
  BY DEF MovedIn, MapThenSumSet, MapThenFoldSet, SomeOf
<1>2. ASSUME NEW it PROVE P(it) <=> SumRecursion(f, it, S)
  <2>1. ASSUME NEW s \in SUBSET S
        PROVE  SumStep(f, it, s) = IF s = {} THEN 0
                 ELSE table[SomeOf(s)].amount * times[SomeOf(s)] + it[s \ {SomeOf(s)}]
    <3>1. s # {} => SomeOf(s) \in S
      BY SomeOfIsIn
    <3> QED BY <3>1 DEF SumStep
  <2>2. [s \in SUBSET S |-> SumStep(f, it, s)]
        = [s \in SUBSET S |-> IF s = {} THEN 0
             ELSE table[SomeOf(s)].amount * times[SomeOf(s)] + it[s \ {SomeOf(s)}]]
    <3> HIDE DEF f
    <3> QED BY <2>1
  <2> QED BY <2>2 DEF SumRecursion
<1> HIDE DEF f, P
<1>3. P(chosen)
  BY <1>2, SumRecursionExists
<1> HIDE DEF chosen
<1>4. SumFunctionOnSet(f, S) = chosen[S]
  BY <1>2, <1>3, SumIsRecursive
<1> QED BY <1>1, <1>4 DEF f

(* Rows with the same amounts add up to the same. *)
LEMMA AmountsInSame ==
  ASSUME NEW S, IsFiniteSet(S), NEW t, NEW u, \A p \in S : t[p].amount = u[p].amount
  PROVE  AmountsIn(t, S) = AmountsIn(u, S)
<1>1. [p \in S |-> t[p].amount] = [p \in S |-> u[p].amount]
  OBVIOUS
<1> QED BY <1>1, AmountsInAsSum

(* Natural amounts add up to one, and one more row adds its own. *)
LEMMA AmountsInWith ==
  ASSUME NEW S, IsFiniteSet(S), NEW t, \A p \in S : t[p].amount \in Nat
  PROVE  /\ AmountsIn(t, S) \in Nat
         /\ \A p : p \notin S /\ t[p].amount \in Nat =>
              AmountsIn(t, S \cup {p}) = t[p].amount + AmountsIn(t, S)
<1>1. AmountsIn(t, S) \in Nat
  <2> DEFINE f == [q \in S |-> t[q].amount]
  <2>1. AmountsIn(t, S) = SumFunctionOnSet(f, S) /\ \A q \in S : f[q] \in Nat
    BY AmountsInAsSum
  <2> HIDE DEF f
  <2> QED BY <2>1, SumIsNat
<1>2. ASSUME NEW p, p \notin S, t[p].amount \in Nat
      PROVE  AmountsIn(t, S \cup {p}) = t[p].amount + AmountsIn(t, S)
  <2> DEFINE U == S \cup {p}
             f == [q \in U |-> t[q].amount]
             g == [q \in S |-> t[q].amount]
  <2>1. IsFiniteSet(U) /\ U = S \cup {p}
    BY FS_AddElement
  <2>2. (\A q \in S \cup {p} : f[q] \in Int) /\ f[p] = t[p].amount /\ \A q \in S : f[q] = g[q]
    BY <1>2
  <2>3. AmountsIn(t, U) = SumFunctionOnSet(f, U) /\ AmountsIn(t, S) = SumFunctionOnSet(g, S)
    BY <2>1, AmountsInAsSum
  <2> HIDE DEF f, g, U
  <2>4. SumFunctionOnSet(f, S \cup {p}) = f[p] + SumFunctionOnSet(f, S)
    BY <1>2, <2>2, SumWith
  <2>5. SumFunctionOnSet(f, S) = SumFunctionOnSet(g, S)
    BY <2>2, SumOfSame
  <2> QED BY <2>1, <2>2, <2>3, <2>4, <2>5
<1> QED BY <1>1, <1>2

(* Amounts are natural numbers. *)
LEMMA AmountsAreNat ==
  TypeOK => \A p \in Payouts : payouts[p].amount \in Nat /\ payouts[p].mode \in Modes /\ moved[p] \in Nat
<1> SUFFICES ASSUME TypeOK, NEW p \in Payouts
             PROVE  payouts[p].amount \in Nat /\ payouts[p].mode \in Modes /\ moved[p] \in Nat
  OBVIOUS
<1>1. payouts[p] \in Row /\ moved[p] \in Nat
  BY DEF TypeOK
<1>2. payouts[p].amount \in Amounts \cup {0} /\ payouts[p].mode \in Modes
  BY <1>1 DEF Row
<1>3. payouts[p].amount \in Nat
  <2>1. \A a \in Amounts : a \in Nat
    BY PayoutAssumption
  <2>2. payouts[p].amount \in Amounts \/ payouts[p].amount = 0
    BY <1>2
  <2> QED BY <2>1, <2>2
<1> QED BY <1>1, <1>2, <1>3

(* The balance of each mode. *)
balance == [m \in Modes |-> Available(m)]

(* The balance of the next state. *)
LEMMA NextBalance ==
  ASSUME NEW m \in Modes
  PROVE  balance'[m] = Settled[m] - AmountsIn(payouts', Booked(m)')
BY DEF balance, Available, Booked, AmountsIn, MapThenSumSet, MapThenFoldSet

(* The balance is what settled less what is booked. *)
LEMMA BalanceIs ==
  ASSUME TypeOK, IsFiniteSet(Payouts), NEW m \in Modes
  PROVE  /\ balance[m] = Settled[m] - AmountsIn(payouts, Booked(m))
         /\ Settled[m] \in Nat /\ AmountsIn(payouts, Booked(m)) \in Nat /\ balance[m] \in Int
         /\ IsFiniteSet(Booked(m)) /\ Booked(m) \subseteq Payouts
<1>1. IsFiniteSet(Booked(m)) /\ Booked(m) \subseteq Payouts
  BY FS_Subset DEF Booked, TypeOK
<1>2. balance[m] = Settled[m] - AmountsIn(payouts, Booked(m))
  BY DEF balance, Available, Booked, AmountsIn
<1>3. Settled[m] \in Nat
  BY PayoutAssumption
<1>4. AmountsIn(payouts, Booked(m)) \in Nat
  BY <1>1, AmountsAreNat, AmountsInWith
<1> QED BY <1>1, <1>2, <1>3, <1>4

(* Rows that are not in the ledger do not change it. *)
LEMMA BalanceStays ==
  ASSUME TypeOK, IsFiniteSet(Payouts), NEW m \in Modes, Booked(m)' = Booked(m),
         \A p \in Booked(m) : payouts'[p].amount = payouts[p].amount
  PROVE  balance'[m] = balance[m]
<1>1. AmountsIn(payouts', Booked(m)) = AmountsIn(payouts, Booked(m))
  BY BalanceIs, AmountsInSame
<1> QED BY <1>1, BalanceIs, NextBalance

(* An entry lowers it by its amount. *)
LEMMA BalanceFalls ==
  ASSUME TypeOK, IsFiniteSet(Payouts), NEW p \in Payouts, p \notin ledger,
         ledger' = ledger \cup {p}, UNCHANGED payouts
  PROVE  /\ balance'[payouts[p].mode] = balance[payouts[p].mode] - payouts[p].amount
         /\ \A m \in Modes : m # payouts[p].mode => balance'[m] = balance[m]
<1> DEFINE n == payouts[p].mode
<1>0. n \in Modes /\ payouts[p].amount \in Nat
  BY AmountsAreNat
<1>1. Booked(n)' = Booked(n) \cup {p} /\ p \notin Booked(n)
  BY DEF Booked
<1>2. \A q \in Booked(n) : payouts[q].amount \in Nat
  BY <1>0, BalanceIs, AmountsAreNat
<1>3. AmountsIn(payouts, Booked(n) \cup {p}) = payouts[p].amount + AmountsIn(payouts, Booked(n))
  BY <1>0, <1>1, <1>2, BalanceIs, AmountsInWith
<1>4. balance'[n] = Settled[n] - AmountsIn(payouts, Booked(n) \cup {p})
  BY <1>0, <1>1, NextBalance
<1>5. balance'[n] = balance[n] - payouts[p].amount
  BY <1>0, <1>3, <1>4, BalanceIs
<1>6. ASSUME NEW m \in Modes, m # n PROVE balance'[m] = balance[m]
  <2>1. Booked(m)' = Booked(m)
    BY <1>6 DEF Booked
  <2> QED BY <2>1, BalanceStays
<1> QED BY <1>5, <1>6

(* With patience the balance is what may be withdrawn: what is unbooked, or *)
(* approved and not inserted yet, is one payout per mode, and covered.     *)
Prudent ==
  faults = 0 =>
    /\ \A m \in Modes : balance[m] >= 0
    /\ \A p \in Payouts : Unbooked(p) => payouts[p].amount <= balance[payouts[p].mode]
    /\ \A p, q \in Payouts :
         Unbooked(p) /\ Unbooked(q) /\ payouts[p].mode = payouts[q].mode => p = q
    /\ \A h \in Handlers :
         requests[h].step = "create" =>
           /\ requests[h].amount <= balance[requests[h].mode]
           /\ \A p \in Payouts : Unbooked(p) => payouts[p].mode # requests[h].mode

(* Steps that book nothing, ask for nothing and approve nothing. *)
LEMMA PrudentKept ==
  ASSUME IInv, IsFiniteSet(Payouts), Prudent, faults = 0, RowsStand, UNCHANGED ledger,
         \A p \in Payouts : Unbooked(p)' => Unbooked(p),
         \A h \in Handlers : requests'[h].step = "create" => requests'[h] = requests[h]
  PROVE  Prudent'
<1> USE DEF IInv, Base
<1>0. /\ \A p \in Payouts : payouts[p].mode \in Modes
      /\ \A h \in Handlers : requests[h].mode \in Modes
      /\ ledger \subseteq Payouts
  BY AmountsAreNat DEF TypeOK, Request
<1>1. \A p \in Payouts : payouts[p].status # "absent" =>
        payouts'[p].amount = payouts[p].amount /\ payouts'[p].mode = payouts[p].mode
  BY DEF RowsStand
<1>2. \A p \in ledger : payouts[p].status # "absent"
  BY DEF DebitsAreBacked
<1>3. \A m \in Modes : balance'[m] = balance[m]
  <2> SUFFICES ASSUME NEW m \in Modes PROVE balance'[m] = balance[m]
    OBVIOUS
  <2>1. Booked(m)' = Booked(m) /\ \A p \in Booked(m) : payouts'[p].amount = payouts[p].amount
    BY <1>0, <1>1, <1>2 DEF Booked
  <2> QED BY <2>1, BalanceStays
<1>4. \A p \in Payouts : Unbooked(p)' =>
        Unbooked(p) /\ payouts'[p].amount = payouts[p].amount /\ payouts'[p].mode = payouts[p].mode
  BY <1>1 DEF Unbooked
<1>5. \A m \in Modes : balance'[m] >= 0
  BY <1>3 DEF Prudent
<1>6. \A p \in Payouts : Unbooked(p)' => payouts'[p].amount <= balance'[payouts'[p].mode]
  BY <1>0, <1>3, <1>4 DEF Prudent
<1>7. \A p, q \in Payouts :
        Unbooked(p)' /\ Unbooked(q)' /\ payouts'[p].mode = payouts'[q].mode => p = q
  BY <1>4 DEF Prudent
<1>8. \A h \in Handlers :
        requests'[h].step = "create" =>
          /\ requests'[h].amount <= balance'[requests'[h].mode]
          /\ \A p \in Payouts : Unbooked(p)' => payouts'[p].mode # requests'[h].mode
  BY <1>0, <1>3, <1>4 DEF Prudent
<1> QED BY <1>5, <1>6, <1>7, <1>8 DEF Prudent

(* The request that was approved inserts its row. *)
LEMMA PrudentCreates ==
  ASSUME IInv, IsFiniteSet(Payouts), RequestsAreQuick, Prudent, faults = 0, RowsStand,
         NEW h \in Handlers, CreateRow(h), UNCHANGED faults
  PROVE  Prudent'
<1> USE DEF IInv, Base
<1> DEFINE p == requests[h].payout
           n == requests[h].mode
           a == requests[h].amount
<1>0. /\ requests[h].step = "create" /\ p \in Payouts /\ n \in Modes /\ UNCHANGED ledger
      /\ payouts[p].status = "absent" /\ p \notin ledger
  <2>1. requests[h].step = "create" /\ UNCHANGED ledger
    BY DEF CreateRow
  <2>2. p \in Payouts /\ n \in Modes
    BY <2>1, BusyHolds DEF TypeOK, Request
  <2> QED BY <2>1, <2>2 DEF Creation, DebitsAreBacked
<1>1. payouts' = [payouts EXCEPT ![p] = PendingRow(a, n)] /\ Goto(h, "enqueue")
  <2>1. faults' # faults + 1
    BY DEF TypeOK
  <2> QED BY <2>1 DEF CreateRow, Fault
<1>2. \A g \in Handlers : requests'[g].step # "create"
  <2>1. \A g \in Handlers : requests[g].step = "create" => g = h
    BY <1>0 DEF LockHeld
  <2> QED BY <1>1, <2>1, GotoMoves DEF RequestSteps
<1>3. payouts'[p] = PendingRow(a, n) /\ \A q \in Payouts : q # p => payouts'[q] = payouts[q]
  BY <1>0, <1>1 DEF TypeOK
<1>4. PendingRow(a, n).amount = a /\ PendingRow(a, n).mode = n
  BY DEF PendingRow
<1> HIDE DEF p, a, n
<1>5. \A m \in Modes : balance'[m] = balance[m]
  <2> SUFFICES ASSUME NEW m \in Modes PROVE balance'[m] = balance[m]
    OBVIOUS
  <2>1. \A q \in ledger : payouts'[q] = payouts[q]
    BY <1>0, <1>3 DEF TypeOK
  <2>2. Booked(m)' = Booked(m) /\ \A q \in Booked(m) : payouts'[q].amount = payouts[q].amount
    BY <1>0, <2>1 DEF Booked
  <2> QED BY <2>2, BalanceStays
<1>6. /\ a <= balance[n]
      /\ \A q \in Payouts : Unbooked(q) => payouts[q].mode # n
  BY <1>0 DEF Prudent, a, n
<1>7. \A q \in Payouts : q # p => (Unbooked(q)' <=> Unbooked(q))
  BY <1>0, <1>3 DEF Unbooked
<1>8. \A q \in Payouts : payouts[q].mode \in Modes
  BY AmountsAreNat
<1>9. \A q \in Payouts : Unbooked(q)' =>
        \/ q = p /\ payouts'[q].amount = a /\ payouts'[q].mode = n
        \/ q # p /\ Unbooked(q) /\ payouts'[q] = payouts[q] /\ payouts'[q].mode # n
  BY <1>3, <1>4, <1>6, <1>7
<1>10. \A m \in Modes : balance'[m] >= 0
  BY <1>5 DEF Prudent
<1>11. \A q \in Payouts : Unbooked(q)' => payouts'[q].amount <= balance'[payouts'[q].mode]
  BY <1>0, <1>5, <1>6, <1>8, <1>9 DEF Prudent
<1>12. \A q, r \in Payouts :
         Unbooked(q)' /\ Unbooked(r)' /\ payouts'[q].mode = payouts'[r].mode => q = r
  BY <1>9 DEF Prudent
<1> QED BY <1>2, <1>10, <1>11, <1>12 DEF Prudent

(* A payout moves from the unbooked ones to the ledger. *)
LEMMA PrudentBooks ==
  ASSUME IInv, IsFiniteSet(Payouts), Prudent, faults = 0,
         NEW w \in Workers, RecordLedgerDebit(w), UNCHANGED faults
  PROVE  Prudent'
<1> USE DEF IInv, Base
<1> DEFINE p == doing[w].payout
<1>0. /\ doing[w].step = "debit" /\ p \in Payouts /\ UNCHANGED <<payouts, requests>>
      /\ ledger' = ledger \cup {p}
  <2>1. faults' # faults + 1
    BY DEF TypeOK
  <2> QED BY <2>1, RecordLedgerDebitDoes DEF StepsTo
<1>1. payouts[p].status = "completed" /\ p \notin ledger
  BY <1>0 DEF Standing, Balanced
<1> HIDE DEF p
<1>2. Unbooked(p)
  BY <1>1 DEF Unbooked
<1>3. /\ balance'[payouts[p].mode] = balance[payouts[p].mode] - payouts[p].amount
      /\ \A m \in Modes : m # payouts[p].mode => balance'[m] = balance[m]
  BY <1>0, <1>1, BalanceFalls
<1>4. \A q \in Payouts : payouts[q].mode \in Modes /\ payouts[q].amount \in Nat
  BY AmountsAreNat
<1>5. \A q \in Payouts : Unbooked(q)' => Unbooked(q) /\ q # p /\ payouts[q].mode # payouts[p].mode
  BY <1>0, <1>2 DEF Unbooked, Prudent
<1>6. \A h \in Handlers : requests[h].mode \in Modes
  BY DEF TypeOK, Request
<1>7. \A m \in Modes : balance'[m] >= 0
  <2> SUFFICES ASSUME NEW m \in Modes PROVE balance'[m] >= 0
    OBVIOUS
  <2>1. CASE m # payouts[p].mode
    BY <1>3, <2>1 DEF Prudent
  <2>2. CASE m = payouts[p].mode
    <3>1. payouts[p].amount <= balance[m] /\ payouts[p].amount \in Nat /\ balance[m] \in Int
      BY <1>0, <1>2, <1>4, <2>2, BalanceIs DEF Prudent
    <3> QED BY <1>3, <2>2, <3>1
  <2> QED BY <2>1, <2>2
<1>8. \A q \in Payouts : Unbooked(q)' => payouts'[q].amount <= balance'[payouts'[q].mode]
  BY <1>0, <1>3, <1>4, <1>5 DEF Prudent
<1>9. \A q, r \in Payouts :
        Unbooked(q)' /\ Unbooked(r)' /\ payouts'[q].mode = payouts'[r].mode => q = r
  BY <1>0, <1>5 DEF Prudent
<1>10. \A h \in Handlers :
         requests'[h].step = "create" =>
           /\ requests'[h].amount <= balance'[requests'[h].mode]
           /\ \A q \in Payouts : Unbooked(q)' => payouts'[q].mode # requests'[h].mode
  BY <1>0, <1>2, <1>3, <1>5, <1>6 DEF Prudent
<1> QED BY <1>7, <1>8, <1>9, <1>10 DEF Prudent

(* A request is approved: nothing else of its mode is on its way. *)
LEMMA PrudentApproves ==
  ASSUME IInv, IsFiniteSet(Payouts), Prudent, faults = 0,
         NEW h \in Handlers, Approve(h), PatientStep
  PROVE  Prudent'
<1> USE DEF IInv, Base
<1>0. /\ UNCHANGED <<payouts, ledger>> /\ requests[h].amount <= balance[requests[h].mode]
      /\ requests' = [requests EXCEPT ![h].step = "create"]
  <2>1. requests[h].mode \in Modes
    BY DEF TypeOK, Request
  <2> QED BY <2>1 DEF Approve, Goto, balance
<1>1. /\ requests'[h].amount = requests[h].amount /\ requests'[h].mode = requests[h].mode
      /\ \A g \in Handlers : g # h => requests'[g] = requests[g]
  BY <1>0 DEF TypeOK, Request
<1>2. \A p \in Payouts : Unbooked(p) => payouts[p].mode # requests[h].mode
  BY DEF PatientStep
<1>3. balance' = balance
  <2>1. ASSUME NEW m \in Modes PROVE balance'[m] = balance[m]
    <3>1. Booked(m)' = Booked(m)
      BY <1>0 DEF Booked
    <3> QED BY <1>0, <3>1, BalanceStays
  <2> QED BY <2>1 DEF balance
<1>4. \A p \in Payouts : Unbooked(p)' <=> Unbooked(p)
  BY <1>0 DEF Unbooked
<1> QED BY <1>0, <1>1, <1>2, <1>3, <1>4 DEF Prudent

(* Patience keeps it up. *)
LEMMA PrudentNext ==
  ASSUME RequestsAreQuick, IsFiniteSet(Payouts), IInv, Prudent, [Next]_vars, [PatientStep]_vars
  PROVE  Prudent'
<1> USE DEF IInv, Base
<1>0. SUFFICES ASSUME faults = 0, UNCHANGED faults PROVE Prudent'
  <2>1. UNCHANGED faults \/ faults' = faults + 1
    <3>1. \A w \in Workers : Ends(w) => UNCHANGED faults \/ faults' = faults + 1
      BY ExecutionEnds DEF Ends
    <3>2. \A w \in Workers : ClaimNext(w) => UNCHANGED faults
      BY DEF ClaimNext
    <3>3. \A w \in Workers : Advances(w) => UNCHANGED faults \/ faults' = faults + 1
      BY DEF Advances, Read, MarkProcessing, Transfer, MarkCompleted, RecordLedgerDebit, MarkFailed,
             Fault, NoFault
    <3> QED BY <3>1, <3>2, <3>3, NextSplits DEF Elsewhere
  <2>2. faults' = 0 => faults = 0 /\ UNCHANGED faults
    BY <2>1 DEF TypeOK
  <2>3. CASE faults' = 0
    BY <1>0, <2>2, <2>3
  <2>4. CASE faults' # 0
    BY <2>4 DEF Prudent
  <2> QED BY <2>3, <2>4
<1>1. RowsStand
  BY RowsStep
<1>f. ~ Fault
  BY <1>0 DEF Fault, TypeOK
<1>2. ASSUME UNCHANGED <<payouts, ledger>>,
             \A h \in Handlers : requests'[h].step = "create" => requests'[h] = requests[h]
      PROVE  Prudent'
  BY <1>0, <1>1, <1>2, PrudentKept DEF Unbooked
<1>3. CASE UNCHANGED vars
  BY <1>2, <1>3 DEF vars
<1>4. ASSUME NEW h \in Handlers, Begin(h) \/ Refuse(h) \/ EnqueueJob(h) \/ Release(h)
      PROVE  Prudent'
  <2>1. UNCHANGED <<payouts, ledger>>
    BY <1>4 DEF Begin, Refuse, EnqueueJob, Release
  <2>2. ASSUME NEW g \in Handlers, requests'[g].step = "create"
        PROVE  requests'[g] = requests[g]
    <3>1. CASE Begin(h)
      BY <2>2, <3>1, BeginDoes DEF OtherRequests
    <3>2. CASE Refuse(h)
      BY <2>2, <3>2, GotoMoves DEF Refuse, RequestSteps
    <3>3. CASE EnqueueJob(h)
      BY <2>2, <3>3, EnqueueJobDoes DEF OtherRequests
    <3>4. CASE Release(h)
      BY <2>2, <3>4, RequestEnds DEF OtherRequests
    <3> QED BY <1>4, <3>1, <3>2, <3>3, <3>4
  <2> QED BY <1>2, <2>1, <2>2
<1>5. ASSUME NEW h \in Handlers, Approve(h) PROVE Prudent'
  <2>1. PatientStep \/ UNCHANGED vars
    OBVIOUS
  <2> QED BY <1>0, <1>3, <1>5, <2>1, PrudentApproves
<1>6. ASSUME NEW h \in Handlers, CreateRow(h) PROVE Prudent'
  BY <1>0, <1>1, <1>6, PrudentCreates
<1>7. ASSUME NEW h \in Handlers, CrashRequest(h) PROVE Prudent'
  BY <1>7, <1>f DEF CrashRequest
<1>8. CASE LockExpires \/ \E p \in Payouts : RecoverStaleLock(p)
  <2>1. UNCHANGED <<payouts, ledger, requests>>
    BY <1>8 DEF LockExpires, RecoverStaleLock, apiVars
  <2> QED BY <1>2, <2>1
<1>9. ASSUME NEW w \in Workers, ClaimNext(w) \/ Ends(w) PROVE Prudent'
  <2>1. UNCHANGED <<payouts, ledger, requests>>
    BY <1>9, ExecutionEnds DEF ClaimNext, Ends, apiVars
  <2> QED BY <1>2, <2>1
<1>10. ASSUME NEW w \in Workers, RecordLedgerDebit(w) PROVE Prudent'
  BY <1>0, <1>10, PrudentBooks
<1>11. ASSUME NEW w \in Workers, Advances(w), ~ RecordLedgerDebit(w) PROVE Prudent'
  <2>1. UNCHANGED <<ledger, requests>>
    BY <1>11 DEF Advances, Read, MarkProcessing, Transfer, MarkCompleted, MarkFailed, apiVars
  <2>2. doing[w].payout \in Payouts /\ doing[w].step # "idle"
    BY <1>11, AdvancesDoes DEF StepsTo
  <2>3. payouts[doing[w].payout].status # "absent"
    BY <2>2 DEF Creation
  <2>4. ASSUME NEW p \in Payouts, Unbooked(p)' PROVE Unbooked(p)
    <3>1. CASE p # doing[w].payout
      BY <1>11, <2>1, <2>4, <3>1, AdvancesDoes DEF Unbooked
    <3>2. CASE p = doing[w].payout
      <4>1. p \notin ledger /\ payouts[p].status # "absent"
        BY <2>1, <2>3, <2>4, <3>2 DEF Unbooked
      <4>2. payouts[p].status = "failed" => payouts'[p].status = "failed"
        BY <1>1 DEF RowsStand
      <4> QED BY <2>4, <4>1, <4>2 DEF Unbooked
    <3> QED BY <3>1, <3>2
  <2> QED BY <1>0, <1>1, <2>1, <2>4, PrudentKept
<1> QED
  BY <1>3, <1>4, <1>5, <1>6, <1>7, <1>8, <1>9, <1>10, <1>11
  DEF Next, Serve, Work, Ends, Advances

(* Nothing is booked or approved at the start. *)
LEMMA PrudentInit == ASSUME IsFiniteSet(Payouts), Init PROVE Prudent
<1>1. TypeOK
  BY BaseInit DEF Base
<1>2. ledger = {} /\ (\A p \in Payouts : payouts[p].status = "absent")
      /\ \A h \in Handlers : requests[h].step = "idle"
  BY Blanks DEF Init
<1>3. ASSUME NEW m \in Modes PROVE balance[m] >= 0
  <2>1. Booked(m) = {}
    BY <1>2 DEF Booked
  <2>2. AmountsIn(payouts, {}) = SumFunctionOnSet([p \in {} |-> payouts[p].amount], {})
    BY AmountsInAsSum, FS_EmptySet
  <2>3. AmountsIn(payouts, {}) = 0
    BY <2>2, SumOfNothing
  <2> QED BY <1>1, <2>1, <2>3, BalanceIs
<1> QED BY <1>2, <1>3 DEF Prudent, Unbooked

(* Then the money that left is what is booked and at most one payout the   *)
(* balance covers.                                                         *)
LEMMA PrudentIsSettled ==
  ASSUME IsFiniteSet(Payouts), IInv, Prudent, faults = 0
  PROVE  WithdrawalsAreSettled
<1> USE DEF IInv, Base
<1> DEFINE L == {p \in Payouts : payouts[p].mode = "live"}
           B == Booked("live")
           f == [p \in L |-> payouts[p].amount * moved[p]]
<1>1. /\ IsFiniteSet(L) /\ IsFiniteSet(B) /\ B \subseteq L /\ "live" \in Modes
      /\ \A p \in L : p \in Payouts /\ payouts[p].mode = "live"
      /\ \A p \in L \ B : p \notin ledger
  <2>1. "live" \in Modes
    BY DEF Modes
  <2>2. IsFiniteSet(L)
    BY FS_Subset
  <2>3. IsFiniteSet(B) /\ B \subseteq Payouts
    BY <2>1, BalanceIs
  <2> QED BY <2>1, <2>2, <2>3 DEF Booked
<1>2. \A p \in L : /\ p \in B => moved[p] = 1
                   /\ p \notin B => moved[p] = 0 \/ (moved[p] = 1 /\ Unbooked(p))
  <2> SUFFICES ASSUME NEW p \in L
               PROVE  /\ p \in B => moved[p] = 1
                      /\ p \notin B => moved[p] = 0 \/ (moved[p] = 1 /\ Unbooked(p))
    OBVIOUS
  <2>1. CASE Agrees(p)
    BY <1>1, <2>1 DEF Agrees, Booked
  <2>2. CASE \E w \in Workers : Holds(w, p) /\ doing[w].step \in {"complete", "debit"}
    <3>1. PICK w \in Workers : doing[w].payout = p /\ doing[w].step \in {"complete", "debit"}
      BY <2>2 DEF Holds
    <3>2. p \notin ledger /\ moved[p] = 1
      BY <3>1 DEF Balanced
    <3>3. payouts[p].status \in {"pending", "processing", "completed"}
      BY <3>1 DEF Standing
    <3> QED BY <3>2, <3>3 DEF Unbooked, Booked
  <2> QED BY <2>1, <2>2 DEF Balanced
<1>3. \A p \in Payouts : payouts[p].amount \in Nat
  BY AmountsAreNat
<1>4. /\ \A p \in L : f[p] \in Int
      /\ \A p \in L : p \in B => f[p] = payouts[p].amount
      /\ \A p \in L : Unbooked(p) \/ p \in B \/ f[p] = 0
      /\ \A p \in L : f[p] = 0 \/ f[p] = payouts[p].amount
  BY <1>2, <1>3
<1>5. MovedIn(payouts, moved, L) = SumFunctionOnSet(f, L)
  <2> HIDE DEF L
  <2> QED BY <1>1, MovedInAsSum
<1>6. /\ AmountsIn(payouts, B) \in Nat /\ Settled["live"] \in Nat /\ balance["live"] \in Int
      /\ balance["live"] = Settled["live"] - AmountsIn(payouts, B)
      /\ balance["live"] >= 0
  BY <1>1, BalanceIs DEF Prudent
<1>7. WithdrawalsAreSettled <=> MovedIn(payouts, moved, L) <= Settled["live"]
  BY DEF WithdrawalsAreSettled, MovedIn
<1> HIDE DEF L, B, f
<1>8. ASSUME NEW T \in SUBSET L, \A p \in T : f[p] = payouts[p].amount, \A p \in L \ T : f[p] = 0
      PROVE  SumFunctionOnSet(f, L) = AmountsIn(payouts, T)
  <2> DEFINE g == [p \in T |-> payouts[p].amount]
  <2>1. IsFiniteSet(T)
    BY <1>1, FS_Subset
  <2>2. SumFunctionOnSet(f, L) = SumFunctionOnSet(f, T)
    BY <1>1, <1>4, <1>8, SumOfSupport
  <2>3. AmountsIn(payouts, T) = SumFunctionOnSet(g, T)
    BY <2>1, AmountsInAsSum
  <2>4. \A p \in T : f[p] = g[p]
    BY <1>8
  <2> HIDE DEF g
  <2>5. SumFunctionOnSet(f, T) = SumFunctionOnSet(g, T)
    BY <2>1, <2>4, SumOfSame
  <2> QED BY <2>2, <2>3, <2>5
<1>9. CASE \A p \in L \ B : f[p] = 0
  <2>1. SumFunctionOnSet(f, L) = AmountsIn(payouts, B)
    BY <1>1, <1>4, <1>8, <1>9
  <2> QED BY <1>5, <1>6, <1>7, <2>1
<1>10. CASE \E p \in L \ B : f[p] # 0
  <2>1. PICK p \in L \ B : f[p] # 0
    BY <1>10
  <2>2. Unbooked(p) /\ p \in Payouts /\ payouts[p].mode = "live" /\ f[p] = payouts[p].amount
    BY <1>1, <1>4, <2>1
  <2>3. \A q \in L : Unbooked(q) => q = p
    BY <1>1, <2>2 DEF Prudent
  <2>4. SumFunctionOnSet(f, L) = AmountsIn(payouts, B \cup {p})
    <3>1. B \cup {p} \in SUBSET L
      BY <1>1, <2>1
    <3>2. \A q \in B \cup {p} : f[q] = payouts[q].amount
      BY <1>1, <1>4, <2>2
    <3>3. \A q \in L \ (B \cup {p}) : f[q] = 0
      BY <1>4, <2>3
    <3> QED BY <1>8, <3>1, <3>2, <3>3
  <2>5. AmountsIn(payouts, B \cup {p}) = payouts[p].amount + AmountsIn(payouts, B)
    <3>1. \A q \in B : payouts[q].amount \in Nat
      BY <1>1, <1>3
    <3> QED BY <1>1, <1>3, <2>1, <2>2, <3>1, AmountsInWith
  <2>6. payouts[p].amount <= balance["live"] /\ payouts[p].amount \in Nat
    BY <1>3, <2>2 DEF Prudent
  <2> QED BY <1>5, <1>6, <1>7, <2>4, <2>5, <2>6
<1> QED BY <1>9, <1>10

(* "A tenant can never withdraw money Nomba hasn't actually settled": what *)
(* WithdrawalsAreSettled says holds of Create after all when it approves   *)
(* nothing while an earlier payout of the mode is not in the ledger yet    *)
(* (Patient), requests are quick and nothing has gone wrong.  The payouts  *)
(* in flight are therefore the whole of what the balance forgets.          *)
THEOREM PatienceSettles ==
  ASSUME RequestsAreQuick, IsFiniteSet(Payouts)
  PROVE  Spec /\ Patient => [](faults = 0 => WithdrawalsAreSettled)
<1>1. Init => Prudent
  BY PrudentInit
<1>2. IInv /\ Prudent /\ [Next]_vars /\ [PatientStep]_vars => Prudent'
  BY PrudentNext
<1>3. IInv /\ Prudent => (faults = 0 => WithdrawalsAreSettled)
  BY PrudentIsSettled
<1> QED BY <1>1, <1>2, <1>3, Invariance, PTL DEF Spec, Patient

-----------------------------------------------------------------------------
(* The jobs of payouts and the promise of the queue.                       *)

(* What the promise of the queue is about, in the records of this module.  *)
executing == [w \in Workers |-> doing[w].payout]
settled == {p \in Payouts : Finished(jobs[p])}
tries == [p \in Payouts |-> jobs[p].attempts]
limit == [p \in Payouts |-> IF jobs[p].status = "absent" THEN 0 ELSE jobs[p].max]

Queue == INSTANCE ExclusiveJobs WITH Jobs <- Payouts, Limits <- {MaxAttempts}

(* Steps that touch no job and hand none over. *)
LEMMA QueueStutters ==
  ASSUME UNCHANGED jobs, \A w \in Workers : doing'[w].payout = doing[w].payout
  PROVE  UNCHANGED Queue!vars
BY DEF Queue!vars, executing, settled, tries, limit

(* A claim counts one more execution. *)
LEMMA ClaimCounts ==
  ASSUME NEW r \in JobRow
  PROVE  Claimed(r).attempts = r.attempts + 1 /\ Claimed(r).max = r.max
BY DEF Claimed, JobRow

(* A new status of one job: settled if it says so, still the same tries. *)
LEMMA StatusOfJob ==
  ASSUME TypeOK, NEW p \in Payouts, NEW s \in JobStatuses,
         jobs' = [jobs EXCEPT ![p] = [@ EXCEPT !.status = s]]
  PROVE  /\ tries' = tries
         /\ settled' = IF s \in {"done", "failed"} THEN settled \cup {p} ELSE settled \ {p}
         /\ limit' = [limit EXCEPT ![p] = MaxAttempts]
<1>1. jobs[p] \in JobRow
  BY DEF TypeOK
<1>2. jobs'[p].status = s /\ jobs'[p].attempts = jobs[p].attempts /\ jobs'[p].max = MaxAttempts
  <2>1. jobs'[p] = [jobs[p] EXCEPT !.status = s] /\ jobs[p].max = MaxAttempts
    BY <1>1 DEF TypeOK, JobRow
  <2> QED BY <1>1, <2>1 DEF JobRow
<1>3. \A q \in Payouts : q # p => jobs'[q] = jobs[q]
  BY DEF TypeOK
<1>4. tries' = tries
  BY <1>2, <1>3 DEF tries
<1>5. settled' = IF s \in {"done", "failed"} THEN settled \cup {p} ELSE settled \ {p}
  BY <1>2, <1>3 DEF settled, Finished
<1>6. limit' = [limit EXCEPT ![p] = MaxAttempts]
  <2>1. jobs'[p].status # "absent"
    BY <1>2 DEF JobStatuses
  <2>2. \A q \in Payouts : limit'[q] = IF q = p THEN MaxAttempts ELSE limit[q]
    BY <1>2, <1>3, <2>1 DEF limit
  <2> QED BY <2>2 DEF limit
<1> QED BY <1>4, <1>5, <1>6

(* Every step of Payouts is one the promise allows, or none of its own. *)
LEMMA QueueStep ==
  ASSUME Base, [Next]_vars
  PROVE  [Queue!Next]_(Queue!vars)
<1> USE DEF Base
<1>0. \A w \in Workers : doing[w].step # "idle" =>
        doing[w].payout \in Payouts /\ jobs[doing[w].payout].status = "processing"
  BY BusyHolds DEF Creation
<1>l. \A p \in Payouts : jobs[p].status # "absent" => limit[p] = MaxAttempts
  BY DEF limit, TypeOK, JobRow
<1>1. ASSUME NEW h \in Handlers, EnqueueJob(h)
      PROVE  UNCHANGED Queue!vars \/ \E p \in Payouts : Queue!Submit(p)
  <2> DEFINE p == requests[h].payout
  <2>1. p \in Payouts /\ jobs[p].status = "absent" /\ UNCHANGED doing
    BY <1>1, BusyHolds DEF EnqueueJob, Creation
  <2>2. CASE UNCHANGED jobs
    BY <2>1, <2>2, QueueStutters
  <2>3. CASE jobs' = [jobs EXCEPT ![p] = [@ EXCEPT !.status = "pending"]]
    <3>1. /\ tries' = tries /\ settled' = settled \ {p}
          /\ limit' = [limit EXCEPT ![p] = MaxAttempts]
      BY <2>1, <2>3, StatusOfJob DEF JobStatuses
    <3>2. settled \ {p} = settled /\ limit[p] = 0 /\ executing' = executing
      BY <2>1 DEF settled, Finished, limit, executing
    <3> QED BY <2>1, <3>1, <3>2 DEF Queue!Submit
  <2>4. UNCHANGED jobs \/ jobs' = [jobs EXCEPT ![p] = [@ EXCEPT !.status = "pending"]]
    BY <1>1 DEF EnqueueJob
  <2> QED BY <2>2, <2>3, <2>4
<1>2. ASSUME NEW w \in Workers, ClaimNext(w)
      PROVE  \E p \in Payouts : Queue!Begin(w, p)
  <2>1. PICK p \in Payouts :
          /\ Claimable(jobs[p])
          /\ jobs' = [jobs EXCEPT ![p] = Claimed(@)]
          /\ doing' = [doing EXCEPT ![w] = [step |-> "read", payout |-> p]]
    BY <1>2 DEF ClaimNext
  <2>2. /\ jobs[p].status = "pending" /\ jobs[p].attempts < jobs[p].max
        /\ doing[w].payout = Idle
    BY <1>2, <2>1 DEF Claimable, ClaimNext, Ownership
  <2>3. \A v \in Workers : executing[v] # p
    BY <1>0, <2>2, PayoutAssumption DEF Ownership, executing
  <2>4. p \notin settled /\ tries[p] < limit[p] /\ executing[w] = Idle
    BY <2>2 DEF settled, Finished, tries, limit, executing
  <2>5. executing' = [executing EXCEPT ![w] = p]
    BY <2>1 DEF executing, TypeOK
  <2>6. /\ jobs'[p].attempts = jobs[p].attempts + 1 /\ jobs'[p].max = jobs[p].max
        /\ jobs'[p].status = "processing"
        /\ \A q \in Payouts : q # p => jobs'[q] = jobs[q]
    BY <2>1, JobRows, ClaimCounts DEF TypeOK
  <2>7. tries' = [tries EXCEPT ![p] = @ + 1]
    BY <2>6 DEF tries
  <2>8. settled' = settled /\ limit' = limit
    BY <2>2, <2>6 DEF settled, Finished, limit
  <2> QED BY <2>3, <2>4, <2>5, <2>7, <2>8 DEF Queue!Begin
<1>3. ASSUME NEW w \in Workers, Ends(w)
      PROVE  Queue!Settle(w) \/ Queue!Vanish({w})
  <2> DEFINE p == doing[w].payout
  <2>1. p \in Payouts /\ p # Idle /\ jobs[p].status # "absent"
    BY <1>0, <1>3, ExecutionEnds, PayoutAssumption DEF Ends
  <2>2. doing' = [doing EXCEPT ![w] = NoExecution]
    BY <1>3 DEF Ends, ReadFails, Return, CrashWorker
  <2>3. /\ executing' = [executing EXCEPT ![w] = Idle] /\ executing[w] = p
        /\ executing' = [v \in Workers |-> IF v \in {w} THEN Idle ELSE executing[v]]
    BY <2>2, Blanks DEF executing, TypeOK
  <2>4. CASE UNCHANGED jobs
    BY <2>3, <2>4 DEF Queue!Vanish, settled, tries, limit
  <2>5. CASE \E s \in {"done", "failed"} : jobs' = [jobs EXCEPT ![p] = [@ EXCEPT !.status = s]]
    <3>1. PICK s \in {"done", "failed"} : jobs' = [jobs EXCEPT ![p] = [@ EXCEPT !.status = s]]
      BY <2>5
    <3>2. tries' = tries /\ settled' = settled \cup {p} /\ limit' = [limit EXCEPT ![p] = MaxAttempts]
      BY <2>1, <3>1, StatusOfJob DEF JobStatuses
    <3>3. limit' = limit
      BY <1>l, <2>1, <3>2 DEF limit
    <3> QED BY <2>1, <2>3, <3>2, <3>3 DEF Queue!Settle
  <2>6. \/ UNCHANGED jobs
        \/ jobs' = [jobs EXCEPT ![p] = MarkedDone(@)]
        \/ jobs' = [jobs EXCEPT ![p] = MarkedFailed(@)]
    BY <1>3 DEF Ends, ReadFails, Return, CrashWorker
  <2> QED BY <2>4, <2>5, <2>6 DEF MarkedDone, MarkedFailed
<1>4. ASSUME NEW w \in Workers, Advances(w) PROVE UNCHANGED Queue!vars
  <2>1. PICK step \in WorkerSteps : StepsTo(w, step)
    BY <1>4, AdvancesDoes
  <2> QED BY <2>1, QueueStutters DEF StepsTo, OtherExecutions
<1>5. ASSUME NEW p \in Payouts, RecoverStaleLock(p) PROVE UNCHANGED Queue!vars
  <2>1. /\ jobs[p].status = "processing" /\ UNCHANGED doing
        /\ jobs' = [jobs EXCEPT ![p] = [@ EXCEPT !.status = "pending"]]
    BY <1>5 DEF RecoverStaleLock, Recoverable, Recovered
  <2>2. tries' = tries /\ settled' = settled \ {p} /\ limit' = [limit EXCEPT ![p] = MaxAttempts]
    BY <2>1, StatusOfJob DEF JobStatuses
  <2>3. settled \ {p} = settled /\ executing' = executing /\ limit' = limit
    BY <1>l, <2>1, <2>2 DEF settled, Finished, executing, limit
  <2> QED BY <2>2, <2>3 DEF Queue!vars
<1>6. ASSUME NEW h \in Handlers,
             Begin(h) \/ Approve(h) \/ Refuse(h) \/ CreateRow(h) \/ Release(h) \/ CrashRequest(h)
      PROVE  UNCHANGED Queue!vars
  <2>1. UNCHANGED <<jobs, doing>>
    BY <1>6 DEF Begin, Approve, Refuse, CreateRow, Release, CrashRequest, workerVars
  <2> QED BY <2>1, QueueStutters
<1>7. CASE LockExpires \/ UNCHANGED vars
  <2>1. UNCHANGED <<jobs, doing>>
    BY <1>7 DEF LockExpires, vars, workerVars
  <2> QED BY <2>1, QueueStutters
<1>8. \A w \in Workers : {w} \in SUBSET Workers
  OBVIOUS
<1> QED
  BY <1>1, <1>2, <1>3, <1>4, <1>5, <1>6, <1>7, <1>8
  DEF Next, Serve, Work, Ends, Advances, Queue!Next

(* Seen from ProcessPayout the job table of a payout behaves as            *)
(* ExclusiveJobs says, which JobQueue is proved to do for the whole table: *)
(* one execution at a time, at most five, none after an outcome was        *)
(* written, whoever crashed and whatever the sweep gave back.              *)
THEOREM JobsAsPromised == Spec => Queue!Spec
<1>1. Init => Queue!Init
  <2> SUFFICES ASSUME Init PROVE Queue!Init
    OBVIOUS
  <2>1. /\ \A w \in Workers : doing[w].payout = Idle
        /\ \A p \in Payouts : jobs[p].status = "absent" /\ jobs[p].attempts = 0
    BY Blanks DEF Init
  <2> QED BY <2>1 DEF Queue!Init, executing, settled, tries, limit, Finished
<1>2. Base /\ [Next]_vars => [Queue!Next]_(Queue!vars)
  BY QueueStep
<1>3. Spec => []Base
  BY Invariance, PTL DEF IInv
<1> QED BY <1>1, <1>2, <1>3, PTL DEF Spec, Queue!Spec

=============================================================================
