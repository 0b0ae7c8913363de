--------------------------- MODULE Billing_proofs ---------------------------
(***************************************************************************)
(* What Billing guarantees about money for any number of goroutines,       *)
(* requests, jobs and crashes, and for any dunning schedule.               *)
(*                                                                         *)
(* The argument has two halves.  TypeOK is inductive as it stands.  Books  *)
(* is the inductive strengthening of the money invariants: it follows an   *)
(* order reference from the charge to the ledger and says of each step of  *)
(* a process on that way what must be true already.  All actions but the   *)
(* three that write invoices and ledger entries are OffTheBooks.           *)
(*                                                                         *)
(* The last part is about the jobs: every step of Billing is a step of the *)
(* queue ExclusiveJobs promises, or none of its business.  The invariant   *)
(* there is Owned, that a goroutine at work has a job that runs.           *)
(***************************************************************************)
EXTENDS Billing, SequenceTheorems, TLAPS

-----------------------------------------------------------------------------
(* Operators on rows, jobs and processes.                                  *)

(* Replacing one element, whatever the index, yields such a sequence of    *)
(* the same length.                                                        *)
LEMMA Replacing ==
  ASSUME NEW S, NEW seq \in Seq(S), NEW i, NEW e, i \in 1..Len(seq) => e \in S
  PROVE  /\ [seq EXCEPT ![i] = e] \in Seq(S)
         /\ Len([seq EXCEPT ![i] = e]) = Len(seq)
<1>1. seq \in [1..Len(seq) -> S] /\ Len(seq) \in Nat
  BY LenProperties
<1>2. CASE i \in 1..Len(seq)
  BY <1>2, ExceptSeq
<1>3. CASE i \notin 1..Len(seq)
  <2>1. [seq EXCEPT ![i] = e] = seq
    BY <1>1, <1>3
  <2> QED BY <2>1
<1> QED BY <1>2, <1>3

LEMMA JobRows ==
  /\ \A type \in JobTypes : NewJob(type) \in JobRow
  /\ \A job \in JobRow : /\ Claimed(job) \in JobRow /\ Recovered(job) \in JobRow
                         /\ MarkedDone(job) \in JobRow /\ MarkedFailed(job) \in JobRow
<1>1. ASSUME NEW type \in JobTypes PROVE NewJob(type) \in JobRow
  BY DEF NewJob, JobRow, JobStatuses
<1>2. ASSUME NEW job \in JobRow
      PROVE  /\ Claimed(job) \in JobRow /\ Recovered(job) \in JobRow
             /\ MarkedDone(job) \in JobRow /\ MarkedFailed(job) \in JobRow
  <2>1. Claimed(job) \in JobRow
    <3>1. \A n \in Nat : [job EXCEPT !.status = "processing", !.attempts = n] \in JobRow
      BY DEF JobRow, JobStatuses
    <3>2. job.attempts + 1 \in Nat
      BY DEF JobRow
    <3> QED BY <3>1, <3>2 DEF Claimed
  <2> QED BY <2>1 DEF JobRow, JobStatuses, Recovered, MarkedDone, MarkedFailed
<1> QED BY <1>1, <1>2

LEMMA Rows ==
  /\ NoRow \in Row
  /\ \A status \in Statuses, card \in BOOLEAN : NewRow(status, card) \in Row
  /\ \A row \in Row :
       /\ \A status \in Statuses : WithStatus(row, status) \in Row
       /\ \A status \in Statuses, n \in Nat : WithDunning(row, status, n) \in Row
       /\ Renewed(row) \in Row /\ Cancelling(row) \in Row
       /\ AttemptTaken(row) \in Row /\ WithCard(row) \in Row
       /\ Cancelled(row) \in Row /\ Paused(row) \in Row /\ Resumed(row) \in Row
<1>1. \A status \in Statuses, card \in BOOLEAN : NewRow(status, card) \in Row
  BY DEF NewRow, Row
<1>2. NoRow \in Row
  BY <1>1 DEF NoRow, Statuses
<1>3. ASSUME NEW row \in Row
      PROVE  /\ \A status \in Statuses : WithStatus(row, status) \in Row
             /\ \A status \in Statuses, n \in Nat : WithDunning(row, status, n) \in Row
  BY DEF Row, WithStatus, WithDunning
<1>4. ASSUME NEW row \in Row
      PROVE  /\ Cancelled(row) \in Row /\ Paused(row) \in Row /\ Resumed(row) \in Row
  BY <1>3 DEF Cancelled, Paused, Resumed, Statuses
<1>5. ASSUME NEW row \in Row
      PROVE  Cancelling(row) \in Row /\ WithCard(row) \in Row
  BY DEF Row, Cancelling, WithCard
<1>6. ASSUME NEW row \in Row PROVE AttemptTaken(row) \in Row
  <2>1. row.attempt + 1 \in Nat
    BY DEF Row
  <2> QED BY <2>1 DEF Row, AttemptTaken
<1>7. ASSUME NEW row \in Row PROVE Renewed(row) \in Row
  BY DEF Row, Renewed, Statuses
<1> QED BY <1>1, <1>2, <1>3, <1>4, <1>5, <1>6, <1>7

(* Decide never answers with a negative attempt. *)
LEMMA Attempts ==
  ASSUME NEW status, NEW n \in Nat, NEW retriable \in BOOLEAN
  PROVE  Decide(status, n, retriable).attempt \in Nat
BY DEF Decide, GiveUp, Grace, Retry

LEMMA References ==
  /\ NoRef \in Refs /\ CheckoutRef \in Refs /\ Verification \in Refs
  /\ \A rail \in Rails, n \in Nat : Ref(rail, n) \in Refs /\ Ref(rail, n).rail = rail
BY DEF NoRef, CheckoutRef, Verification, Ref, Refs, Rails

LEMMA Processes ==
  ASSUME NEW at \in ProcAt, NEW job \in Nat
  PROVE  /\ Resting(at, job) \in Proc
         /\ Resting(at, job).at = at /\ Resting(at, job).job = job
         /\ \A op \in JobTypes \cup RequestOps, row \in Row, ref \in Refs :
              /\ Process(at, op, job, row, ref) \in Proc
              /\ Process(at, op, job, row, ref).at = at
              /\ Process(at, op, job, row, ref).job = job
              /\ Process(at, op, job, row, ref).ref = ref
BY Rows, References DEF Resting, Process, Proc

(* Where a process holds a reference whose money was taken. *)
Holding == {"store_card", "renew", "invoice", "ledger", "mark_paid"}

(* What Put does to the processes. *)
LEMMA Putting ==
  ASSUME procs \in [Procs -> Proc], NEW p \in Procs, NEW process \in Proc, Put(p, process)
  PROVE  /\ procs' \in [Procs -> Proc]
         /\ procs'[p].at = process.at
         /\ procs'[p].job = process.job
         /\ process.at \in Holding => procs'[p].ref = process.ref
         /\ \A q \in Procs : q # p => procs'[q] = procs[q]
<1> DEFINE k == Kept(process)
<1>1. /\ k \in Proc /\ k.at = process.at /\ k.job = process.job
      /\ process.at \in Holding => k.ref = process.ref
  <2>1. CASE process.at \in {"succeed", "fail", "over"}
    BY <2>1, Processes DEF Kept, Holding, Proc
  <2>2. CASE process.at \in Remembering
    BY <2>2 DEF Kept, Remembering
  <2>3. CASE process.at \notin Remembering \cup {"succeed", "fail", "over"}
    <3>1. k = [process EXCEPT !.seen = NoRow]
      BY <2>3 DEF Kept
    <3> HIDE DEF k
    <3> QED BY <3>1, Rows DEF Proc
  <2> QED BY <2>1, <2>2, <2>3
<1>2. procs' = [procs EXCEPT ![p] = k]
  BY DEF Put
<1> HIDE DEF k
<1> QED BY <1>1, <1>2

(* What GoTo does to them. *)
LEMMA Going ==
  ASSUME procs \in [Procs -> Proc], NEW p \in Procs, NEW at \in ProcAt, GoTo(p, at)
  PROVE  /\ procs' \in [Procs -> Proc]
         /\ procs'[p].at = at
         /\ \A q \in Procs : procs'[q].job = procs[q].job
         /\ at \in Holding => procs'[p].ref = procs[p].ref
         /\ \A q \in Procs : q # p => procs'[q] = procs[q]
<1> DEFINE process == [procs[p] EXCEPT !.at = at]
<1>1. /\ process \in Proc /\ process.at = at /\ process.job = procs[p].job
      /\ process.ref = procs[p].ref
  BY DEF Proc
<1>2. Put(p, process)
  BY DEF GoTo
<1> HIDE DEF process
<1>3. /\ procs' \in [Procs -> Proc] /\ procs'[p].at = at /\ procs'[p].job = procs[p].job
      /\ at \in Holding => procs'[p].ref = procs[p].ref
      /\ \A q \in Procs : q # p => procs'[q] = procs[q]
  BY <1>1, <1>2, Putting
<1> QED BY <1>3

-----------------------------------------------------------------------------
(* Type correctness.                                                       *)

LEMMA WriteTypes ==
  ASSUME TypeOK, NEW p \in Procs, NEW at, NEW row \in Row, NEW next \in ProcAt,
         Write(p, at, row, next)
  PROVE  TypeOK'
<1>1. procs' \in [Procs -> Proc] /\ \A q \in Procs : procs'[q].job = procs[q].job
  BY Going DEF Write, TypeOK
<1> QED BY <1>1 DEF Write, TypeOK, money

LEMMA StartTypes ==
  ASSUME TypeOK, NEW w \in Workers, NEW type \in JobTypes, NEW at \in ProcAt,
         Start(w, type, at)
  PROVE  TypeOK'
<1>1. PICK i \in DOMAIN jobs : /\ jobs' = [jobs EXCEPT ![i] = Claimed(@)]
                               /\ Put(w, Process(at, type, i, sub, NoRef))
  BY DEF Start
<1>2. jobs \in Seq(JobRow) /\ DOMAIN jobs = 1..Len(jobs) /\ Len(jobs) \in Nat
  BY LenProperties DEF TypeOK
<1>3. Claimed(jobs[i]) \in JobRow
  BY <1>2, JobRows, ElementOfSeq
<1>4. jobs' \in Seq(JobRow) /\ Len(jobs') = Len(jobs)
  BY <1>1, <1>2, <1>3, Replacing
<1>5. /\ Process(at, type, i, sub, NoRef) \in Proc
      /\ Process(at, type, i, sub, NoRef).job = i
  BY <1>2, Processes, References DEF TypeOK
<1>6. /\ procs' \in [Procs -> Proc] /\ procs'[w].job = i
      /\ \A q \in Procs : q # w => procs'[q] = procs[q]
  BY <1>1, <1>5, Putting DEF Procs, TypeOK
<1> QED BY <1>2, <1>4, <1>6 DEF Start, TypeOK, money

LEMMA RequestTypes ==
  ASSUME TypeOK, NEW c \in Requests, NEW op \in RequestOps, NEW at \in ProcAt,
         Request(c, op, at)
  PROVE  TypeOK'
<1>0. sub \in Row /\ NoRef \in Refs /\ 0 \in Nat
  BY References DEF TypeOK
<1>1. Process(at, op, 0, sub, NoRef) \in Proc /\ Process(at, op, 0, sub, NoRef).job = 0
  BY <1>0, Processes
<1>2. /\ procs' \in [Procs -> Proc] /\ procs'[c].job = 0
      /\ \A q \in Procs : q # c => procs'[q] = procs[q]
  BY <1>1, Putting DEF Request, Procs, TypeOK
<1>3. Len(jobs) \in Nat
  BY LenProperties DEF TypeOK
<1> QED BY <1>2, <1>3 DEF Request, TypeOK, money

LEMMA NewLinkTypes ==
  ASSUME TypeOK, NEW c \in Requests, NEW op \in RequestOps, NEW kind \in Links,
         NewLink(c, op, kind)
  PROVE  TypeOK'
<1>0. sub \in Row /\ NoRef \in Refs /\ 0 \in Nat /\ "over" \in ProcAt
  BY References DEF TypeOK, ProcAt
<1>1. Process("over", op, 0, sub, NoRef) \in Proc /\ Process("over", op, 0, sub, NoRef).job = 0
  BY <1>0, Processes
<1>2. /\ procs' \in [Procs -> Proc] /\ procs'[c].job = 0
      /\ \A q \in Procs : q # c => procs'[q] = procs[q]
  BY <1>1, Putting DEF NewLink, Procs, TypeOK
<1>3. Len(jobs) \in Nat
  BY LenProperties DEF TypeOK
<1> QED BY <1>2, <1>3 DEF NewLink, TypeOK, money

LEMMA QueueTypes ==
  ASSUME TypeOK, NEW p \in Procs, NEW at, NEW type \in JobTypes, QueueJob(p, at, type)
  PROVE  TypeOK'
<1>1. procs' \in [Procs -> Proc] /\ \A q \in Procs : procs'[q].job = procs[q].job
  BY Going DEF QueueJob, TypeOK, Finishing, ProcAt
<1>2. jobs' \in Seq(JobRow) /\ Len(jobs') = Len(jobs) + 1 /\ Len(jobs) \in Nat
  BY JobRows, AppendProperties, LenProperties DEF QueueJob, TypeOK
<1> QED BY <1>1, <1>2 DEF QueueJob, TypeOK, money

(* The reference of a charge is one the code can build, and the number of  *)
(* its attempt is a number.                                                *)
LEMMA ChargeRefTypes ==
  ASSUME TypeOK, NEW p \in Procs
  PROVE  ChargeRefs(p) \subseteq Refs
<1>1. procs[p].seen.attempt + 1 \in Nat
  BY DEF TypeOK, Proc, Row
<1>2. RetryRails(procs[p].seen) \subseteq Rails
  BY DEF RetryRails, LadderRail, Rails
<1>3. {"trial", "resume"} \subseteq Rails
  BY DEF Rails
<1> QED BY <1>1, <1>2, <1>3, References DEF ChargeRefs

LEMMA AnswerTypes ==
  ASSUME TypeOK, NEW p \in Procs, NEW answer \in {"accepted", "declined", "refused"},
         Hears(p, answer)
  PROVE  answered' \subseteq Nat \X {"accepted", "declined", "refused"}
<1>1. procs[p].seen.attempt + 1 \in Nat
  BY DEF TypeOK, Proc, Row
<1> QED BY <1>1 DEF Hears, TypeOK

(* A step that moves one process and writes no row, job or count keeps the *)
(* types if what it writes has them.                                       *)
LEMMA MoneyTypes ==
  ASSUME TypeOK, NEW p \in Procs, NEW at \in ProcAt, GoTo(p, at),
         UNCHANGED <<sub, jobs, crashes>>,
         links' \subseteq Links, collected' \subseteq Refs, ledger' \subseteq Refs,
         answered' \subseteq Nat \X {"accepted", "declined", "refused"},
         DOMAIN invoices' \subseteq Refs,
         \A ref \in DOMAIN invoices' : invoices'[ref] \in {"open", "paid"}
  PROVE  TypeOK'
<1>1. procs' \in [Procs -> Proc] /\ \A q \in Procs : procs'[q].job = procs[q].job
  BY Going DEF TypeOK
<1> QED BY <1>1 DEF TypeOK

(* Each step of a goroutine's handler keeps the types. *)
LEMMA HandlerTypes ==
  ASSUME TypeOK, NEW w \in Workers, Handler(w)
  PROVE  TypeOK'
<1> USE DEF ProcAt, Procs
<1>0. sub \in Row /\ w \in Procs /\ procs[w] \in Proc
  BY DEF TypeOK
<1>1. CASE ExpireTrial(w)
  BY <1>1, StartTypes DEF ExpireTrial, TrialStep, JobTypes
<1>2. CASE RetryFailedPayment(w)
  BY <1>2, StartTypes DEF RetryFailedPayment, JobTypes
<1>3. CASE CancelAtPeriodEnd(w)
  BY <1>3, StartTypes DEF CancelAtPeriodEnd, JobTypes
<1>4. CASE CheckAbandonedCheckouts(w)
  BY <1>4, StartTypes DEF CheckAbandonedCheckouts, JobTypes
<1>5. CASE ClaimDunningAttempt(w)
  <2>1. sub' \in Row /\ (GoTo(w, "charge") \/ GoTo(w, "succeed"))
    BY <1>0, <1>5, Rows DEF ClaimDunningAttempt
  <2>2. procs' \in [Procs -> Proc] /\ \A q \in Procs : procs'[q].job = procs[q].job
    BY <2>1, Going DEF TypeOK
  <2> QED BY <1>5, <2>1, <2>2 DEF ClaimDunningAttempt, TypeOK, money
<1>6. CASE ActionRequired(w)
  <2>1. AfterDecline(w, TRUE) \in ProcAt
    BY DEF AfterDecline
  <2>2. answered' \subseteq Nat \X {"accepted", "declined", "refused"}
    BY <1>0, <1>6, AnswerTypes DEF ActionRequired
  <2>3. links' \subseteq Links
    BY <1>6 DEF ActionRequired, TypeOK, Links
  <2> QED BY <1>0, <1>6, <2>1, <2>2, <2>3, MoneyTypes DEF ActionRequired, TypeOK
<1>7. CASE EnterGrace(w)
  <2>1. WithDunning(sub, "GRACE_PERIOD", 0) \in Row
    BY <1>0, Rows DEF Statuses
  <2> QED BY <1>0, <1>7, <2>1, WriteTypes DEF EnterGrace
<1>8. CASE UpdateDunning(w)
  <2>1. DunningStep(w, TRUE).attempt \in Nat
    BY <1>0, Attempts DEF DunningStep, Proc, Row
  <2>2. WithDunning(sub, "DUNNING", DunningStep(w, TRUE).attempt) \in Row
    BY <1>0, <2>1, Rows DEF Statuses
  <2> QED BY <1>0, <1>8, <2>2, WriteTypes DEF UpdateDunning
<1>9. CASE Suspend(w)
  <2>1. WithStatus(sub, "SUSPENDED") \in Row
    BY <1>0, Rows DEF Statuses
  <2> QED BY <1>0, <1>9, <2>1, WriteTypes DEF Suspend
<1>10. CASE Finish(w)
  <2>1. procs[w].job \in 1..Len(jobs) => jobs[procs[w].job] \in JobRow
    BY ElementOfSeq DEF TypeOK
  <2>2. PICK row : /\ jobs' = [jobs EXCEPT ![procs[w].job] = row]
                   /\ procs[w].job \in 1..Len(jobs) => row \in JobRow
    BY <1>10, <2>1, JobRows DEF Finish
  <2>3. jobs' \in Seq(JobRow) /\ Len(jobs') = Len(jobs) /\ Len(jobs) \in Nat
    BY <2>2, Replacing, LenProperties DEF TypeOK
  <2>4. Resting("idle", 0) \in Proc /\ Resting("idle", 0).job = 0
    BY Processes
  <2>5. procs' = [procs EXCEPT ![w] = Resting("idle", 0)]
    BY <1>10 DEF Finish
  <2> QED BY <1>0, <1>10, <2>3, <2>4, <2>5 DEF Finish, TypeOK, money
<1> QED BY <1>1, <1>2, <1>3, <1>4, <1>5, <1>6, <1>7, <1>8, <1>9, <1>10 DEF Handler

(* So does the first step of a request. *)
LEMMA ArrivalTypes ==
  ASSUME TypeOK, NEW c \in Requests, Arrival(c)
  PROVE  TypeOK'
<1> USE DEF ProcAt, RequestOps
<1>1. CASE Cancel(c) \/ PortalCancel(c) \/ Pause(c) \/ Resume(c) \/ PortalResume(c)
             \/ Recover(c) \/ RetryNow(c) \/ PaymentFailed(c)
  BY <1>1, RequestTypes DEF Cancel, PortalCancel, Pause, Resume, PortalResume, Recover,
                            RetryNow, PaymentFailed
<1>2. CASE RegenerateCheckout(c) \/ UpdatePaymentMethod(c)
  BY <1>2, NewLinkTypes DEF RegenerateCheckout, UpdatePaymentMethod, Links
<1>3. CASE PaymentSuccess(c)
  <2>1. PICK at \in {"store_card", AfterPayment(sub)} :
          Put(c, Process(at, "payment_success", 0, sub, CheckoutRef))
    BY <1>3 DEF PaymentSuccess
  <2>2. /\ at \in ProcAt /\ sub \in Row /\ 0 \in Nat /\ CheckoutRef \in Refs
        /\ "payment_success" \in JobTypes \cup RequestOps
    BY References DEF AfterPayment, TypeOK
  <2> HIDE DEF ProcAt, RequestOps
  <2>3. /\ Process(at, "payment_success", 0, sub, CheckoutRef) \in Proc
        /\ Process(at, "payment_success", 0, sub, CheckoutRef).job = 0
    BY <2>2, Processes
  <2>4. /\ procs' \in [Procs -> Proc] /\ procs'[c].job = 0
        /\ \A q \in Procs : q # c => procs'[q] = procs[q]
    BY <2>1, <2>3, Putting DEF Procs, TypeOK
  <2>5. Len(jobs) \in Nat
    BY LenProperties DEF TypeOK
  <2>6. collected' \subseteq Refs
    BY <1>3, References DEF PaymentSuccess, TypeOK
  <2> QED BY <1>3, <2>4, <2>5, <2>6 DEF PaymentSuccess, TypeOK
<1> QED BY <1>1, <1>2, <1>3 DEF Arrival

(* So do the later steps of a request. *)
LEMMA ServingTypes ==
  ASSUME TypeOK, NEW c \in Requests, Serving(c)
  PROVE  TypeOK'
<1> USE DEF ProcAt, Procs
<1>0. sub \in Row /\ c \in Procs
  BY DEF TypeOK
<1>1. /\ Renewed(sub) \in Row /\ Cancelling(sub) \in Row /\ Paused(sub) \in Row
      /\ Resumed(sub) \in Row /\ WithCard(sub) \in Row
  BY <1>0, Rows
<1>2. CASE ResumeForward(c) \/ FlagCancel(c) \/ PauseRow(c)
  BY <1>0, <1>1, <1>2, WriteTypes DEF ResumeForward, FlagCancel, PauseRow
<1>3. CASE ResumeRow(c)
  BY <1>0, <1>1, <1>3, WriteTypes DEF ResumeRow
<1>4. CASE UpdateTokenKey(c)
  BY <1>0, <1>1, <1>4, WriteTypes DEF UpdateTokenKey, AfterPayment
<1>5. CASE QueueCancel(c)
  BY <1>0, <1>5, QueueTypes DEF QueueCancel, JobTypes
<1> QED BY <1>2, <1>3, <1>4, <1>5 DEF Serving

(* So do the steps that handlers and requests have in common. *)
LEMMA EitherTypes ==
  ASSUME TypeOK, NEW p \in Procs, Either(p)
  PROVE  TypeOK'
<1> USE DEF ProcAt
<1>0. sub \in Row /\ procs[p].ref \in Refs /\ Finishing(p) \in ProcAt
  BY DEF TypeOK, Proc, Finishing
<1>1. WithStatus(sub, "PAST_DUE") \in Row /\ Renewed(sub) \in Row /\ Cancelled(sub) \in Row
  BY <1>0, Rows DEF Statuses
<1>2. CASE Lapse(p) \/ Renew(p) \/ CancelNow(p)
  BY <1>0, <1>1, <1>2, WriteTypes DEF Lapse, Renew, CancelNow
<1>3. CASE QueueRetry(p)
  BY <1>3, QueueTypes DEF QueueRetry, JobTypes
<1>4. CASE ChargeAccepted(p)
  <2>1. PICK ref \in ChargeRefs(p) :
          /\ collected' = collected \cup {ref}
          /\ Put(p, [procs[p] EXCEPT
                       !.at = IF procs[p].op = "resume" THEN "invoice" ELSE "renew",
                       !.ref = ref])
    BY <1>4 DEF ChargeAccepted
  <2>2. ref \in Refs
    BY ChargeRefTypes
  <2> DEFINE at == IF procs[p].op = "resume" THEN "invoice" ELSE "renew"
             process == [procs[p] EXCEPT !.at = at, !.ref = ref]
  <2>3. process \in Proc /\ process.job = procs[p].job
    <3>1. at \in ProcAt
      OBVIOUS
    <3> HIDE DEF at
    <3> QED BY <2>2, <3>1 DEF TypeOK, Proc
  <2>4. Put(p, process)
    BY <2>1
  <2> HIDE DEF process
  <2>5. procs' \in [Procs -> Proc] /\ \A q \in Procs : procs'[q].job = procs[q].job
    BY <2>3, <2>4, Putting DEF TypeOK
  <2>6. answered' \subseteq Nat \X {"accepted", "declined", "refused"}
    BY <1>4, AnswerTypes DEF ChargeAccepted
  <2> QED BY <1>4, <2>1, <2>2, <2>5, <2>6 DEF ChargeAccepted, TypeOK
<1>5. CASE ChargeDeclined(p)
  <2>1. PICK retriable \in BOOLEAN :
          /\ Hears(p, IF retriable THEN "declined" ELSE "refused")
          /\ GoTo(p, AfterDecline(p, retriable))
    BY <1>5 DEF ChargeDeclined
  <2>2. AfterDecline(p, retriable) \in ProcAt
    BY DEF AfterDecline
  <2>3. answered' \subseteq Nat \X {"accepted", "declined", "refused"}
    BY <2>1, AnswerTypes
  <2> QED BY <1>5, <2>1, <2>2, <2>3, MoneyTypes DEF ChargeDeclined, TypeOK
<1>6. CASE ChargeUnanswered(p)
  <2>1. collected' \subseteq Refs
    BY <1>6, ChargeRefTypes DEF ChargeUnanswered, TypeOK
  <2>2. GoTo(p, "fail") \/ GoTo(p, "over")
    BY <1>6 DEF ChargeUnanswered
  <2> QED BY <1>6, <2>1, <2>2, MoneyTypes DEF ChargeUnanswered, TypeOK
<1>7. CASE CreateInvoice(p)
  <2>1. GoTo(p, "ledger") \/ GoTo(p, Finishing(p))
    BY <1>7 DEF CreateInvoice
  <2>2. /\ DOMAIN invoices' \subseteq Refs
        /\ \A ref \in DOMAIN invoices' : invoices'[ref] \in {"open", "paid"}
    BY <1>0, <1>7 DEF CreateInvoice, InvoiceExists, TypeOK
  <2> QED BY <1>0, <1>7, <2>1, <2>2, MoneyTypes DEF CreateInvoice, TypeOK
<1>8. CASE RecordCharge(p)
  BY <1>0, <1>8, MoneyTypes DEF RecordCharge, TypeOK
<1>9. CASE MarkPaid(p)
  <2>1. /\ DOMAIN invoices' \subseteq Refs
        /\ \A ref \in DOMAIN invoices' : invoices'[ref] \in {"open", "paid"}
    BY <1>9 DEF MarkPaid, TypeOK
  <2> QED BY <1>0, <1>9, <2>1, MoneyTypes DEF MarkPaid, TypeOK
<1> QED BY <1>2, <1>3, <1>4, <1>5, <1>6, <1>7, <1>8, <1>9 DEF Either

LEMMA SweepTypes ==
  ASSUME TypeOK, NEW i \in DOMAIN jobs, RecoverStaleLock(i)
  PROVE  TypeOK'
<1>1. jobs[i] \in JobRow
  BY ElementOfSeq, LenProperties DEF TypeOK
<1>2. jobs' \in Seq(JobRow) /\ Len(jobs') = Len(jobs)
  BY <1>1, JobRows, Replacing DEF RecoverStaleLock, TypeOK
<1> QED BY <1>2 DEF RecoverStaleLock, TypeOK, money

LEMMA CrashTypes ==
  ASSUME TypeOK, Crash
  PROVE  TypeOK'
<1>1. Resting("idle", 0) \in Proc /\ Resting("idle", 0).job = 0
  BY Processes DEF ProcAt
<1>2. Len(jobs) \in Nat
  BY LenProperties DEF TypeOK
<1>3. procs' = [p \in Procs |-> IF p \in Workers THEN Resting("idle", 0) ELSE procs[p]]
  BY DEF Crash
<1> HIDE DEF Resting
<1> QED BY <1>1, <1>2, <1>3 DEF Crash, TypeOK, money

LEMMA TypeStep == TypeOK /\ [Next]_vars => TypeOK'
<1> SUFFICES ASSUME TypeOK, [Next]_vars PROVE TypeOK'
  OBVIOUS
<1>1. CASE UNCHANGED vars
  BY <1>1 DEF vars, TypeOK
<1> QED BY <1>1, HandlerTypes, ArrivalTypes, ServingTypes, EitherTypes, SweepTypes, CrashTypes
        DEF Next

LEMMA TypeInit == Init => TypeOK
<1> SUFFICES ASSUME Init PROVE TypeOK
  OBVIOUS
<1>1. PICK s \in Starts : /\ sub = NewRow(s.status, s.card)
                          /\ jobs = [i \in 1..Len(s.jobs) |-> NewJob(s.jobs[i])]
                          /\ links = s.links
  BY DEF Init
<1>2. s \in [status : Statuses, card : BOOLEAN, jobs : Seq(JobTypes), links : SUBSET Links]
  BY BillingAssumption
<1>3. sub \in Row /\ links \subseteq Links
  BY <1>1, <1>2, Rows
<1>4. Len(s.jobs) \in Nat /\ \A i \in 1..Len(s.jobs) : NewJob(s.jobs[i]) \in JobRow
  BY <1>2, LenProperties, JobRows
<1>5. jobs \in [1..Len(s.jobs) -> JobRow]
  BY <1>1, <1>4
<1>6. jobs \in Seq(JobRow)
  BY <1>4, <1>5, SeqDef
<1>7. Len(jobs) \in Nat
  BY <1>6, LenProperties
<1>8. /\ Resting("idle", 0) \in Proc /\ Resting("idle", 0).job = 0
      /\ Resting("new", 0) \in Proc /\ Resting("new", 0).job = 0
  BY Processes DEF ProcAt
<1>9. procs \in [Procs -> Proc] /\ \A p \in Procs : procs[p].job = 0
  BY <1>8 DEF Init
<1> QED BY <1>3, <1>6, <1>7, <1>9 DEF Init, TypeOK

(* Type correctness, for any pool, any schedule and any start. *)
THEOREM TypeCorrect == Spec => []TypeOK
BY TypeInit, TypeStep, PTL DEF Spec

-----------------------------------------------------------------------------
(* The books.                                                              *)

(* Writing the ledger, and on the way to it. *)
Recording == {"ledger", "mark_paid"}
OnTheWay == {"renew", "invoice", "ledger"}

Reliable == InfraErrors = FALSE /\ WriteErrors = FALSE /\ MaxCrashes = 0

(* Whoever will write the ledger holds a reference Nomba took money for.   *)
Backing ==
  /\ LedgerIsBacked
  /\ \A p \in Procs : procs[p].at \in Holding => Backed(procs[p].ref)

(* Whoever writes the ledger has created the invoice of his reference, and *)
(* so has nobody else.                                                     *)
Keyed ==
  /\ \A p \in Procs : procs[p].at \in Recording => procs[p].ref \in DOMAIN invoices
  /\ OneRecorderPerCharge

(* Whoever marks an invoice has written the ledger, if that cannot fail.   *)
Marked ==
  /\ PaidInvoicesAreLedgered
  /\ \A p \in Procs : procs[p].at = "mark_paid" => procs[p].ref \in ledger

(* A charge is carried until it is written; an invoice nobody carries on   *)
(* from has its entry, so it may stop a second carrier of its reference.   *)
Complete ==
  /\ ChargesAreRecorded
  /\ \A ref \in DOMAIN invoices :
       ref \in ledger \/ \E p \in Procs : procs[p].at = "ledger" /\ procs[p].ref = ref

Books ==
  /\ Backing /\ Keyed
  /\ WriteErrors = FALSE => Marked
  /\ Reliable => Complete

(* A step of p that writes neither invoices nor the ledger. *)
OffTheBooks(p) ==
  /\ collected \subseteq collected'
  /\ UNCHANGED <<invoices, ledger>>
  /\ \A q \in Procs : q # p => procs'[q] = procs[q]
  /\ procs[p].at \notin Recording /\ procs'[p].at \notin Recording
  /\ procs'[p].at \in Holding =>
       \/ Backed(procs[p].ref)'
       \/ procs[p].at \in Holding /\ procs'[p].ref = procs[p].ref
  /\ Reliable =>
       /\ procs[p].at \in OnTheWay =>
            procs'[p].at \in OnTheWay /\ procs'[p].ref = procs[p].ref
       /\ \A ref \in (collected' \cap ToriCharges) \ collected :
            procs'[p].at \in OnTheWay /\ procs'[p].ref = ref

(* Such a step keeps the books. *)
LEMMA OffTheBooksStep ==
  ASSUME Books, NEW p \in Procs, OffTheBooks(p)
  PROVE  Books'
<1>1. \A ref : Backed(ref) => Backed(ref)'
  BY DEF OffTheBooks, Backed
<1>2. Backing'
  BY <1>1 DEF OffTheBooks, Books, Backing, LedgerIsBacked
<1>3. \A q \in Procs : procs'[q].at \in Recording => procs'[q] = procs[q]
  BY DEF OffTheBooks
<1>4. Keyed'
  <2>1. \A q \in Procs : procs'[q].at \in Recording => procs'[q].ref \in DOMAIN invoices'
    BY <1>3 DEF OffTheBooks, Books, Keyed
  <2>2. OneRecorderPerCharge'
    BY <1>3 DEF OffTheBooks, Books, Keyed, OneRecorderPerCharge, Recording
  <2> QED BY <2>1, <2>2 DEF Keyed
<1>5. ASSUME WriteErrors = FALSE PROVE Marked'
  BY <1>3, <1>5 DEF OffTheBooks, Books, Marked, PaidInvoicesAreLedgered, Recording
<1>6. ASSUME Reliable PROVE Complete'
  <2>1. Complete
    BY <1>6 DEF Books
  <2>2. \A q \in Procs : \A ref : Carries(q, ref) => Carries(q, ref)'
    BY <1>6 DEF OffTheBooks, Carries, OnTheWay, Recording
  <2>3. ASSUME NEW ref \in Unrecorded' PROVE \E q \in Procs : Carries(q, ref)'
    <3>1. CASE ref \in collected
      BY <2>1, <2>2, <2>3, <3>1 DEF Complete, ChargesAreRecorded, Unrecorded, OffTheBooks
    <3>2. CASE ref \notin collected
      BY <1>6, <2>3, <3>2 DEF Unrecorded, OffTheBooks, Carries, OnTheWay
    <3> QED BY <3>1, <3>2
  <2>4. ASSUME NEW ref \in DOMAIN invoices'
        PROVE  ref \in ledger' \/ \E q \in Procs : procs'[q].at = "ledger" /\ procs'[q].ref = ref
    <3>1. ref \in ledger \/ \E q \in Procs : procs[q].at = "ledger" /\ procs[q].ref = ref
      BY <2>1, <2>4 DEF Complete, OffTheBooks
    <3>2. \A q \in Procs : procs[q].at = "ledger" => procs'[q] = procs[q]
      BY DEF OffTheBooks, Recording
    <3> QED BY <3>1, <3>2 DEF OffTheBooks
  <2> QED BY <2>3, <2>4 DEF Complete, ChargesAreRecorded
<1> QED BY <1>2, <1>4, <1>5, <1>6 DEF Books

(* A GoTo that leaves the books and the charges alone is such a step. *)
LEMMA GoOffTheBooks ==
  ASSUME TypeOK, NEW p \in Procs, NEW at \in ProcAt, GoTo(p, at),
         UNCHANGED <<collected, invoices, ledger>>,
         procs[p].at \notin Recording, at \notin Recording,
         at \in Holding => procs[p].at \in Holding,
         procs[p].at \in OnTheWay => at \in OnTheWay
  PROVE  OffTheBooks(p)
<1>1. /\ procs'[p].at = at
      /\ at \in Holding => procs'[p].ref = procs[p].ref
      /\ \A q \in Procs : q # p => procs'[q] = procs[q]
  BY Going DEF TypeOK
<1>2. OnTheWay \subseteq Holding
  BY DEF OnTheWay, Holding
<1> QED BY <1>1, <1>2 DEF OffTheBooks

(* A Put of a process that holds no money is one, too. *)
LEMMA PutOffTheBooks ==
  ASSUME TypeOK, NEW p \in Procs, NEW process \in Proc, Put(p, process),
         UNCHANGED <<collected, invoices, ledger>>,
         procs[p].at \notin Recording \cup OnTheWay, process.at \notin Holding
  PROVE  OffTheBooks(p)
<1>1. /\ procs'[p].at = process.at
      /\ \A q \in Procs : q # p => procs'[q] = procs[q]
  BY Putting DEF TypeOK
<1>2. Recording \subseteq Holding
  BY DEF Recording, Holding
<1> QED BY <1>1, <1>2 DEF OffTheBooks

-----------------------------------------------------------------------------
(* The steps off the books.                                                *)

LEMMA HandlerOffTheBooks ==
  ASSUME TypeOK, NEW w \in Workers, Handler(w)
  PROVE  OffTheBooks(w)
<1> USE DEF ProcAt, Recording, OnTheWay, Holding, money
<1>0. w \in Procs /\ sub \in Row /\ NoRef \in Refs
  BY References DEF Procs, TypeOK
<1>1. ASSUME NEW type \in JobTypes, NEW at \in ProcAt \ Holding, Start(w, type, at)
      PROVE  OffTheBooks(w)
  <2>1. PICK i \in DOMAIN jobs : Put(w, Process(at, type, i, sub, NoRef))
    BY <1>1 DEF Start
  <2>2. i \in Nat
    BY LenProperties DEF TypeOK
  <2>3. /\ Process(at, type, i, sub, NoRef) \in Proc
        /\ Process(at, type, i, sub, NoRef).at = at
    BY <1>0, <2>2, Processes
  <2> HIDE DEF ProcAt
  <2> QED BY <1>0, <1>1, <2>1, <2>3, PutOffTheBooks DEF Start
<1>2. CASE ExpireTrial(w)
  BY <1>1, <1>2 DEF ExpireTrial, TrialStep, JobTypes
<1>3. CASE RetryFailedPayment(w)
  BY <1>1, <1>3 DEF RetryFailedPayment, JobTypes
<1>4. CASE CancelAtPeriodEnd(w)
  BY <1>1, <1>4 DEF CancelAtPeriodEnd, JobTypes
<1>5. CASE CheckAbandonedCheckouts(w)
  BY <1>1, <1>5 DEF CheckAbandonedCheckouts, JobTypes
<1>6. CASE ClaimDunningAttempt(w)
  BY <1>0, <1>6, GoOffTheBooks DEF ClaimDunningAttempt
<1>7. CASE ActionRequired(w)
  BY <1>0, <1>7, GoOffTheBooks DEF ActionRequired, AfterDecline
<1>8. CASE EnterGrace(w) \/ UpdateDunning(w) \/ Suspend(w)
  BY <1>0, <1>8, GoOffTheBooks DEF EnterGrace, UpdateDunning, Suspend, Write
<1>9. CASE Finish(w)
  <2>1. Resting("idle", 0).at = "idle"
    BY Processes
  <2>2. procs'[w].at = "idle" /\ \A q \in Procs : q # w => procs'[q] = procs[q]
    BY <1>0, <1>9, <2>1 DEF Finish, TypeOK
  <2> QED BY <1>9, <2>2 DEF Finish, OffTheBooks
<1> QED BY <1>2, <1>3, <1>4, <1>5, <1>6, <1>7, <1>8, <1>9 DEF Handler

LEMMA ArrivalOffTheBooks ==
  ASSUME TypeOK, NEW c \in Requests, Arrival(c)
  PROVE  OffTheBooks(c)
<1> USE DEF Recording, OnTheWay, Holding, money
<1>0. /\ c \in Procs /\ sub \in Row /\ NoRef \in Refs /\ CheckoutRef \in Refs /\ 0 \in Nat
  BY References DEF Procs, TypeOK
<1>1. ASSUME NEW op \in RequestOps, NEW at \in ProcAt \ Holding,
             Put(c, Process(at, op, 0, sub, NoRef)), procs[c].at = "new",
             UNCHANGED money
      PROVE  OffTheBooks(c)
  <2>1. /\ Process(at, op, 0, sub, NoRef) \in Proc
        /\ Process(at, op, 0, sub, NoRef).at = at
    BY <1>0, Processes
  <2> QED BY <1>0, <1>1, <2>1, PutOffTheBooks
<1>2. CASE Cancel(c) \/ PortalCancel(c) \/ Pause(c) \/ Resume(c) \/ PortalResume(c)
             \/ Recover(c) \/ RetryNow(c) \/ PaymentFailed(c)
  BY <1>1, <1>2 DEF Cancel, PortalCancel, Pause, Resume, PortalResume, Recover,
                    RetryNow, PaymentFailed, Request, RequestOps, ProcAt
<1>3. CASE RegenerateCheckout(c) \/ UpdatePaymentMethod(c)
  BY <1>1, <1>3 DEF RegenerateCheckout, UpdatePaymentMethod, NewLink, RequestOps, ProcAt
<1>4. CASE PaymentSuccess(c)
  <2>1. PICK at \in {"store_card", AfterPayment(sub)} :
          Put(c, Process(at, "payment_success", 0, sub, CheckoutRef))
    BY <1>4 DEF PaymentSuccess
  <2>2. /\ at \in ProcAt \ Recording
        /\ "payment_success" \in JobTypes \cup RequestOps
    BY DEF AfterPayment, ProcAt, RequestOps
  <2>3. /\ Process(at, "payment_success", 0, sub, CheckoutRef) \in Proc
        /\ Process(at, "payment_success", 0, sub, CheckoutRef).at = at
        /\ Process(at, "payment_success", 0, sub, CheckoutRef).ref = CheckoutRef
    BY <1>0, <2>2, Processes
  <2>4. /\ procs'[c].at = at
        /\ at \in Holding => procs'[c].ref = CheckoutRef
        /\ \A q \in Procs : q # c => procs'[q] = procs[q]
    BY <1>0, <2>1, <2>3, Putting DEF TypeOK
  <2>5. PICK ref \in {CheckoutRef, Verification} : collected' = collected \cup {ref}
    BY <1>4 DEF PaymentSuccess
  <2>6. CheckoutRef \notin ToriCharges /\ Verification \notin ToriCharges
    BY DEF ToriCharges, CheckoutRef, Verification, Ref
  <2>8. procs'[c].at \in Holding => Backed(procs[c].ref)'
    BY <2>4, <2>5 DEF Backed, CheckoutRef, Verification
  <2>9. procs[c].at = "new" /\ UNCHANGED <<invoices, ledger>>
    BY <1>4 DEF PaymentSuccess
  <2> QED BY <2>2, <2>4, <2>5, <2>6, <2>8, <2>9 DEF OffTheBooks
<1> QED BY <1>2, <1>3, <1>4 DEF Arrival

LEMMA ServingOffTheBooks ==
  ASSUME TypeOK, NEW c \in Requests, Serving(c)
  PROVE  OffTheBooks(c)
<1> USE DEF ProcAt, Procs, Recording, OnTheWay, Holding, money
<1>1. CASE ResumeForward(c) \/ FlagCancel(c) \/ PauseRow(c)
  BY <1>1, GoOffTheBooks DEF ResumeForward, FlagCancel, PauseRow, Write
<1>2. CASE ResumeRow(c)
  BY <1>2, GoOffTheBooks DEF ResumeRow, Write
<1>3. CASE UpdateTokenKey(c)
  BY <1>3, GoOffTheBooks DEF UpdateTokenKey, Write, AfterPayment
<1>4. CASE QueueCancel(c)
  BY <1>4, GoOffTheBooks DEF QueueCancel, QueueJob, Finishing
<1> QED BY <1>1, <1>2, <1>3, <1>4 DEF Serving

LEMMA EitherOffTheBooks ==
  ASSUME TypeOK, NEW p \in Procs, Either(p),
         ~CreateInvoice(p), ~RecordCharge(p), ~MarkPaid(p)
  PROVE  OffTheBooks(p)
<1> USE DEF Recording, OnTheWay, Holding, money
<1>1. CASE Lapse(p) \/ Renew(p) \/ CancelNow(p) \/ QueueRetry(p)
  BY <1>1, GoOffTheBooks DEF Lapse, Renew, CancelNow, QueueRetry, Write, QueueJob,
                             Finishing, ProcAt
<1>2. CASE ChargeAccepted(p)
  <2> DEFINE at == IF procs[p].op = "resume" THEN "invoice" ELSE "renew"
  <2>1. PICK ref \in ChargeRefs(p) :
          /\ collected' = collected \cup {ref}
          /\ Put(p, [procs[p] EXCEPT !.at = at, !.ref = ref])
    BY <1>2 DEF ChargeAccepted
  <2> DEFINE process == [procs[p] EXCEPT !.at = at, !.ref = ref]
  <2>2. at \in {"invoice", "renew"} /\ {"invoice", "renew"} \subseteq ProcAt /\ ref \in Refs
    BY ChargeRefTypes DEF ProcAt
  <2> HIDE DEF at
  <2>3. process \in Proc /\ process.at = at /\ process.ref = ref
    BY <2>2 DEF TypeOK, Proc
  <2>4. Put(p, process)
    BY <2>1
  <2> HIDE DEF process
  <2>5. /\ procs'[p].at = at /\ procs'[p].ref = ref
        /\ \A q \in Procs : q # p => procs'[q] = procs[q]
    BY <2>2, <2>3, <2>4, Putting DEF TypeOK
  <2>6. procs[p].at = "charge" /\ UNCHANGED <<invoices, ledger>>
    BY <1>2 DEF ChargeAccepted
  <2> QED BY <2>1, <2>2, <2>5, <2>6 DEF OffTheBooks, Backed
<1>3. CASE ChargeDeclined(p)
  <2>1. PICK retriable \in BOOLEAN : GoTo(p, AfterDecline(p, retriable))
    BY <1>3 DEF ChargeDeclined
  <2> QED BY <1>3, <2>1, GoOffTheBooks DEF ChargeDeclined, AfterDecline, ProcAt
<1>4. CASE ChargeUnanswered(p)
  <2>1. GoTo(p, "fail") \/ GoTo(p, "over")
    BY <1>4 DEF ChargeUnanswered
  <2>2. /\ procs'[p].at \in {"fail", "over"}
        /\ \A q \in Procs : q # p => procs'[q] = procs[q]
    BY <2>1, Going DEF TypeOK, ProcAt
  <2>3. ~Reliable
    BY <1>4 DEF ChargeUnanswered, Reliable
  <2> QED BY <1>4, <2>2, <2>3 DEF ChargeUnanswered, OffTheBooks
<1> QED BY <1>1, <1>2, <1>3, <1>4 DEF Either

-----------------------------------------------------------------------------
(* The steps on the books.                                                 *)

(* The unique key of invoices lets one carrier of a reference through; the *)
(* other stops only where the first goes on or is done.                    *)
LEMMA InvoiceStep ==
  ASSUME TypeOK, Books, NEW p \in Procs, CreateInvoice(p)
  PROVE  Books'
<1> DEFINE r == procs[p].ref
<1>0. /\ procs[p].at = "invoice" /\ UNCHANGED <<collected, ledger>>
      /\ \A q \in Procs : procs[q].at \in Recording => q # p
  BY DEF CreateInvoice, Recording
<1>1. \A ref : Backed(ref) <=> Backed(ref)'
  BY <1>0 DEF Backed
<1>2. CASE GoTo(p, "ledger") /\ ~InvoiceExists(r)
            /\ invoices' = [ref \in DOMAIN invoices \cup {r} |->
                              IF InvoiceExists(ref) THEN invoices[ref] ELSE "open"]
  <2>1. /\ procs'[p].at = "ledger" /\ procs'[p].ref = r
        /\ \A q \in Procs : q # p => procs'[q] = procs[q]
    BY <1>2, Going DEF TypeOK, ProcAt, Holding
  <2>2. /\ DOMAIN invoices' = DOMAIN invoices \cup {r} /\ r \notin DOMAIN invoices
        /\ \A ref \in DOMAIN invoices : invoices'[ref] = invoices[ref]
        /\ invoices'[r] = "open"
    BY <1>2 DEF InvoiceExists
  <2> HIDE DEF r
  <2>3. Backing'
    BY <1>0, <1>1, <2>1 DEF Books, Backing, LedgerIsBacked, Holding, r
  <2>4. \A q \in Procs \ {p} : procs'[q].at \in Recording =>
          procs'[q].ref \in DOMAIN invoices /\ procs'[q].ref # r
    BY <2>1, <2>2 DEF Books, Keyed
  <2>5. OneRecorderPerCharge'
    <3> SUFFICES ASSUME NEW q1 \in Procs, NEW q2 \in Procs, q1 # q2,
                        {procs'[q1].at, procs'[q2].at} \subseteq Recording
                 PROVE  procs'[q1].ref # procs'[q2].ref
      BY DEF OneRecorderPerCharge, Recording
    <3>1. CASE q1 # p /\ q2 # p
      BY <2>1, <3>1 DEF Books, Keyed, OneRecorderPerCharge, Recording
    <3>2. CASE q1 = p \/ q2 = p
      BY <2>1, <2>4, <3>2
    <3> QED BY <3>1, <3>2
  <2>6. Keyed'
    BY <2>1, <2>2, <2>4, <2>5 DEF Keyed
  <2>7. ASSUME WriteErrors = FALSE PROVE Marked'
    BY <1>0, <2>1, <2>2, <2>7 DEF Books, Marked, PaidInvoicesAreLedgered
  <2>8. ASSUME Reliable PROVE Complete'
    <3>1. \A q \in Procs : \A ref : Carries(q, ref) => Carries(q, ref)'
      BY <1>0, <2>1 DEF Carries, r
    <3>2. ChargesAreRecorded'
      BY <1>0, <2>8, <3>1 DEF Books, Complete, ChargesAreRecorded, Unrecorded
    <3>3. \A ref \in DOMAIN invoices' :
            ref \in ledger' \/ \E q \in Procs : procs'[q].at = "ledger" /\ procs'[q].ref = ref
      <4>1. \A q \in Procs : procs[q].at = "ledger" => procs'[q] = procs[q]
        BY <1>0, <2>1 DEF Recording
      <4> QED BY <1>0, <2>1, <2>2, <2>8, <4>1 DEF Books, Complete
    <3> QED BY <3>2, <3>3 DEF Complete
  <2> QED BY <2>3, <2>6, <2>7, <2>8 DEF Books
<1>3. CASE GoTo(p, Finishing(p)) /\ (InvoiceExists(r) \/ WriteErrors) /\ UNCHANGED invoices
  <2>1. /\ procs'[p].at \in {"succeed", "over"}
        /\ \A q \in Procs : q # p => procs'[q] = procs[q]
    BY <1>3, Going DEF TypeOK, ProcAt, Finishing
  <2>2. Backing'
    BY <1>0, <1>1, <2>1 DEF Books, Backing, LedgerIsBacked, Holding
  <2>3. \A q \in Procs : procs'[q].at \in Recording => procs'[q] = procs[q]
    BY <2>1 DEF Recording
  <2>4. Keyed'
    BY <1>3, <2>3 DEF Books, Keyed, OneRecorderPerCharge, Recording
  <2>5. ASSUME WriteErrors = FALSE PROVE Marked'
    BY <1>0, <1>3, <2>3, <2>5 DEF Books, Marked, PaidInvoicesAreLedgered, Recording
  <2>6. ASSUME Reliable PROVE Complete'
    <3>1. r \in DOMAIN invoices
      BY <1>3, <2>6 DEF Reliable, InvoiceExists
    <3>2. \A q \in Procs : procs[q].at = "ledger" => procs'[q] = procs[q]
      BY <1>0, <2>1 DEF Recording
    <3>3. r \in ledger \/ \E q \in Procs : procs[q].at = "ledger" /\ procs[q].ref = r
      BY <2>6, <3>1 DEF Books, Complete
    <3> HIDE DEF r
    <3>4. \A q \in Procs : \A ref : Carries(q, ref) => Carries(q, ref)' \/ ref = r
      BY <2>1 DEF Carries, r
    <3>5. ASSUME NEW ref \in Unrecorded PROVE \E q \in Procs : Carries(q, ref)'
      <4>1. CASE ref = r
        BY <3>2, <3>3, <3>5, <4>1 DEF Unrecorded, Carries
      <4>2. CASE ref # r
        BY <2>6, <3>4, <3>5, <4>2 DEF Books, Complete, ChargesAreRecorded
      <4> QED BY <4>1, <4>2
    <3>6. Unrecorded' = Unrecorded
      BY <1>0 DEF Unrecorded
    <3>7. \A ref \in DOMAIN invoices' :
            ref \in ledger' \/ \E q \in Procs : procs'[q].at = "ledger" /\ procs'[q].ref = ref
      BY <1>0, <1>3, <2>6, <3>2 DEF Books, Complete
    <3> QED BY <3>5, <3>6, <3>7 DEF Complete, ChargesAreRecorded
  <2> QED BY <2>2, <2>4, <2>5, <2>6 DEF Books
<1> QED BY <1>2, <1>3 DEF CreateInvoice

LEMMA LedgerStep ==
  ASSUME TypeOK, Books, NEW p \in Procs, RecordCharge(p)
  PROVE  Books'
<1> DEFINE r == procs[p].ref
<1>0. /\ procs[p].at = "ledger" /\ UNCHANGED <<collected, invoices>>
      /\ ledger' \in {ledger, ledger \cup {r}}
      /\ WriteErrors = FALSE => ledger' = ledger \cup {r}
  BY DEF RecordCharge
<1>1. /\ procs'[p].at = "mark_paid" /\ procs'[p].ref = r
      /\ \A q \in Procs : q # p => procs'[q] = procs[q]
  BY Going DEF RecordCharge, TypeOK, ProcAt, Holding
<1>2. \A ref : Backed(ref) <=> Backed(ref)'
  BY <1>0 DEF Backed
<1> HIDE DEF r
<1>3. Backing'
  <2>1. Backed(r)
    BY <1>0 DEF Books, Backing, Holding, r
  <2> QED BY <1>0, <1>1, <1>2, <2>1 DEF Books, Backing, LedgerIsBacked
<1>4. Keyed'
  <2>1. \A q \in Procs : procs'[q].ref = procs[q].ref
    BY <1>1 DEF r
  <2>2. \A q \in Procs : procs'[q].at \in Recording => procs[q].at \in Recording
    BY <1>0, <1>1 DEF Recording
  <2> QED BY <1>0, <2>1, <2>2 DEF Books, Keyed, OneRecorderPerCharge, Recording
<1>5. ASSUME WriteErrors = FALSE PROVE Marked'
  BY <1>0, <1>1, <1>5 DEF Books, Marked, PaidInvoicesAreLedgered
<1>6. ASSUME Reliable PROVE Complete'
  <2>1. ledger' = ledger \cup {r}
    BY <1>0, <1>6 DEF Reliable
  <2>2. \A q \in Procs : \A ref : Carries(q, ref) => Carries(q, ref)' \/ ref = r
    BY <1>1 DEF Carries, r
  <2>3. ChargesAreRecorded'
    BY <1>0, <1>6, <2>1, <2>2 DEF Books, Complete, ChargesAreRecorded, Unrecorded
  <2>4. \A q \in Procs : procs[q].at = "ledger" /\ procs[q].ref # r => procs'[q] = procs[q]
    BY <1>1 DEF r
  <2>5. \A ref \in DOMAIN invoices' :
          ref \in ledger' \/ \E q \in Procs : procs'[q].at = "ledger" /\ procs'[q].ref = ref
    BY <1>0, <1>6, <2>1, <2>4 DEF Books, Complete
  <2> QED BY <2>3, <2>5 DEF Complete
<1> QED BY <1>3, <1>4, <1>5, <1>6 DEF Books

LEMMA MarkStep ==
  ASSUME TypeOK, Books, NEW p \in Procs, MarkPaid(p)
  PROVE  Books'
<1> DEFINE r == procs[p].ref
<1>0. /\ procs[p].at = "mark_paid" /\ UNCHANGED <<collected, ledger>>
      /\ DOMAIN invoices' = DOMAIN invoices
      /\ \A ref \in DOMAIN invoices : ref # r => invoices'[ref] = invoices[ref]
  BY DEF MarkPaid
<1>1. /\ procs'[p].at \in {"succeed", "over"}
      /\ \A q \in Procs : q # p => procs'[q] = procs[q]
  BY Going DEF MarkPaid, TypeOK, ProcAt, Finishing
<1>2. \A ref : Backed(ref) <=> Backed(ref)'
  BY <1>0 DEF Backed
<1>3. \A q \in Procs : procs'[q].at \in Recording => procs'[q] = procs[q]
  BY <1>1 DEF Recording
<1>4. Backing'
  BY <1>0, <1>1, <1>2 DEF Books, Backing, LedgerIsBacked, Holding
<1>5. Keyed'
  BY <1>0, <1>3 DEF Books, Keyed, OneRecorderPerCharge, Recording
<1>6. ASSUME WriteErrors = FALSE PROVE Marked'
  BY <1>0, <1>3, <1>6 DEF Books, Marked, PaidInvoicesAreLedgered, Recording
<1>7. ASSUME Reliable PROVE Complete'
  <2>1. \A q \in Procs : \A ref : Carries(q, ref) => Carries(q, ref)'
    BY <1>0, <1>1 DEF Carries
  <2>2. \A q \in Procs : procs[q].at = "ledger" => procs'[q] = procs[q]
    BY <1>0, <1>1
  <2> QED BY <1>0, <1>7, <2>1, <2>2 DEF Books, Complete, ChargesAreRecorded, Unrecorded
<1> QED BY <1>4, <1>5, <1>6, <1>7 DEF Books

(* A crash loses what the goroutines carried, and no more. *)
LEMMA CrashStep ==
  ASSUME TypeOK, Books, Crash
  PROVE  Books'
<1>1. /\ UNCHANGED <<collected, invoices, ledger>>
      /\ crashes < MaxCrashes /\ crashes \in Nat
      /\ procs' = [p \in Procs |-> IF p \in Workers THEN Resting("idle", 0) ELSE procs[p]]
  BY DEF Crash, money, TypeOK
<1>2. Resting("idle", 0).at = "idle"
  BY Processes DEF ProcAt
<1> HIDE DEF Resting
<1>3. \A q \in Procs : procs'[q].at \in Holding => procs'[q] = procs[q]
  BY <1>1, <1>2 DEF Holding
<1>4. \A ref : Backed(ref) <=> Backed(ref)'
  BY <1>1 DEF Backed
<1>5. Recording \subseteq Holding
  BY DEF Recording, Holding
<1>6. Backing'
  BY <1>1, <1>3, <1>4 DEF Books, Backing, LedgerIsBacked
<1>7. Keyed'
  BY <1>1, <1>3, <1>5 DEF Books, Keyed, OneRecorderPerCharge, Recording
<1>8. ASSUME WriteErrors = FALSE PROVE Marked'
  BY <1>1, <1>3, <1>5, <1>8 DEF Books, Marked, PaidInvoicesAreLedgered, Recording
<1>9. ~Reliable
  BY <1>1 DEF Reliable
<1> QED BY <1>6, <1>7, <1>8, <1>9 DEF Books

LEMMA IdleStep ==
  ASSUME Books, UNCHANGED <<procs, collected, invoices, ledger>>
  PROVE  Books'
BY DEF Books, Backing, LedgerIsBacked, Backed, Keyed, OneRecorderPerCharge, Marked,
       PaidInvoicesAreLedgered, Complete, ChargesAreRecorded, Unrecorded, Carries

LEMMA BooksStep == TypeOK /\ Books /\ [Next]_vars => Books'
<1> SUFFICES ASSUME TypeOK, Books, [Next]_vars PROVE Books'
  OBVIOUS
<1>1. ASSUME NEW w \in Workers, Handler(w) PROVE Books'
  BY <1>1, HandlerOffTheBooks, OffTheBooksStep DEF Procs
<1>2. ASSUME NEW c \in Requests, Arrival(c) \/ Serving(c) PROVE Books'
  BY <1>2, ArrivalOffTheBooks, ServingOffTheBooks, OffTheBooksStep DEF Procs
<1>3. ASSUME NEW p \in Procs, Either(p) PROVE Books'
  BY <1>3, EitherOffTheBooks, OffTheBooksStep, InvoiceStep, LedgerStep, MarkStep
<1>4. ASSUME NEW i \in DOMAIN jobs, RecoverStaleLock(i) PROVE Books'
  BY <1>4, IdleStep DEF RecoverStaleLock, money
<1>5. CASE Crash
  BY <1>5, CrashStep
<1>6. CASE UNCHANGED vars
  BY <1>6, IdleStep DEF vars
<1> QED BY <1>1, <1>2, <1>3, <1>4, <1>5, <1>6 DEF Next

LEMMA BooksInit == Init => Books
<1> SUFFICES ASSUME Init PROVE Books
  OBVIOUS
<1>1. collected = {} /\ ledger = {} /\ DOMAIN invoices = {}
  BY DEF Init
<1>2. \A p \in Procs : procs[p].at \in {"idle", "new"}
  <2>1. Resting("idle", 0).at = "idle" /\ Resting("new", 0).at = "new"
    BY Processes DEF ProcAt
  <2> QED BY <2>1 DEF Init
<1> QED BY <1>1, <1>2 DEF Books, Backing, LedgerIsBacked, Keyed, OneRecorderPerCharge, Marked,
       PaidInvoicesAreLedgered, Complete, ChargesAreRecorded, Unrecorded, Holding, Recording

LEMMA InductiveInvariant == Spec => [](TypeOK /\ Books)
<1>1. Init => TypeOK /\ Books
  BY TypeInit, BooksInit
<1>2. TypeOK /\ Books /\ [Next]_vars => (TypeOK /\ Books)'
  BY TypeStep, BooksStep
<1> QED BY <1>1, <1>2, PTL DEF Spec

(* The ledger never holds a charge Nomba did not take, whatever is lost,   *)
(* crashes or is written over: createInvoiceForCharge, createResumeInvoice *)
(* and activateAndRecord are reached with money in hand.                   *)
THEOREM LedgerBacked == Spec => []LedgerIsBacked
<1>1. TypeOK /\ Books => LedgerIsBacked
  BY DEF Books, Backing
<1> QED BY <1>1, InductiveInvariant, PTL

(* One process at a time writes the ledger for one reference: the unique   *)
(* key of invoices is enough, whatever hands a reference out twice.        *)
THEOREM OneRecorder == Spec => []OneRecorderPerCharge
<1>1. TypeOK /\ Books => OneRecorderPerCharge
  BY DEF Books, Keyed
<1> QED BY <1>1, InductiveInvariant, PTL

(* If no INSERT fails, an invoice marked paid has its ledger entry, even   *)
(* where goroutines die between the two writes.                            *)
THEOREM PaidInvoicesLedgered ==
  ASSUME WriteErrors = FALSE
  PROVE  Spec => []PaidInvoicesAreLedgered
<1>1. TypeOK /\ Books => PaidInvoicesAreLedgered
  BY DEF Books, Marked
<1> QED BY <1>1, InductiveInvariant, PTL

(* If nothing is lost and nobody dies, every charge Tori makes is in the   *)
(* ledger or carried there, in every interleaving of any number of         *)
(* handlers and requests.                                                  *)
THEOREM ChargesRecorded ==
  ASSUME InfraErrors = FALSE, WriteErrors = FALSE, MaxCrashes = 0
  PROVE  Spec => []ChargesAreRecorded
<1>1. TypeOK /\ Books => ChargesAreRecorded
  BY DEF Books, Complete, Reliable
<1> QED BY <1>1, InductiveInvariant, PTL

-----------------------------------------------------------------------------
(* The jobs of the subscription and the promise of the queue.              *)

(* What the promise of the queue is about, in the records of this module.  *)
(* A job is its place in the table.                                        *)
Places == Nat \ {0}

executing == [w \in Workers |-> procs[w].job]
settled == {i \in DOMAIN jobs : Finished(jobs[i])}
tries == [i \in Places |-> IF i \in DOMAIN jobs THEN jobs[i].attempts ELSE 0]
limit == [i \in Places |-> IF i \in DOMAIN jobs THEN jobs[i].max ELSE 0]

Queue == INSTANCE ExclusiveJobs WITH Jobs <- Places, Idle <- 0, Limits <- {1, 3}

(* A goroutine at work has a job that runs, and no other goroutine has it. *)
Owned ==
  /\ \A w \in Workers : procs[w].at = "idle" => procs[w].job = 0
  /\ \A w \in Workers : procs[w].at # "idle" =>
       procs[w].job \in DOMAIN jobs /\ jobs[procs[w].job].status = "processing"
  /\ \A w, v \in Workers : w # v /\ procs[w].at # "idle" /\ procs[v].at # "idle" =>
       procs[w].job # procs[v].job

LEMMA JobPlaces ==
  ASSUME TypeOK
  PROVE  /\ DOMAIN jobs = 1..Len(jobs) /\ Len(jobs) \in Nat /\ DOMAIN jobs \subseteq Places
         /\ \A i \in DOMAIN jobs : jobs[i] \in JobRow
BY LenProperties, ElementOfSeq DEF TypeOK, Places

(* What the statements leave alone.                                        *)
LEMMA JobCounts ==
  /\ \A job \in JobRow :
       /\ Claimed(job).status = "processing"
       /\ Claimed(job).attempts = job.attempts + 1 /\ Claimed(job).max = job.max
       /\ MarkedDone(job).status = "done" /\ MarkedFailed(job).status = "failed"
       /\ Recovered(job).status = "pending"
       /\ \A row \in {MarkedDone(job), MarkedFailed(job), Recovered(job)} :
            row.attempts = job.attempts /\ row.max = job.max
  /\ \A type \in JobTypes : /\ NewJob(type).status = "pending" /\ NewJob(type).attempts = 0
                            /\ NewJob(type).max \in {1, 3}
<1>1. \A job \in JobRow :
       /\ Claimed(job).status = "processing"
       /\ Claimed(job).attempts = job.attempts + 1 /\ Claimed(job).max = job.max
       /\ MarkedDone(job).status = "done" /\ MarkedFailed(job).status = "failed"
       /\ Recovered(job).status = "pending"
       /\ \A row \in {MarkedDone(job), MarkedFailed(job), Recovered(job)} :
            row.attempts = job.attempts /\ row.max = job.max
  BY DEF JobRow, Claimed, MarkedDone, MarkedFailed, Recovered
<1>2. \A type \in JobTypes : /\ NewJob(type).status = "pending" /\ NewJob(type).attempts = 0
                             /\ NewJob(type).max \in {1, 3}
  BY DEF NewJob
<1> QED BY <1>1, <1>2

(* What the promise sees of a statement on one row.                        *)
LEMMA OneRow ==
  ASSUME TypeOK, NEW i \in DOMAIN jobs, NEW row, jobs' = [jobs EXCEPT ![i] = row]
  PROVE  /\ DOMAIN jobs' = DOMAIN jobs /\ jobs'[i] = row
         /\ \A k \in DOMAIN jobs : k # i => jobs'[k] = jobs[k]
         /\ settled' = IF Finished(row) THEN settled \cup {i} ELSE settled \ {i}
         /\ tries' = [tries EXCEPT ![i] = row.attempts]
         /\ row.attempts = jobs[i].attempts => tries' = tries
         /\ row.max = jobs[i].max => limit' = limit
<1>1. /\ DOMAIN jobs' = DOMAIN jobs /\ jobs'[i] = row
      /\ \A k \in DOMAIN jobs : k # i => jobs'[k] = jobs[k]
  OBVIOUS
<1>2. i \in Places
  BY JobPlaces
<1>3. settled' = IF Finished(row) THEN settled \cup {i} ELSE settled \ {i}
  BY <1>1 DEF settled, Finished
<1>4. tries' = [tries EXCEPT ![i] = row.attempts]
  <2>1. \A k \in Places : tries'[k] = IF k = i THEN row.attempts ELSE tries[k]
    BY <1>1 DEF tries
  <2> QED BY <1>2, <2>1 DEF tries
<1>5. ASSUME row.attempts = jobs[i].attempts PROVE tries' = tries
  <2>1. \A k \in Places : tries'[k] = tries[k]
    BY <1>1, <1>5 DEF tries
  <2> QED BY <2>1 DEF tries
<1>6. ASSUME row.max = jobs[i].max PROVE limit' = limit
  <2>1. \A k \in Places : limit'[k] = limit[k]
    BY <1>1, <1>6 DEF limit
  <2> QED BY <2>1 DEF limit
<1> QED BY <1>1, <1>3, <1>4, <1>5, <1>6

(* A step that hands no job over, and settles none.                        *)
KeepsJobs ==
  /\ UNCHANGED jobs
  /\ \A w \in Workers : /\ procs'[w].job = procs[w].job
                        /\ procs'[w].at = "idle" <=> procs[w].at = "idle"

AsPromised == Owned' /\ [Queue!Next]_(Queue!vars)

LEMMA KeepingJobs ==
  ASSUME Owned, KeepsJobs
  PROVE  AsPromised
<1>1. Owned'
  BY DEF Owned, KeepsJobs
<1>2. UNCHANGED Queue!vars
  BY DEF Queue!vars, executing, settled, tries, limit, KeepsJobs
<1> QED BY <1>1, <1>2 DEF AsPromised

LEMMA GoingKeepsJobs ==
  ASSUME TypeOK, NEW p \in Procs, NEW at \in ProcAt \ {"idle"}, GoTo(p, at),
         procs[p].at # "idle", UNCHANGED jobs
  PROVE  KeepsJobs
BY Going DEF KeepsJobs, TypeOK, Procs

LEMMA RequestKeepsJobs ==
  ASSUME TypeOK, NEW c \in Requests, NEW process \in Proc, Put(c, process), UNCHANGED jobs
  PROVE  KeepsJobs
<1>1. \A q \in Procs : q # c => procs'[q] = procs[q]
  BY Putting DEF TypeOK, Procs
<1> QED BY <1>1, BillingAssumption DEF KeepsJobs, Procs

(* ClaimNext is a Begin of the promise.                                    *)
LEMMA StartsOne ==
  ASSUME TypeOK, Owned, NEW w \in Workers, NEW type \in JobTypes, NEW at \in ProcAt \ {"idle"},
         Start(w, type, at)
  PROVE  AsPromised
<1>1. PICK i \in DOMAIN jobs : /\ Claimable(jobs[i])
                               /\ jobs' = [jobs EXCEPT ![i] = Claimed(jobs[i])]
                               /\ Put(w, Process(at, type, i, sub, NoRef))
  BY DEF Start
<1>2. i \in Places /\ i \in Nat /\ i # 0 /\ jobs[i] \in JobRow
  BY JobPlaces DEF Places
<1>3. /\ procs'[w].at = at /\ procs'[w].job = i
      /\ \A q \in Procs : q # w => procs'[q] = procs[q]
  <2>1. /\ Process(at, type, i, sub, NoRef) \in Proc
        /\ Process(at, type, i, sub, NoRef).at = at /\ Process(at, type, i, sub, NoRef).job = i
    BY <1>2, Processes, References DEF TypeOK
  <2> QED BY <1>1, <2>1, Putting DEF TypeOK, Procs
<1>4. /\ jobs'[i].status = "processing" /\ jobs'[i].attempts = jobs[i].attempts + 1
      /\ jobs'[i].max = jobs[i].max
      /\ DOMAIN jobs' = DOMAIN jobs /\ \A k \in DOMAIN jobs : k # i => jobs'[k] = jobs[k]
  BY <1>1, <1>2, OneRow, JobCounts
<1>5. jobs[i].status = "pending" /\ jobs[i].attempts < jobs[i].max /\ procs[w].at = "idle"
  BY <1>1 DEF Claimable, Start
<1>6. \A v \in Workers : procs[v].job # i
  BY <1>2, <1>5 DEF Owned
<1>7. Owned'
  <2>1. \A v \in Workers : v # w => procs'[v] = procs[v]
    BY <1>3 DEF Procs
  <2> QED BY <1>3, <1>4, <1>6, <2>1 DEF Owned
<1>8. executing[w] = 0 /\ \A v \in Workers : executing[v] # i
  BY <1>5, <1>6 DEF executing, Owned
<1>9. i \notin settled /\ tries[i] < limit[i]
  BY <1>2, <1>5 DEF settled, Finished, tries, limit
<1>10. executing' = [executing EXCEPT ![w] = i]
  <2>1. \A v \in Workers : executing'[v] = IF v = w THEN i ELSE executing[v]
    BY <1>3 DEF executing, Procs
  <2> QED BY <2>1 DEF executing
<1>11. tries' = [tries EXCEPT ![i] = @ + 1] /\ limit' = limit /\ settled' = settled
  <2>1. Claimed(jobs[i]).attempts = jobs[i].attempts + 1 /\ Claimed(jobs[i]).max = jobs[i].max
        /\ ~Finished(Claimed(jobs[i]))
    BY <1>2, JobCounts DEF Finished
  <2>2. tries' = [tries EXCEPT ![i] = Claimed(jobs[i]).attempts] /\ tries[i] = jobs[i].attempts
    BY <1>1, <1>2, OneRow DEF tries
  <2>3. limit' = limit /\ settled' = settled \ {i}
    BY <1>1, <2>1, OneRow
  <2> QED BY <1>9, <2>1, <2>2, <2>3
<1>12. Queue!Begin(w, i)
  BY <1>8, <1>9, <1>10, <1>11 DEF Queue!Begin
<1> QED BY <1>2, <1>7, <1>12 DEF AsPromised, Queue!Next

(* CreateJob is a Submit.                                                  *)
LEMMA QueuesOne ==
  ASSUME TypeOK, Owned, NEW p \in Procs, NEW at \in ProcAt \ {"idle"}, NEW type \in JobTypes,
         QueueJob(p, at, type)
  PROVE  AsPromised
<1> DEFINE i == Len(jobs) + 1
<1>1. /\ i \in Places /\ i \notin DOMAIN jobs /\ DOMAIN jobs' = DOMAIN jobs \cup {i}
      /\ jobs'[i] = NewJob(type) /\ \A k \in DOMAIN jobs : jobs'[k] = jobs[k]
  <2>1. jobs \in Seq(JobRow) /\ NewJob(type) \in JobRow /\ jobs' = Append(jobs, NewJob(type))
    BY JobRows DEF TypeOK, QueueJob
  <2>2. /\ Len(jobs') = Len(jobs) + 1 /\ DOMAIN jobs' = 1..Len(jobs')
        /\ jobs'[Len(jobs) + 1] = NewJob(type)
        /\ \A k \in 1..Len(jobs) : jobs'[k] = jobs[k]
    BY <2>1, AppendProperties, LenProperties
  <2> QED BY <2>2, JobPlaces DEF Places
<1> HIDE DEF i
<1>2. \A w \in Workers : /\ procs'[w].job = procs[w].job
                         /\ procs'[w].at = "idle" <=> procs[w].at = "idle"
  BY Going DEF QueueJob, TypeOK, Procs, Finishing, ProcAt
<1>3. Owned'
  BY <1>1, <1>2 DEF Owned
<1>4. executing' = executing
  BY <1>2 DEF executing
<1>5. settled' = settled /\ tries' = tries
  <2>1. NewJob(type).status = "pending" /\ NewJob(type).attempts = 0
    BY JobCounts
  <2>2. settled' = settled
    BY <1>1, <2>1 DEF settled, Finished
  <2>3. \A k \in Places : tries'[k] = tries[k]
    BY <1>1, <2>1 DEF tries
  <2> QED BY <2>2, <2>3 DEF tries
<1>6. limit[i] = 0 /\ \E n \in {1, 3} : limit' = [limit EXCEPT ![i] = n]
  <2>1. NewJob(type).max \in {1, 3}
    BY JobCounts
  <2>2. \A k \in Places : limit'[k] = IF k = i THEN NewJob(type).max ELSE limit[k]
    BY <1>1 DEF limit
  <2> QED BY <1>1, <2>1, <2>2 DEF limit
<1>7. Queue!Submit(i)
  BY <1>4, <1>5, <1>6 DEF Queue!Submit
<1> QED BY <1>1, <1>3, <1>7 DEF AsPromised, Queue!Next

(* MarkJobDone and MarkJobFailed are a Settle.                             *)
LEMMA SettlesOne ==
  ASSUME TypeOK, Owned, NEW w \in Workers, Finish(w)
  PROVE  AsPromised
<1> DEFINE i == procs[w].job
<1>1. procs[w].at # "idle" /\ procs' = [procs EXCEPT ![w] = Resting("idle", 0)]
  BY DEF Finish
<1>2. i \in DOMAIN jobs /\ jobs[i].status = "processing" /\ jobs[i] \in JobRow /\ i \in Places
  BY <1>1, JobPlaces DEF Owned
<1>3. PICK row \in {MarkedDone(jobs[i]), MarkedFailed(jobs[i])} : jobs' = [jobs EXCEPT ![i] = row]
  BY DEF Finish
<1>4. Finished(row) /\ row.attempts = jobs[i].attempts /\ row.max = jobs[i].max
  <2>1. row.status \in {"done", "failed"}
    BY <1>2, <1>3, JobCounts
  <2>2. row.attempts = jobs[i].attempts /\ row.max = jobs[i].max
    BY <1>2, <1>3, JobCounts
  <2> QED BY <2>1, <2>2 DEF Finished
<1>5. /\ settled' = settled \cup {i} /\ tries' = tries /\ limit' = limit
      /\ DOMAIN jobs' = DOMAIN jobs /\ \A k \in DOMAIN jobs : k # i => jobs'[k] = jobs[k]
  BY <1>2, <1>3, <1>4, OneRow
<1>6. /\ procs'[w].at = "idle" /\ procs'[w].job = 0
      /\ \A v \in Workers : v # w => procs'[v] = procs[v]
  BY <1>1 DEF Resting, Process, TypeOK, Procs
<1>7. Owned'
  BY <1>1, <1>5, <1>6 DEF Owned
<1>8. executing[w] = i /\ i # 0
  BY <1>2 DEF executing, Places
<1>9. executing' = [executing EXCEPT ![w] = 0]
  <2>1. \A v \in Workers : executing'[v] = IF v = w THEN 0 ELSE executing[v]
    BY <1>6 DEF executing
  <2> QED BY <2>1 DEF executing
<1>10. Queue!Settle(w)
  BY <1>5, <1>8, <1>9 DEF Queue!Settle
<1> QED BY <1>7, <1>10 DEF AsPromised, Queue!Next

(* RecoverStaleLocks is not seen: the job was not executed any more.       *)
LEMMA SweepsOne ==
  ASSUME TypeOK, Owned, NEW i \in DOMAIN jobs, RecoverStaleLock(i)
  PROVE  AsPromised
<1>1. /\ jobs[i].status = "processing" /\ jobs' = [jobs EXCEPT ![i] = Recovered(jobs[i])]
      /\ \A w \in Workers : procs[w].job # i
      /\ UNCHANGED procs
  BY DEF RecoverStaleLock, Recoverable
<1>2. /\ Recovered(jobs[i]).attempts = jobs[i].attempts /\ Recovered(jobs[i]).max = jobs[i].max
      /\ ~Finished(Recovered(jobs[i]))
  BY JobPlaces, JobCounts DEF Finished
<1>3. /\ settled' = settled \ {i} /\ tries' = tries /\ limit' = limit
      /\ DOMAIN jobs' = DOMAIN jobs /\ \A k \in DOMAIN jobs : k # i => jobs'[k] = jobs[k]
  BY <1>1, <1>2, OneRow
<1>4. settled' = settled /\ executing' = executing
  BY <1>1, <1>3 DEF settled, Finished, executing
<1>5. Owned'
  BY <1>1, <1>3 DEF Owned
<1> QED BY <1>3, <1>4, <1>5 DEF AsPromised, Queue!vars

(* The death of the worker process is a Vanish.                            *)
LEMMA CrashVanishes ==
  ASSUME TypeOK, Owned, Crash
  PROVE  AsPromised
<1>1. \A w \in Workers : procs'[w].at = "idle" /\ procs'[w].job = 0
  BY DEF Crash, Resting, Process, Procs
<1>2. UNCHANGED jobs
  BY DEF Crash
<1>3. Owned'
  BY <1>1 DEF Owned
<1>4. executing' = [w \in Workers |-> IF w \in Workers THEN 0 ELSE executing[w]]
  BY <1>1 DEF executing
<1>5. settled' = settled /\ tries' = tries /\ limit' = limit
  BY <1>2 DEF settled, tries, limit
<1>6. Queue!Vanish(Workers)
  BY <1>4, <1>5 DEF Queue!Vanish
<1> QED BY <1>3, <1>6 DEF AsPromised, Queue!Next

(* Every step of Billing is one the promise allows, or none of its own.    *)
LEMMA HandlerAsPromised ==
  ASSUME TypeOK, Owned, NEW w \in Workers, Handler(w)
  PROVE  AsPromised
<1> USE DEF ProcAt
<1>0. w \in Procs
  BY DEF Procs
<1>1. CASE ExpireTrial(w) \/ RetryFailedPayment(w) \/ CancelAtPeriodEnd(w) \/ CheckAbandonedCheckouts(w)
  <2>1. PICK type \in JobTypes, at \in ProcAt \ {"idle"} : Start(w, type, at)
    BY <1>1 DEF ExpireTrial, TrialStep, RetryFailedPayment, CancelAtPeriodEnd,
                CheckAbandonedCheckouts, JobTypes
  <2> QED BY <2>1, StartsOne
<1>2. ASSUME NEW at \in ProcAt \ {"idle"}, GoTo(w, at), procs[w].at # "idle", UNCHANGED jobs
      PROVE  AsPromised
  BY <1>0, <1>2, GoingKeepsJobs, KeepingJobs
<1>3. CASE ClaimDunningAttempt(w)
  BY <1>2, <1>3 DEF ClaimDunningAttempt
<1>4. CASE ActionRequired(w)
  BY <1>2, <1>4 DEF ActionRequired, AfterDecline
<1>5. CASE EnterGrace(w) \/ UpdateDunning(w) \/ Suspend(w)
  BY <1>2, <1>5 DEF EnterGrace, UpdateDunning, Suspend, Write
<1> QED BY <1>1, <1>3, <1>4, <1>5, SettlesOne DEF Handler

LEMMA ArrivalAsPromised ==
  ASSUME TypeOK, Owned, NEW c \in Requests, Arrival(c)
  PROVE  AsPromised
<1>0. /\ sub \in Row /\ NoRef \in Refs /\ CheckoutRef \in Refs /\ 0 \in Nat
  BY References DEF TypeOK
<1>1. ASSUME NEW op \in RequestOps, NEW at \in ProcAt, NEW ref \in Refs,
             Put(c, Process(at, op, 0, sub, ref)), UNCHANGED jobs
      PROVE  AsPromised
  <2>1. Process(at, op, 0, sub, ref) \in Proc
    BY <1>0, Processes
  <2> QED BY <1>1, <2>1, RequestKeepsJobs, KeepingJobs
<1>2. CASE Cancel(c) \/ PortalCancel(c) \/ Pause(c) \/ Resume(c) \/ PortalResume(c)
             \/ Recover(c) \/ RetryNow(c) \/ PaymentFailed(c)
  BY <1>0, <1>1, <1>2 DEF Cancel, PortalCancel, Pause, Resume, PortalResume, Recover,
                    RetryNow, PaymentFailed, Request, RequestOps, ProcAt
<1>3. CASE RegenerateCheckout(c) \/ UpdatePaymentMethod(c)
  BY <1>0, <1>1, <1>3 DEF RegenerateCheckout, UpdatePaymentMethod, NewLink, RequestOps, ProcAt
<1>4. CASE PaymentSuccess(c)
  BY <1>0, <1>1, <1>4 DEF PaymentSuccess, AfterPayment, RequestOps, ProcAt
<1> QED BY <1>2, <1>3, <1>4 DEF Arrival

LEMMA ServingAsPromised ==
  ASSUME TypeOK, Owned, NEW c \in Requests, Serving(c)
  PROVE  AsPromised
<1> USE DEF ProcAt
<1>0. c \in Procs
  BY DEF Procs
<1>1. ASSUME NEW at \in ProcAt \ {"idle"}, GoTo(c, at), procs[c].at # "idle", UNCHANGED jobs
      PROVE  AsPromised
  BY <1>0, <1>1, GoingKeepsJobs, KeepingJobs
<1>2. CASE ResumeForward(c) \/ FlagCancel(c) \/ PauseRow(c)
  BY <1>1, <1>2 DEF ResumeForward, FlagCancel, PauseRow, Write
<1>3. CASE ResumeRow(c)
  BY <1>1, <1>3 DEF ResumeRow, Write
<1>4. CASE UpdateTokenKey(c)
  BY <1>1, <1>4 DEF UpdateTokenKey, Write, AfterPayment
<1>5. CASE QueueCancel(c)
  BY <1>0, <1>5, QueuesOne DEF QueueCancel, JobTypes
<1> QED BY <1>2, <1>3, <1>4, <1>5 DEF Serving

LEMMA EitherAsPromised ==
  ASSUME TypeOK, Owned, NEW p \in Procs, Either(p)
  PROVE  AsPromised
<1> USE DEF ProcAt
<1>1. ASSUME NEW at \in ProcAt \ {"idle"}, GoTo(p, at), procs[p].at # "idle", UNCHANGED jobs
      PROVE  AsPromised
  BY <1>1, GoingKeepsJobs, KeepingJobs
<1>2. CASE Lapse(p) \/ Renew(p) \/ CancelNow(p)
  BY <1>1, <1>2 DEF Lapse, Renew, CancelNow, Write, Finishing
<1>3. CASE QueueRetry(p)
  BY <1>3, QueuesOne DEF QueueRetry, JobTypes
<1>4. CASE ChargeAccepted(p)
  <2> DEFINE at == IF procs[p].op = "resume" THEN "invoice" ELSE "renew"
  <2>1. PICK ref \in ChargeRefs(p) : Put(p, [procs[p] EXCEPT !.at = at, !.ref = ref])
    BY <1>4 DEF ChargeAccepted
  <2> DEFINE process == [procs[p] EXCEPT !.at = at, !.ref = ref]
  <2>2. process \in Proc /\ process.at = at /\ at # "idle" /\ process.job = procs[p].job
    BY ChargeRefTypes DEF Proc, TypeOK
  <2>3. Put(p, process)
    BY <2>1
  <2> HIDE DEF process, at
  <2>4. procs[p].at = "charge" /\ UNCHANGED jobs
    BY <1>4 DEF ChargeAccepted
  <2>5. /\ procs'[p].at # "idle" /\ procs'[p].job = procs[p].job
        /\ \A q \in Procs : q # p => procs'[q] = procs[q]
    BY <2>2, <2>3, Putting DEF TypeOK
  <2>6. KeepsJobs
    BY <2>4, <2>5 DEF KeepsJobs, Procs
  <2> QED BY <2>6, KeepingJobs
<1>5. CASE ChargeDeclined(p)
  BY <1>1, <1>5 DEF ChargeDeclined, AfterDecline
<1>6. CASE ChargeUnanswered(p)
  BY <1>1, <1>6 DEF ChargeUnanswered
<1>7. CASE CreateInvoice(p)
  BY <1>1, <1>7 DEF CreateInvoice, Finishing
<1>8. CASE RecordCharge(p)
  BY <1>1, <1>8 DEF RecordCharge
<1>9. CASE MarkPaid(p)
  BY <1>1, <1>9 DEF MarkPaid, Finishing
<1> QED BY <1>2, <1>3, <1>4, <1>5, <1>6, <1>7, <1>8, <1>9 DEF Either

LEMMA StepAsPromised ==
  ASSUME TypeOK, Owned, [Next]_vars
  PROVE  AsPromised
<1>1. CASE UNCHANGED vars
  BY <1>1, KeepingJobs DEF vars, KeepsJobs
<1> QED BY <1>1, HandlerAsPromised, ArrivalAsPromised, ServingAsPromised, EitherAsPromised,
           SweepsOne, CrashVanishes DEF Next

(* The jobs there are at first were submitted before, and not begun.       *)
JobsAwait ==
  /\ executing = [w \in Workers |-> 0]
  /\ settled = {}
  /\ tries = [i \in Places |-> 0]
  /\ limit \in [Places -> {0, 1, 3}]

LEMMA AwaitInit == Init => Owned /\ JobsAwait
<1> SUFFICES ASSUME Init PROVE Owned /\ JobsAwait
  OBVIOUS
<1>1. PICK s \in Starts : jobs = [i \in 1..Len(s.jobs) |-> NewJob(s.jobs[i])]
  BY DEF Init
<1>2. \A i \in DOMAIN jobs : /\ jobs[i].status = "pending" /\ jobs[i].attempts = 0
                             /\ jobs[i].max \in {1, 3}
  <2>1. s \in [status : Statuses, card : BOOLEAN, jobs : Seq(JobTypes), links : SUBSET Links]
    BY BillingAssumption
  <2>2. \A i \in 1..Len(s.jobs) : s.jobs[i] \in JobTypes
    BY <2>1, ElementOfSeq
  <2> QED BY <1>1, <2>2, JobCounts
<1>3. \A w \in Workers : procs[w].at = "idle" /\ procs[w].job = 0
  BY DEF Init, Resting, Process, Procs
<1> QED BY <1>2, <1>3 DEF Owned, JobsAwait, executing, settled, tries, limit, Finished

(* Seen from the handlers of a subscription its jobs behave as             *)
(* ExclusiveJobs says, which JobQueue is proved to do for the whole table: *)
(* one goroutine at a time runs a job, at most one or three do, and none   *)
(* after it was marked, however many jobs are queued while others run and  *)
(* however often the worker process dies.                                  *)
THEOREM JobsAsPromised == Spec => JobsAwait /\ [][Queue!Next]_(Queue!vars)
<1>1. TypeOK /\ Owned /\ [Next]_vars => Owned' /\ [Queue!Next]_(Queue!vars)
  BY StepAsPromised DEF AsPromised
<1> QED BY <1>1, AwaitInit, TypeCorrect, PTL DEF Spec

=============================================================================
