------------------------------ MODULE Billing ------------------------------
(***************************************************************************)
(* One subscription and everything that writes to it: the job handlers of  *)
(* internal/billing on the worker pool, the merchant API and the customer  *)
(* portal, and the inbound Nomba webhook.  Each of them reads the row,     *)
(* decides on what it read, calls Nomba, and writes without looking again; *)
(* between any two of these steps the others run.                          *)
(*                                                                         *)
(* A process of the model is a worker goroutine or one HTTP request.  Its  *)
(* at names the call it is about to make.                                  *)
(*                                                                         *)
(* External, and modelled at its best: Nomba takes money once per order    *)
(* reference, and says so again when it is asked again.                    *)
(***************************************************************************)
EXTENDS Subscriptions, Dunning, ScheduledJobs, Sequences

CONSTANTS
  Workers,      \* goroutines of the worker process
  Requests,     \* HTTP requests, each served once
  Ops,          \* what the requests may ask for
  JobSlots,     \* bound: how many jobs are ever enqueued
  Starts,       \* how the row, its jobs and its links may be at first
  HasMandate, HasWallet,  \* the other rails on file
  InfraErrors,  \* calls to Nomba may go unanswered
  WriteErrors,  \* an INSERT of an invoice or a ledger entry may fail
  MaxCrashes    \* bound: how many times the worker process dies

RequestOps == {"cancel_now", "cancel", "portal_cancel", "pause", "resume", "portal_resume",
               "recover", "retry_now", "regenerate_checkout", "update_card",
               "payment_success", "payment_failed"}

JobTypes == {"expire_trial", "retry_failed_payment", "cancel_at_period_end",
             "checkout_abandoned"}

(* A checkout link asks for the price, or for a naira that verifies a card. *)
Links == {"price", "verification"}

ASSUME BillingAssumption ==
  /\ Workers \cap Requests = {}
  /\ Ops \subseteq RequestOps
  /\ JobSlots \in Nat
  /\ Starts \subseteq [status : Statuses, card : BOOLEAN, jobs : Seq(JobTypes), links : SUBSET Links]
  /\ HasMandate \in BOOLEAN /\ HasWallet \in BOOLEAN
  /\ InfraErrors \in BOOLEAN /\ WriteErrors \in BOOLEAN
  /\ MaxCrashes \in Nat

VARIABLES
  sub,        \* the row of subscriptions
  jobs,       \* its rows of scheduled_jobs, oldest first
  procs,      \* where each goroutine and request is
  links,      \* the checkout links the customer holds
  collected,  \* order references Nomba has taken money for
  answered,   \* <<dunning attempt, answer>>: what the ladder heard
  invoices,   \* rows of invoices: reference -> "open" or "paid"
  ledger,     \* references with a CHARGE entry in ledger_entries
  crashes

vars == <<sub, jobs, procs, links, collected, answered, invoices, ledger, crashes>>
money == <<collected, answered, invoices, ledger>>

Procs == Workers \cup Requests

(* Order references: trial-charge-<sub>, retry-card-<sub>-<n> and its      *)
(* siblings, resume-charge-<sub>, and the bare <sub> of a checkout and of  *)
(* a verification, told apart here.  The idempotency keys of invoices and  *)
(* ledger entries are functions of them.                                   *)
Rails == {"trial", "card", "mandate", "wallet", "manual", "resume", "checkout", "verification"}
Refs == [rail : Rails, n : Nat]
Ref(rail, n) == [rail |-> rail, n |-> n]
NoRef == Ref("manual", 0)

(* What Tori itself asks Nomba for; customers pay on a link.               *)
ToriCharges == {r \in Refs : r.rail \notin {"checkout", "verification"}}

CheckoutRef == Ref("checkout", 0)
Verification == Ref("verification", 0)

JobRow == [type : JobTypes, status : JobStatuses, attempts : Nat, max : Nat]

NewJob(type) ==
  [type |-> type, status |-> "pending", attempts |-> 0,
   max |-> IF type = "checkout_abandoned" THEN 1 ELSE 3]

NewRow(status, card) ==
  [status |-> status, attempt |-> 0, cancelling |-> FALSE, card |-> card]

(* job: an index into jobs, 0 for a request.  seen: the row as it was      *)
(* read.                                                                   *)
Process(at, op, job, seen, ref) ==
  [at |-> at, op |-> op, job |-> job, seen |-> seen, ref |-> ref]

NoRow == NewRow("CANCELLED", FALSE)

Resting(at, job) == Process(at, "none", job, NoRow, NoRef)

Init ==
  /\ \E s \in Starts :
       /\ sub = NewRow(s.status, s.card)
       /\ jobs = [i \in 1..Len(s.jobs) |-> NewJob(s.jobs[i])]
       /\ links = s.links
  /\ procs = [p \in Procs |-> Resting(IF p \in Workers THEN "idle" ELSE "new", 0)]
  /\ collected = {} /\ answered = {} /\ ledger = {}
  /\ invoices = [ref \in {} |-> "open"]
  /\ crashes = 0

-----------------------------------------------------------------------------
(* Moving a process.                                                       *)

(* Where a process will look again at the row it read.  Elsewhere it is    *)
(* forgotten, and a process that returned forgets everything.              *)
Remembering == {"take_attempt", "charge", "dun", "resume", "store_card"}

Kept(process) ==
  CASE process.at \in {"succeed", "fail", "over"} -> Resting(process.at, process.job)
    [] process.at \in Remembering -> process
    [] OTHER -> [process EXCEPT !.seen = NoRow]

Put(p, process) == procs' = [procs EXCEPT ![p] = Kept(process)]

GoTo(p, at) == Put(p, [procs[p] EXCEPT !.at = at])

(* The handler returns: a job will be marked, a response was sent.         *)
Finishing(p) == IF p \in Workers THEN "succeed" ELSE "over"

(* One UPDATE of the row. *)
Write(p, at, row, next) ==
  /\ procs[p].at = at
  /\ sub' = row
  /\ GoTo(p, next)
  /\ UNCHANGED <<jobs, links, money, crashes>>

-----------------------------------------------------------------------------
(* Job handlers, up to their first call: ClaimNext, then GetByID.  Nothing *)
(* of a claimed row matters to other processes, so the two are one step.   *)

Start(w, type, at) ==
  /\ procs[w].at = "idle"
  /\ \E i \in DOMAIN jobs :
       /\ jobs[i].type = type /\ Claimable(jobs[i])
       /\ jobs' = [jobs EXCEPT ![i] = Claimed(@)]
       /\ Put(w, Process(at, type, i, sub, NoRef))
  /\ UNCHANGED <<sub, links, money, crashes>>

TrialStep(row) ==
  IF row.status # "TRIALING" THEN "succeed" ELSE IF row.card THEN "charge" ELSE "lapse"

ExpireTrial(w) == Start(w, "expire_trial", TrialStep(sub))

(* Mutant: only a recovery is a reason to stop.                            *)
WantsRetryUnlessActive(row) == row.status # "ACTIVE"

(* Neither recovered meanwhile nor being cancelled. *)
WantsRetry(row) == row.status \in {"DUNNING", "PAST_DUE"} /\ ~row.cancelling

RetryFailedPayment(w) ==
  Start(w, "retry_failed_payment", IF WantsRetry(sub) THEN "take_attempt" ELSE "succeed")

CancelAtPeriodEnd(w) ==
  Start(w, "cancel_at_period_end", IF sub.cancelling THEN "cancel" ELSE "succeed")

(* The cut-off ages are the order of this step among the others. *)
IsAbandoned(row) == ~row.card /\ row.status \in {"PENDING_PAYMENT", "TRIALING"}

CheckAbandonedCheckouts(w) ==
  Start(w, "checkout_abandoned", IF IsAbandoned(sub) THEN "lapse" ELSE "succeed")

-----------------------------------------------------------------------------
(* Requests, up to their first write: GetByID, then Transition.            *)

Request(c, op, at) ==
  /\ op \in Ops
  /\ procs[c].at = "new"
  /\ Put(c, Process(at, op, 0, sub, NoRef))
  /\ UNCHANGED <<sub, jobs, links, money, crashes>>

Cancel(c) ==
  /\ Permits(sub.status, "customer_cancelled")
  /\ \/ Request(c, "cancel_now", "cancel")
     \/ Request(c, "cancel", "flag")

PortalCancel(c) ==
  /\ Permits(sub.status, "customer_cancelled")
  /\ Request(c, "portal_cancel", "flag")

Pause(c) ==
  /\ Permits(sub.status, "customer_paused")
  /\ Request(c, "pause", "pause")

Resume(c) ==
  /\ Permits(sub.status, "customer_resumed")
  /\ Request(c, "resume", "resume")

PortalResume(c) ==
  /\ Permits(sub.status, "customer_resumed")
  /\ Request(c, "portal_resume", "resume")

Recover(c) ==
  /\ Permits(sub.status, "manual_recovery")
  /\ Request(c, "recover", "recover")

(* RetryNow looks at no status. *)
RetryNow(c) == Request(c, "retry_now", "queue_retry")

(* A new checkout link, with the id of the subscription for its reference. *)
NewLink(c, op, kind) ==
  /\ op \in Ops
  /\ procs[c].at = "new"
  /\ links' = links \cup {kind}
  /\ Put(c, Process("over", op, 0, sub, NoRef))
  /\ UNCHANGED <<sub, jobs, money, crashes>>

RegenerateCheckout(c) ==
  /\ ~sub.card
  /\ sub.status \notin {"CANCELLED", "SUSPENDED"}
  /\ NewLink(c, "regenerate_checkout",
             IF sub.status = "TRIALING" THEN "verification" ELSE "price")

UpdatePaymentMethod(c) ==
  sub.status # "CANCELLED" /\ NewLink(c, "update_card", "verification")

(* Mutant: the naira of a trial activates it.                              *)
ActivatesOnTrial(row) == row.status \in {"PENDING_PAYMENT", "TRIALING"}

ActivatesOn(row) == row.status = "PENDING_PAYMENT"

AfterPayment(row) == IF ActivatesOn(row) THEN "renew" ELSE "over"

(* The customer pays on a link he holds, by card or by transfer, and       *)
(* handlePaymentSuccess reads the row.  The webhook does not say what the  *)
(* link was for: every payment is handled as that of the checkout.         *)
PaymentSuccess(c) ==
  /\ "payment_success" \in Ops
  /\ procs[c].at = "new"
  /\ \E at \in {"store_card", AfterPayment(sub)} :
       Put(c, Process(at, "payment_success", 0, sub, CheckoutRef))
  /\ \E kind \in links :
       collected' = collected \cup {IF kind = "price" THEN CheckoutRef ELSE Verification}
  /\ UNCHANGED <<sub, jobs, links, answered, invoices, ledger, crashes>>

PaymentFailed(c) ==
  /\ sub.status = "PENDING_PAYMENT"
  /\ Request(c, "payment_failed", "lapse")

-----------------------------------------------------------------------------
(* Writes to the row, each on what the process read before.                *)

(* UpdateStatus(PAST_DUE): a lapsed trial, checkout, or first payment.     *)
Lapse(p) ==
  Write(p, "lapse", WithStatus(sub, "PAST_DUE"),
        IF procs[p].op = "expire_trial" THEN "succeed" ELSE "queue_retry")

(* Of two workers that read the same attempt one goes on. *)
ClaimDunningAttempt(w) ==
  /\ procs[w].at = "take_attempt"
  /\ IF AttemptIsFree(sub, procs[w].seen.attempt)
     THEN sub' = AttemptTaken(sub) /\ GoTo(w, "charge")
     ELSE UNCHANGED sub /\ GoTo(w, "succeed")
  /\ UNCHANGED <<jobs, links, money, crashes>>

(* UpdateAfterRenewal and ResumeForward, after money was taken. *)
Renew(p) == Write(p, "renew", Renewed(sub), "invoice")

ResumeForward(c) == Write(c, "recover", Renewed(sub), "over")

EnterGrace(w) == Write(w, "grace", WithDunning(sub, "GRACE_PERIOD", 0), "succeed")

DunningStep(p, retriable) == Decide(procs[p].seen.status, procs[p].seen.attempt, retriable)

UpdateDunning(w) ==
  Write(w, "dun", WithDunning(sub, "DUNNING", DunningStep(w, TRUE).attempt), "succeed")

Suspend(w) == Write(w, "suspend", WithStatus(sub, "SUSPENDED"), "succeed")

CancelNow(p) == Write(p, "cancel", Cancelled(sub), Finishing(p))

FlagCancel(c) ==
  Write(c, "flag", Cancelling(sub),
        IF procs[c].op = "cancel" THEN "queue_cancel" ELSE "over")

PauseRow(c) == Write(c, "pause", Paused(sub), "over")

(* The portal does not charge, and neither does a resume whose pause       *)
(* credit covers the price.                                                *)
ResumeRow(c) ==
  \/ Write(c, "resume", Resumed(sub), "over")
  \/ /\ procs[c].op = "resume" /\ procs[c].seen.card
     /\ Write(c, "resume", Resumed(sub), "charge")

UpdateTokenKey(c) == Write(c, "store_card", WithCard(sub), AfterPayment(procs[c].seen))

-----------------------------------------------------------------------------
(* Charges.                                                                *)

(* attemptRecoveryCharge: the wallet if its balance suffices, then by the  *)
(* number of the attempt.                                                  *)
LadderRail(row) ==
  LET attempt == row.attempt + 1
  IN  IF attempt <= 2 /\ row.card THEN "card"
      ELSE IF attempt >= 3 /\ HasMandate THEN "mandate"
      ELSE IF row.card THEN "card"
      ELSE "manual"

RetryRails(row) == {LadderRail(row)} \cup (IF HasWallet THEN {"wallet"} ELSE {})

ChargeRefs(p) ==
  CASE procs[p].op = "expire_trial" -> {Ref("trial", 0)}
    [] procs[p].op = "resume" -> {Ref("resume", 0)}
    [] OTHER -> {Ref(rail, procs[p].seen.attempt + 1) : rail \in RetryRails(procs[p].seen)}

Hears(p, answer) ==
  answered' = IF procs[p].op = "retry_failed_payment"
              THEN answered \cup {<<procs[p].seen.attempt + 1, answer>>} ELSE answered

(* The manual rail asks nobody and never succeeds.                         *)
ChargeAccepted(p) ==
  /\ procs[p].at = "charge"
  /\ \E ref \in ChargeRefs(p) :
       /\ ref.rail # "manual"
       /\ collected' = collected \cup {ref}
       /\ Put(p, [procs[p] EXCEPT
                    !.at = IF procs[p].op = "resume" THEN "invoice" ELSE "renew",
                    !.ref = ref])
  /\ Hears(p, "accepted")
  /\ UNCHANGED <<sub, jobs, links, invoices, ledger, crashes>>

(* Mutant: ExpireTrial does not look at result.Success.                    *)
AfterDeclineOfTrial(p, retriable) ==
  IF procs[p].op = "expire_trial" THEN "renew" ELSE "over"

AfterDecline(p, retriable) ==
  CASE procs[p].op = "expire_trial" -> "grace"
    [] procs[p].op = "resume" -> "over"
    [] OTHER -> IF DunningStep(p, retriable).retry THEN "dun" ELSE "suspend"

ChargeDeclined(p) ==
  /\ procs[p].at = "charge"
  /\ \E ref \in ChargeRefs(p), retriable \in BOOLEAN :
       /\ ref.rail # "manual" /\ ref \notin collected
       /\ Hears(p, IF retriable THEN "declined" ELSE "refused")
       /\ GoTo(p, AfterDecline(p, retriable))
  /\ UNCHANGED <<sub, jobs, links, collected, invoices, ledger, crashes>>

(* No rail left: firePaymentActionRequired sends the customer a pay link,  *)
(* if Nomba makes one, and the attempt counts as a retriable decline.      *)
ActionRequired(w) ==
  /\ procs[w].at = "charge"
  /\ \E ref \in ChargeRefs(w) : ref.rail = "manual"
  /\ links' \in {links, links \cup {"price"}}
  /\ Hears(w, "declined")
  /\ GoTo(w, AfterDecline(w, TRUE))
  /\ UNCHANGED <<sub, jobs, collected, invoices, ledger, crashes>>

(* The request or its response is lost: the money may have been taken.     *)
ChargeUnanswered(p) ==
  /\ InfraErrors
  /\ procs[p].at = "charge"
  /\ \E ref \in ChargeRefs(p) :
       /\ ref.rail # "manual"
       /\ collected' \in {collected, collected \cup {ref}}
  /\ GoTo(p, IF p \in Workers THEN "fail" ELSE "over")
  /\ UNCHANGED <<sub, jobs, links, answered, invoices, ledger, crashes>>

-----------------------------------------------------------------------------
(* createInvoiceForCharge, createResumeInvoice and activateAndRecord: an   *)
(* invoice, a ledger entry and the mark on the invoice, in three calls.    *)
(* Their errors are logged: only that of the first step ends the sequence. *)

(* Mutants: the key is not unique; it leaves out the charge.               *)
InvoiceNeverExists(ref) == FALSE
InvoiceExistsForSubscription(ref) == DOMAIN invoices # {}

(* invoices.idempotency_key is UNIQUE.                                     *)
InvoiceExists(ref) == ref \in DOMAIN invoices

(* Mutant: the invoice is created as paid.                                 *)
CreatePaidInvoice(p) ==
  /\ procs[p].at = "invoice"
  /\ invoices' = [ref \in DOMAIN invoices \cup {procs[p].ref} |-> "paid"]
  /\ GoTo(p, "ledger")
  /\ UNCHANGED <<sub, jobs, links, collected, answered, ledger, crashes>>

CreateInvoice(p) ==
  /\ procs[p].at = "invoice"
  /\ \/ /\ ~InvoiceExists(procs[p].ref)
        /\ invoices' = [ref \in DOMAIN invoices \cup {procs[p].ref} |->
                          IF InvoiceExists(ref) THEN invoices[ref] ELSE "open"]
        /\ GoTo(p, "ledger")
     \/ /\ InvoiceExists(procs[p].ref) \/ WriteErrors
        /\ GoTo(p, Finishing(p))
        /\ UNCHANGED invoices
  /\ UNCHANGED <<sub, jobs, links, collected, answered, ledger, crashes>>

(* Mutant: the ledger entry is forgotten.                                  *)
RecordNothing(p) ==
  /\ procs[p].at = "ledger"
  /\ GoTo(p, "mark_paid")
  /\ UNCHANGED <<sub, jobs, links, money, crashes>>

RecordCharge(p) ==
  /\ procs[p].at = "ledger"
  /\ \/ ledger' = ledger \cup {procs[p].ref}
     \/ WriteErrors /\ UNCHANGED ledger
  /\ GoTo(p, "mark_paid")
  /\ UNCHANGED <<sub, jobs, links, collected, answered, invoices, crashes>>

MarkPaid(p) ==
  /\ procs[p].at = "mark_paid"
  /\ invoices' = [invoices EXCEPT ![procs[p].ref] = "paid"]
  /\ GoTo(p, Finishing(p))
  /\ UNCHANGED <<sub, jobs, links, collected, answered, ledger, crashes>>

-----------------------------------------------------------------------------
(* Jobs.                                                                   *)

QueueJob(p, at, type) ==
  /\ procs[p].at = at
  /\ Len(jobs) < JobSlots
  /\ jobs' = Append(jobs, NewJob(type))
  /\ GoTo(p, Finishing(p))
  /\ UNCHANGED <<sub, links, money, crashes>>

QueueRetry(p) == QueueJob(p, "queue_retry", "retry_failed_payment")

QueueCancel(c) == QueueJob(c, "queue_cancel", "cancel_at_period_end")

(* The handler returned: processNext marks the job. *)
Finish(w) ==
  /\ procs[w].at \in {"succeed", "fail"}
  /\ jobs' = [jobs EXCEPT ![procs[w].job] =
                IF procs[w].at = "succeed" THEN MarkedDone(@) ELSE MarkedFailed(@)]
  /\ procs' = [procs EXCEPT ![w] = Resting("idle", 0)]
  /\ UNCHANGED <<sub, links, money, crashes>>

(* A claimed job nobody executes any more is given back.                   *)
RecoverStaleLock(i) ==
  /\ Recoverable(jobs[i])
  /\ \A w \in Workers : procs[w].job # i
  /\ jobs' = [jobs EXCEPT ![i] = Recovered(@)]
  /\ UNCHANGED <<sub, procs, links, money, crashes>>

Crash ==
  /\ crashes < MaxCrashes
  /\ \E w \in Workers : procs[w].at # "idle"
  /\ procs' = [p \in Procs |-> IF p \in Workers THEN Resting("idle", 0) ELSE procs[p]]
  /\ crashes' = crashes + 1
  /\ UNCHANGED <<sub, jobs, links, money>>

-----------------------------------------------------------------------------

Handler(w) ==
  \/ ExpireTrial(w) \/ RetryFailedPayment(w) \/ CancelAtPeriodEnd(w)
  \/ CheckAbandonedCheckouts(w)
  \/ ClaimDunningAttempt(w) \/ ActionRequired(w) \/ EnterGrace(w) \/ UpdateDunning(w) \/ Suspend(w)
  \/ Finish(w)

Arrival(c) ==
  \/ Cancel(c) \/ PortalCancel(c) \/ Pause(c) \/ Resume(c) \/ PortalResume(c)
  \/ Recover(c) \/ RetryNow(c) \/ RegenerateCheckout(c) \/ UpdatePaymentMethod(c)
  \/ PaymentSuccess(c) \/ PaymentFailed(c)

Serving(c) ==
  \/ ResumeForward(c) \/ FlagCancel(c) \/ PauseRow(c) \/ ResumeRow(c)
  \/ UpdateTokenKey(c) \/ QueueCancel(c)

Either(p) ==
  \/ Lapse(p) \/ Renew(p) \/ CancelNow(p) \/ QueueRetry(p)
  \/ ChargeAccepted(p) \/ ChargeDeclined(p) \/ ChargeUnanswered(p)
  \/ CreateInvoice(p) \/ RecordCharge(p) \/ MarkPaid(p)

Next ==
  \/ \E w \in Workers : Handler(w)
  \/ \E c \in Requests : Arrival(c) \/ Serving(c)
  \/ \E p \in Procs : Either(p)
  \/ \E i \in DOMAIN jobs : RecoverStaleLock(i)
  \/ Crash

Spec == Init /\ [][Next]_vars

(* Goroutines poll and run, requests that arrived are served, stale locks  *)
(* are swept.  Nothing makes a customer or a merchant ask for anything.    *)
Fairness ==
  /\ \A w \in Workers : WF_vars(Handler(w) \/ Either(w))
  /\ \A c \in Requests : WF_vars(Serving(c) \/ Either(c))
  /\ WF_vars(\E i \in DOMAIN jobs : RecoverStaleLock(i))

FairSpec == Spec /\ Fairness

-----------------------------------------------------------------------------

ProcAt == {"idle", "new", "over", "succeed", "fail", "charge", "take_attempt", "lapse",
           "renew", "recover", "grace", "dun", "suspend", "cancel", "flag", "pause",
           "resume", "store_card", "queue_retry", "queue_cancel", "invoice", "ledger",
           "mark_paid"}

Proc == [at : ProcAt, op : JobTypes \cup RequestOps \cup {"none"}, job : Nat,
         seen : Row, ref : Refs]

(* The tables hold rows of their schemas, a goroutine's job is a row of    *)
(* the job table, and every reference is one the code can build.           *)
TypeOK ==
  /\ sub \in Row
  /\ jobs \in Seq(JobRow)
  /\ procs \in [Procs -> Proc]
  /\ \A p \in Procs : procs[p].job \in 0..Len(jobs)
  /\ collected \subseteq Refs /\ ledger \subseteq Refs
  /\ links \subseteq Links
  /\ answered \subseteq Nat \X {"accepted", "declined", "refused"}
  /\ DOMAIN invoices \subseteq Refs
  /\ \A ref \in DOMAIN invoices : invoices[ref] \in {"open", "paid"}
  /\ crashes \in Nat

(* Between the charge and the ledger entry a process carries the reference *)
(* of the charge.                                                          *)
Carries(p, ref) ==
  procs[p].ref = ref /\ procs[p].at \in {"renew", "invoice", "ledger"}

(* Nomba took the money the reference stands for.  A verification paid on  *)
(* a PENDING_PAYMENT row is recorded as that row's checkout.               *)
Backed(ref) ==
  ref \in collected \/ (ref = CheckoutRef /\ Verification \in collected)

(* The ledger holds no charge Nomba did not take, under any mix of         *)
(* declines, lost answers, failed writes, crashes and stale rows:          *)
(* createInvoiceForCharge is only reached with money in hand.              *)
LedgerIsBacked == \A ref \in ledger : Backed(ref)

(* As long as its INSERT does not fail: an invoice that says paid has its  *)
(* entry in the ledger, whoever created it and wherever a worker died.     *)
PaidInvoicesAreLedgered ==
  \A ref \in DOMAIN invoices : invoices[ref] = "paid" => ref \in ledger

(* Two processes never record the same charge, not even when a re-run job  *)
(* or a second worker was given the same order reference: the unique       *)
(* invoice key lets one of them through.                                   *)
OneRecorderPerCharge ==
  \A p, q \in Procs :
    p # q /\ {procs[p].at, procs[q].at} \subseteq {"ledger", "mark_paid"}
      => procs[p].ref # procs[q].ref

(* Money Tori asked for and got that is in no ledger entry yet.            *)
Unrecorded == (collected \cap ToriCharges) \ ledger

(* Such money is on its way to the ledger, as long as no worker dies and   *)
(* every call to Nomba is answered: no race of two handlers drops a charge *)
(* between Nomba and createInvoiceForCharge.                               *)
ChargesAreRecorded == \A ref \in Unrecorded : \E p \in Procs : Carries(p, ref)

(* ... and it does arrive.                                                 *)
ChargesReachTheLedger == []<>(Unrecorded = {})

(* The attempt a process claimed and has not heard about. *)
Pending(n) == \E p \in Procs : procs[p].at = "charge" /\ procs[p].op = "retry_failed_payment"
                                 /\ procs[p].seen.attempt + 1 = n

Heard(n) == \E pair \in answered : pair[1] = n

(* Dunning suspends a subscription only after a refusal, or after every    *)
(* attempt of the schedule was put to Nomba: workers that count attempts   *)
(* on stale rows may repeat one or overtake another, never skip one.       *)
SuspensionIsEarned ==
  sub.status = "SUSPENDED" =>
    \/ \E pair \in answered : pair[2] = "refused"
    \/ \A n \in 1..(LastAttempt + 1) : Heard(n) \/ Pending(n)

(* The customer has access only after the price was taken at least once.   *)
(* It takes a merchant to give it away (Recover), or the card update of    *)
(* the portal, whose naira activates a PENDING_PAYMENT row.                *)
AccessIsPaid ==
  sub.status \in {"ACTIVE", "PAUSED"} => collected \ {Verification} # {}

(* Processes that decided on an earlier status and have yet to write.      *)
Deciding == {"take_attempt", "lapse", "renew", "recover", "grace", "dun", "suspend", "pause", "resume"}

Stale(p) ==
  \/ procs[p].at \in Deciding
  \/ procs[p].at = "charge" /\ procs[p].op # "resume"
  \/ procs[p].at = "store_card" /\ procs[p].seen.status = "PENDING_PAYMENT"

StaleProcs == {p \in Procs : Stale(p)}

(* "nothing transitions out of CANCELLED" (README.md:61) is not true of    *)
(* the handlers that read the row before it was cancelled, which write     *)
(* without a condition (abandoned_checkout.go:87), but of everybody else:  *)
(* while a row is CANCELLED nobody new gets to where he could revive it,   *)
(* be it a job that runs again, the merchant, the customer or a payment,   *)
(* and once those who were there are done the row stays CANCELLED.         *)
CancelledEnds ==
  [][sub.status = "CANCELLED" =>
       /\ StaleProcs' \subseteq StaleProcs
       /\ StaleProcs = {} => sub'.status = "CANCELLED"]_vars

-----------------------------------------------------------------------------
(* What the repository's documents and comments say of all this.           *)

(* README.md:132: one unpaid period is never collected twice.  No code     *)
(* starts a second period, so the ladder has one to collect.               *)
DebtIsCollectedOnce ==
  \A r, s \in collected : {r.rail, s.rail} \subseteq {"card", "mandate", "wallet"} => r = s

(* README.md:102: a subscription in DUNNING is retried until it recovers   *)
(* or is suspended.                                                        *)
DunningMovesOn == sub.status = "DUNNING" ~> sub.status # "DUNNING"

(* nomba_webhook.go:281: the price paid on a checkout link is recorded.    *)
PaymentsReachTheLedger == CheckoutRef \in collected ~> CheckoutRef \in ledger

=============================================================================
