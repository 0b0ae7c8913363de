--------------------------- MODULE Ladder_proofs ---------------------------
(***************************************************************************)
(* What Billing guarantees about the status of a subscription: access      *)
(* follows a payment, and suspension follows a refusal or the whole        *)
(* dunning schedule, for any number of goroutines, requests and jobs.      *)
(*                                                                         *)
(* Both invariants speak of a status that a process decided on and will    *)
(* write later, whatever others did to the row.  So each is strengthened   *)
(* by what a process must know at the step at which it will write, or at   *)
(* which it still holds the row it read; what it knows never ceases to be  *)
(* true.                                                                   *)
(*                                                                         *)
(* The last parts are about what does not hold: a cancelled subscription   *)
(* may be revived, the debt of a period collected twice, a payment on a    *)
(* link get lost, and a cancelling customer be charged.  They say who can  *)
(* do it, and that nobody else can.                                        *)
(***************************************************************************)
EXTENDS Billing_proofs

-----------------------------------------------------------------------------
(* Processes and rows.                                                     *)

Others(p) == \A q \in Procs : q # p => procs'[q] = procs[q]

Remembered(p, process) ==
  /\ Others(p)
  /\ procs'[p].at = process.at
  /\ process.at \notin {"succeed", "fail", "over"} => procs'[p].op = process.op
  /\ process.at \in Remembering => procs'[p].seen = process.seen

LEMMA PutRemembers ==
  ASSUME TypeOK, NEW p \in Procs, NEW process \in Proc, Put(p, process)
  PROVE  Remembered(p, process)
<1> DEFINE k == Kept(process)
<1>1. /\ k.at = process.at
      /\ process.at \notin {"succeed", "fail", "over"} => k.op = process.op
      /\ process.at \in Remembering => k.seen = process.seen
  <2>1. CASE process.at \in {"succeed", "fail", "over"}
    BY <2>1 DEF Kept, Resting, Process, Remembering
  <2>2. CASE process.at \in Remembering
    BY <2>2 DEF Kept, Remembering
  <2>3. CASE process.at \notin Remembering \cup {"succeed", "fail", "over"}
    <3>1. k = [process EXCEPT !.seen = NoRow]
      BY <2>3 DEF Kept
    <3> HIDE DEF k
    <3> QED BY <2>3, <3>1 DEF Proc
  <2> QED BY <2>1, <2>2, <2>3
<1>2. procs' = [procs EXCEPT ![p] = k] /\ procs \in [Procs -> Proc]
  BY DEF Put, TypeOK
<1> HIDE DEF k
<1> QED BY <1>1, <1>2 DEF Remembered, Others

LEMMA GoRemembers ==
  ASSUME TypeOK, NEW p \in Procs, NEW at \in ProcAt, GoTo(p, at)
  PROVE  /\ Others(p) /\ procs'[p].at = at
         /\ at \notin {"succeed", "fail", "over"} => procs'[p].op = procs[p].op
         /\ at \in Remembering => procs'[p].seen = procs[p].seen
<1> DEFINE process == [procs[p] EXCEPT !.at = at]
<1>1. /\ process \in Proc /\ process.at = at /\ process.op = procs[p].op
      /\ process.seen = procs[p].seen
  BY DEF Proc, TypeOK
<1>2. Put(p, process)
  BY DEF GoTo
<1> HIDE DEF process
<1> QED BY <1>1, <1>2, PutRemembers DEF Remembered

(* A handler, or a request, that has read the row.                         *)
LEMMA ReadRemembers ==
  ASSUME TypeOK, NEW p \in Procs, NEW at \in ProcAt, NEW op \in JobTypes \cup RequestOps,
         NEW job \in Nat, NEW ref \in Refs, Put(p, Process(at, op, job, sub, ref))
  PROVE  /\ Others(p) /\ procs'[p].at = at
         /\ at \notin {"succeed", "fail", "over"} => procs'[p].op = op
         /\ at \in Remembering => procs'[p].seen = sub
<1> DEFINE process == Process(at, op, job, sub, ref)
<1>1. process \in Proc /\ process.at = at /\ process.op = op /\ process.seen = sub
  BY Processes DEF TypeOK, Process
<1>2. Put(p, process)
  OBVIOUS
<1> HIDE DEF process
<1> QED BY <1>1, <1>2, PutRemembers DEF Remembered

LEMMA StartReads ==
  ASSUME TypeOK, NEW w \in Workers, NEW type \in JobTypes, NEW at \in ProcAt,
         Start(w, type, at)
  PROVE  /\ Others(w) /\ procs[w].at = "idle" /\ procs'[w].at = at
         /\ at \notin {"succeed", "fail", "over"} => procs'[w].op = type
         /\ at \in Remembering => procs'[w].seen = sub
         /\ UNCHANGED <<sub, links, money, crashes>>
<1>1. PICK i \in DOMAIN jobs : Put(w, Process(at, type, i, sub, NoRef))
  BY DEF Start
<1>2. i \in Nat /\ w \in Procs
  BY LenProperties DEF TypeOK, Procs
<1> QED BY <1>1, <1>2, ReadRemembers, References DEF Start

LEMMA RequestReads ==
  ASSUME TypeOK, NEW c \in Requests, NEW op \in RequestOps, NEW at \in ProcAt, Request(c, op, at)
  PROVE  /\ Others(c) /\ procs[c].at = "new" /\ procs'[c].at = at
         /\ UNCHANGED <<sub, links, money, crashes>>
BY ReadRemembers, References DEF Request, Procs

(* What the UPDATEs do to the columns status and dunning_attempt.          *)
LEMMA Columns ==
  ASSUME NEW row \in Row
  PROVE  /\ \A s : WithStatus(row, s).status = s /\ WithStatus(row, s).attempt = row.attempt
         /\ \A s, n : WithDunning(row, s, n).status = s /\ WithDunning(row, s, n).attempt = n
         /\ Renewed(row).status = "ACTIVE" /\ Renewed(row).attempt = 0
         /\ Cancelled(row).status = "CANCELLED" /\ Cancelled(row).attempt = row.attempt
         /\ Paused(row).status = "PAUSED" /\ Paused(row).attempt = row.attempt
         /\ Resumed(row).status = "ACTIVE" /\ Resumed(row).attempt = row.attempt
         /\ Cancelling(row).status = row.status /\ Cancelling(row).attempt = row.attempt
         /\ WithCard(row).status = row.status /\ WithCard(row).attempt = row.attempt
         /\ AttemptTaken(row).status = row.status /\ AttemptTaken(row).attempt = row.attempt + 1
BY DEF Row, WithStatus, WithDunning, Renewed, Cancelled, Paused, Resumed, Cancelling, WithCard,
       AttemptTaken

(* Which transitions the callers of Transition ask for.                    *)
LEMMA Permissions ==
  /\ \A s \in Statuses : Permits(s, "customer_paused") => s = "ACTIVE"
  /\ \A s \in Statuses : Permits(s, "customer_resumed") => s = "PAUSED"
BY DEF Permits, Transitions, Cancellations, Statuses

(* The references Tori charges under are never those of a link.            *)
LEMMA ChargesAreToris ==
  ASSUME NEW p \in Procs, NEW ref \in ChargeRefs(p)
  PROVE  ref # Verification
BY DEF ChargeRefs, RetryRails, LadderRail, Ref, Verification

(* What a declined charge leads to.                                        *)
LEMMA DeclineLeads ==
  ASSUME NEW p \in Procs, NEW retriable \in BOOLEAN
  PROVE  AfterDecline(p, retriable) \in {"grace", "over", "dun", "suspend"} \cap ProcAt
BY DEF AfterDecline, ProcAt

(* Finishing a job forgets it.                                             *)
LEMMA FinishForgets ==
  ASSUME TypeOK, NEW w \in Workers, Finish(w)
  PROVE  /\ Others(w) /\ procs[w].at \in {"succeed", "fail"} /\ procs'[w].at = "idle"
         /\ UNCHANGED <<sub, links, money, crashes>>
BY DEF Finish, Others, Procs, TypeOK, Resting, Process

-----------------------------------------------------------------------------
(* Access follows a payment.                                               *)

Paid == collected \ {Verification} # {}

Granting == {"renew", "pause", "resume"}

(* What a process knows before it gives access.                            *)
KnowsOfPayment(p) ==
  /\ procs[p].at \in Granting => Paid
  /\ procs[p].at = "store_card" /\ procs[p].seen.status = "PENDING_PAYMENT" => Paid
  /\ procs[p].at # "recover"

(* A PENDING_PAYMENT row has no link on which a naira would activate it.   *)
PaidFor ==
  /\ AccessIsPaid
  /\ sub.status = "PENDING_PAYMENT" => "verification" \notin links
  /\ \A p \in Procs : KnowsOfPayment(p)

(* A step of p that gives no access for nothing.                           *)
GivesNothingAway(p) ==
  /\ Others(p)
  /\ collected \subseteq collected'
  /\ procs'[p].at \in Granting => Paid'
  /\ procs'[p].at = "store_card" /\ procs'[p].seen.status = "PENDING_PAYMENT" => Paid'
  /\ procs'[p].at # "recover"
  /\ sub'.status \in {"ACTIVE", "PAUSED"} => sub.status \in {"ACTIVE", "PAUSED"} \/ Paid'
  /\ sub'.status = "PENDING_PAYMENT" =>
       sub.status = "PENDING_PAYMENT" /\ ("verification" \in links' => "verification" \in links)

LEMMA PaidForStep ==
  ASSUME PaidFor, NEW p \in Procs, GivesNothingAway(p)
  PROVE  PaidFor'
<1>1. Paid => Paid'
  BY DEF GivesNothingAway, Paid
<1>2. AccessIsPaid'
  BY <1>1 DEF GivesNothingAway, PaidFor, AccessIsPaid, Paid
<1>3. (sub.status = "PENDING_PAYMENT" => "verification" \notin links)'
  BY DEF GivesNothingAway, PaidFor
<1>4. ASSUME NEW q \in Procs PROVE KnowsOfPayment(q)'
  <2>1. CASE q = p
    BY <2>1 DEF GivesNothingAway, KnowsOfPayment
  <2>2. CASE q # p
    BY <1>1, <2>2 DEF GivesNothingAway, KnowsOfPayment, Others, PaidFor
  <2> QED BY <2>1, <2>2
<1> QED BY <1>2, <1>3, <1>4 DEF PaidFor

(* A process that goes on to a step which gives no access.                 *)
LEMMA MoveGivesNothing ==
  ASSUME NEW p \in Procs, Others(p), UNCHANGED <<links, collected>>,
         procs'[p].at \notin Granting \cup {"store_card", "recover"},
         sub'.status \in {"ACTIVE", "PAUSED", "PENDING_PAYMENT"} => sub'.status = sub.status
  PROVE  GivesNothingAway(p)
BY DEF GivesNothingAway

LEMMA HandlerGivesNothing ==
  ASSUME TypeOK, PaidFor, NEW w \in Workers, Handler(w)
  PROVE  GivesNothingAway(w)
<1>0. w \in Procs /\ sub \in Row
  BY DEF Procs, TypeOK
<1>1. ASSUME NEW type \in JobTypes, NEW at \in ProcAt \ (Granting \cup {"store_card", "recover"}),
             Start(w, type, at)
      PROVE  GivesNothingAway(w)
  BY <1>0, <1>1, StartReads, MoveGivesNothing DEF money
<1>2. CASE ExpireTrial(w)
  <2>1. TrialStep(sub) \in {"succeed", "charge", "lapse"}
    BY DEF TrialStep
  <2> QED BY <1>1, <1>2, <2>1 DEF ExpireTrial, JobTypes, ProcAt, Granting
<1>3. CASE RetryFailedPayment(w)
  BY <1>1, <1>3 DEF RetryFailedPayment, JobTypes, ProcAt, Granting
<1>4. CASE CancelAtPeriodEnd(w)
  BY <1>1, <1>4 DEF CancelAtPeriodEnd, JobTypes, ProcAt, Granting
<1>5. CASE CheckAbandonedCheckouts(w)
  BY <1>1, <1>5 DEF CheckAbandonedCheckouts, JobTypes, ProcAt, Granting
<1>6. CASE ClaimDunningAttempt(w)
  <2>1. PICK at \in {"charge", "succeed"} : GoTo(w, at)
    BY <1>6 DEF ClaimDunningAttempt
  <2>2. Others(w) /\ procs'[w].at = at
    BY <1>0, <2>1, GoRemembers DEF ProcAt
  <2>3. sub'.status = sub.status
    BY <1>0, <1>6, Columns DEF ClaimDunningAttempt
  <2> QED BY <1>0, <1>6, <2>2, <2>3, MoveGivesNothing DEF ClaimDunningAttempt, money, Granting
<1>7. CASE ActionRequired(w)
  <2>1. AfterDecline(w, TRUE) \in {"grace", "over", "dun", "suspend"} \cap ProcAt
    BY <1>0, DeclineLeads
  <2>2. Others(w) /\ procs'[w].at = AfterDecline(w, TRUE)
    BY <1>0, <1>7, <2>1, GoRemembers DEF ActionRequired
  <2>3. "verification" \in links' => "verification" \in links
    BY <1>7 DEF ActionRequired
  <2> QED BY <1>7, <2>1, <2>2, <2>3 DEF ActionRequired, GivesNothingAway, Granting
<1>8. ASSUME NEW at, NEW row, row.status \notin {"ACTIVE", "PAUSED", "PENDING_PAYMENT"},
             Write(w, at, row, "succeed")
      PROVE  GivesNothingAway(w)
  <2>1. Others(w) /\ procs'[w].at = "succeed"
    BY <1>0, <1>8, GoRemembers DEF Write, ProcAt
  <2> QED BY <1>0, <1>8, <2>1, MoveGivesNothing DEF Write, money, Granting
<1>9. CASE EnterGrace(w)
  BY <1>0, <1>8, <1>9, Columns DEF EnterGrace
<1>10. CASE UpdateDunning(w)
  <2> DEFINE n == DunningStep(w, TRUE).attempt
  <2>1. Write(w, "dun", WithDunning(sub, "DUNNING", n), "succeed")
    BY <1>10, Zenon DEF UpdateDunning
  <2> HIDE DEF n
  <2> QED BY <1>0, <1>8, <2>1, Columns
<1>11. CASE Suspend(w)
  BY <1>0, <1>8, <1>11, Columns DEF Suspend
<1>12. CASE Finish(w)
  BY <1>0, <1>12, FinishForgets, MoveGivesNothing DEF money, Granting
<1> QED BY <1>2, <1>3, <1>4, <1>5, <1>6, <1>7, <1>9, <1>10, <1>11, <1>12 DEF Handler

LEMMA ArrivalGivesNothing ==
  ASSUME TypeOK, PaidFor, NEW c \in Requests, Arrival(c),
         Ops \cap {"recover", "update_card"} = {}
  PROVE  GivesNothingAway(c)
<1>0. c \in Procs /\ sub \in Row /\ sub.status \in Statuses
  BY DEF Procs, TypeOK, Row
<1>1. ASSUME NEW op \in RequestOps, NEW at \in ProcAt \ {"store_card", "recover"},
             Request(c, op, at), at \in Granting => Paid
      PROVE  GivesNothingAway(c)
  <2>1. /\ Others(c) /\ procs'[c].at = at
        /\ UNCHANGED <<sub, links, money, crashes>>
    BY <1>1, RequestReads
  <2> QED BY <1>1, <2>1 DEF GivesNothingAway, money, Paid
<1>2. sub.status \in {"ACTIVE", "PAUSED"} => Paid
  BY DEF PaidFor, AccessIsPaid, Paid
<1>3. CASE Cancel(c)
  BY <1>1, <1>3 DEF Cancel, RequestOps, ProcAt, Granting
<1>4. CASE PortalCancel(c)
  BY <1>1, <1>4 DEF PortalCancel, RequestOps, ProcAt, Granting
<1>5. CASE Pause(c)
  BY <1>0, <1>1, <1>2, <1>5, Permissions DEF Pause, RequestOps, ProcAt
<1>6. CASE Resume(c)
  BY <1>0, <1>1, <1>2, <1>6, Permissions DEF Resume, RequestOps, ProcAt
<1>7. CASE PortalResume(c)
  BY <1>0, <1>1, <1>2, <1>7, Permissions DEF PortalResume, RequestOps, ProcAt
<1>8. CASE Recover(c)
  BY <1>8 DEF Recover, Request
<1>9. CASE RetryNow(c)
  BY <1>1, <1>9 DEF RetryNow, RequestOps, ProcAt, Granting
<1>10. CASE RegenerateCheckout(c)
  <2>1. PICK kind \in Links :
          /\ kind = "verification" => sub.status = "TRIALING"
          /\ NewLink(c, "regenerate_checkout", kind)
    BY <1>10 DEF RegenerateCheckout, Links
  <2>2. Put(c, Process("over", "regenerate_checkout", 0, sub, NoRef)) /\ links' = links \cup {kind}
        /\ UNCHANGED <<sub, money>>
    BY <2>1 DEF NewLink
  <2>3. Others(c) /\ procs'[c].at = "over"
    BY <1>0, <2>2, ReadRemembers, References DEF ProcAt, RequestOps
  <2> QED BY <2>1, <2>2, <2>3 DEF GivesNothingAway, Granting, money
<1>11. CASE UpdatePaymentMethod(c)
  BY <1>11 DEF UpdatePaymentMethod, NewLink
<1>12. CASE PaymentSuccess(c)
  <2>1. PICK at \in {"store_card", AfterPayment(sub)} :
          Put(c, Process(at, "payment_success", 0, sub, CheckoutRef))
    BY <1>12 DEF PaymentSuccess
  <2>2. PICK kind \in links :
          collected' = collected \cup {IF kind = "price" THEN CheckoutRef ELSE Verification}
    BY <1>12 DEF PaymentSuccess
  <2>3. at \in ProcAt /\ at \in {"store_card", "over", "renew"}
        /\ (at = "renew" => sub.status = "PENDING_PAYMENT")
    BY <2>1 DEF AfterPayment, ActivatesOn, ProcAt
  <2>4. /\ Others(c) /\ procs'[c].at = at
        /\ at \in Remembering => procs'[c].seen = sub
    BY <1>0, <2>1, <2>3, ReadRemembers, References DEF RequestOps
  <2>5. sub.status = "PENDING_PAYMENT" => Paid'
    <3>1. sub.status = "PENDING_PAYMENT" => kind = "price"
      BY <2>2 DEF PaidFor, TypeOK, Links
    <3>2. CheckoutRef # Verification
      BY DEF CheckoutRef, Verification, Ref
    <3> QED BY <2>2, <3>1, <3>2 DEF Paid
  <2> QED BY <1>12, <2>2, <2>3, <2>4, <2>5
          DEF PaymentSuccess, GivesNothingAway, Granting, Remembering
<1>13. CASE PaymentFailed(c)
  BY <1>1, <1>13 DEF PaymentFailed, RequestOps, ProcAt, Granting
<1> QED BY <1>3, <1>4, <1>5, <1>6, <1>7, <1>8, <1>9, <1>10, <1>11, <1>12, <1>13 DEF Arrival

LEMMA ServingGivesNothing ==
  ASSUME TypeOK, PaidFor, NEW c \in Requests, Serving(c)
  PROVE  GivesNothingAway(c)
<1>0. c \in Procs /\ sub \in Row /\ KnowsOfPayment(c)
  BY DEF Procs, TypeOK, PaidFor
<1>1. ASSUME NEW at, NEW row, NEW next \in ProcAt, Write(c, at, row, next)
      PROVE  /\ Others(c) /\ procs'[c].at = next /\ procs[c].at = at /\ sub' = row
             /\ UNCHANGED <<links, collected>>
  BY <1>0, <1>1, GoRemembers DEF Write, money
<1>2. CASE ResumeForward(c)
  BY <1>0, <1>2 DEF ResumeForward, Write, KnowsOfPayment
<1>3. CASE FlagCancel(c)
  <2>1. PICK next \in {"queue_cancel", "over"} : Write(c, "flag", Cancelling(sub), next)
    BY <1>3 DEF FlagCancel
  <2> QED BY <1>0, <1>1, <2>1, Columns, MoveGivesNothing DEF ProcAt, Granting
<1>4. CASE PauseRow(c)
  <2>1. Write(c, "pause", Paused(sub), "over")
    BY <1>4 DEF PauseRow
  <2> QED BY <1>0, <1>1, <2>1, Columns DEF ProcAt, Granting, KnowsOfPayment, GivesNothingAway, Paid
<1>5. CASE ResumeRow(c)
  <2>1. PICK next \in {"over", "charge"} : Write(c, "resume", Resumed(sub), next)
    BY <1>5 DEF ResumeRow
  <2> QED BY <1>0, <1>1, <2>1, Columns DEF ProcAt, Granting, KnowsOfPayment, GivesNothingAway, Paid
<1>6. CASE UpdateTokenKey(c)
  <2>1. PICK next \in {"over", "renew"} :
          Write(c, "store_card", WithCard(sub), next)
          /\ (next = "renew" => procs[c].seen.status = "PENDING_PAYMENT")
    BY <1>6 DEF UpdateTokenKey, AfterPayment, ActivatesOn
  <2> QED BY <1>0, <1>1, <2>1, Columns DEF ProcAt, Granting, KnowsOfPayment, GivesNothingAway, Paid
<1>7. CASE QueueCancel(c)
  <2>1. Others(c) /\ procs'[c].at \in {"succeed", "over"}
    BY <1>0, <1>7, GoRemembers DEF QueueCancel, QueueJob, Finishing, ProcAt
  <2> QED BY <1>0, <1>7, <2>1, MoveGivesNothing DEF QueueCancel, QueueJob, money, Granting
<1> QED BY <1>2, <1>3, <1>4, <1>5, <1>6, <1>7 DEF Serving

LEMMA EitherGivesNothing ==
  ASSUME TypeOK, PaidFor, NEW p \in Procs, Either(p)
  PROVE  GivesNothingAway(p)
<1>0. sub \in Row /\ KnowsOfPayment(p)
  BY DEF TypeOK, PaidFor
<1>1. ASSUME NEW at \in ProcAt \ (Granting \cup {"store_card", "recover"}), GoTo(p, at),
             UNCHANGED <<sub, links, collected>>
      PROVE  GivesNothingAway(p)
  BY <1>1, GoRemembers, MoveGivesNothing
<1>2. ASSUME NEW at, NEW row, NEW next \in ProcAt, Write(p, at, row, next)
      PROVE  /\ Others(p) /\ procs'[p].at = next /\ procs[p].at = at /\ sub' = row
             /\ UNCHANGED <<links, collected>>
  BY <1>2, GoRemembers DEF Write, money
<1>3. Finishing(p) \in {"succeed", "over"}
  BY DEF Finishing
<1>4. CASE Lapse(p)
  <2>1. PICK next \in {"succeed", "queue_retry"} :
          Write(p, "lapse", WithStatus(sub, "PAST_DUE"), next)
    BY <1>4 DEF Lapse
  <2> QED BY <1>0, <1>2, <2>1, Columns, MoveGivesNothing DEF ProcAt, Granting
<1>5. CASE Renew(p)
  <2>1. Write(p, "renew", Renewed(sub), "invoice")
    BY <1>5 DEF Renew
  <2> QED BY <1>0, <1>2, <2>1, Columns DEF ProcAt, Granting, KnowsOfPayment, GivesNothingAway, Paid
<1>6. CASE CancelNow(p)
  <2>1. Write(p, "cancel", Cancelled(sub), Finishing(p))
    BY <1>6 DEF CancelNow
  <2> QED BY <1>0, <1>2, <1>3, <2>1, Columns, MoveGivesNothing DEF ProcAt, Granting
<1>7. CASE QueueRetry(p)
  BY <1>1, <1>3, <1>7 DEF QueueRetry, QueueJob, money, ProcAt, Granting
<1>8. CASE ChargeAccepted(p)
  <2>1. PICK ref \in ChargeRefs(p) :
          /\ collected' = collected \cup {ref}
          /\ Put(p, [procs[p] EXCEPT
                       !.at = IF procs[p].op = "resume" THEN "invoice" ELSE "renew", !.ref = ref])
    BY <1>8 DEF ChargeAccepted
  <2>2. Paid'
    BY <2>1, ChargesAreToris DEF Paid
  <2>3. Others(p) /\ procs'[p].at \in {"invoice", "renew"}
    <3> DEFINE at == IF procs[p].op = "resume" THEN "invoice" ELSE "renew"
               process == [procs[p] EXCEPT !.at = at, !.ref = ref]
    <3>1. process \in Proc /\ process.at = at /\ at \in {"invoice", "renew"}
      BY <1>8, ChargeRefTypes DEF ChargeAccepted, Proc, TypeOK, ProcAt
    <3>2. Put(p, process)
      BY <2>1
    <3> HIDE DEF process, at
    <3> QED BY <3>1, <3>2, PutRemembers DEF Remembered
  <2> QED BY <1>8, <2>1, <2>2, <2>3 DEF ChargeAccepted, GivesNothingAway
<1>9. CASE ChargeDeclined(p)
  BY <1>1, <1>9, DeclineLeads DEF ChargeDeclined, Granting
<1>10. CASE ChargeUnanswered(p)
  <2>1. Others(p) /\ procs'[p].at \in {"fail", "over"}
    BY <1>10, GoRemembers DEF ChargeUnanswered, ProcAt
  <2> QED BY <1>10, <2>1 DEF ChargeUnanswered, GivesNothingAway, Granting
<1>11. CASE CreateInvoice(p)
  BY <1>1, <1>3, <1>11 DEF CreateInvoice, ProcAt, Granting
<1>12. CASE RecordCharge(p)
  BY <1>1, <1>12 DEF RecordCharge, ProcAt, Granting
<1>13. CASE MarkPaid(p)
  BY <1>1, <1>3, <1>13 DEF MarkPaid, ProcAt, Granting
<1> QED BY <1>4, <1>5, <1>6, <1>7, <1>8, <1>9, <1>10, <1>11, <1>12, <1>13 DEF Either

(* A worker process that dies knows nothing.                               *)
LEMMA CrashForgets ==
  ASSUME Crash, NEW p \in Procs
  PROVE  \/ procs'[p].at = "idle"
         \/ p \notin Workers /\ procs'[p] = procs[p]
BY DEF Crash, Resting, Process

(* What starts unpaid, and is given away by no merchant and no card        *)
(* update.                                                                 *)
StartsUnpaid ==
  /\ Ops \cap {"recover", "update_card"} = {}
  /\ \A s \in Starts : /\ s.status \notin {"ACTIVE", "PAUSED"}
                       /\ s.status = "PENDING_PAYMENT" => "verification" \notin s.links

LEMMA PaidForNext ==
  ASSUME TypeOK, PaidFor, StartsUnpaid, [Next]_vars
  PROVE  PaidFor'
<1>1. CASE UNCHANGED vars
  BY <1>1 DEF vars, PaidFor, AccessIsPaid, KnowsOfPayment, Paid
<1>2. CASE \E w \in Workers : Handler(w)
  BY <1>2, HandlerGivesNothing, PaidForStep DEF Procs
<1>3. CASE \E c \in Requests : Arrival(c) \/ Serving(c)
  BY <1>3, ArrivalGivesNothing, ServingGivesNothing, PaidForStep DEF Procs, StartsUnpaid
<1>4. CASE \E p \in Procs : Either(p)
  BY <1>4, EitherGivesNothing, PaidForStep
<1>5. CASE \E i \in DOMAIN jobs : RecoverStaleLock(i)
  BY <1>5 DEF RecoverStaleLock, PaidFor, AccessIsPaid, KnowsOfPayment, Paid, money
<1>6. CASE Crash
  <2>1. \A p \in Procs : KnowsOfPayment(p)'
    BY <1>6, CrashForgets DEF Crash, PaidFor, KnowsOfPayment, Granting, Paid, money
  <2> QED BY <1>6, <2>1 DEF Crash, PaidFor, AccessIsPaid, money
<1> QED BY <1>1, <1>2, <1>3, <1>4, <1>5, <1>6 DEF Next

(* AccessIsPaid, however many goroutines, requests and jobs run, whatever  *)
(* is lost and however often the worker process dies, for a subscription   *)
(* that starts without access and is given away by no merchant and no card *)
(* update: handlePaymentSuccess and executeRetryCharge activate a row they *)
(* read long before, and what made them do so is money that was taken.     *)
THEOREM AccessPaid ==
  ASSUME StartsUnpaid PROVE Spec => []AccessIsPaid
<1>1. ASSUME Init PROVE PaidFor
  <2>1. PICK s \in Starts : sub = NewRow(s.status, s.card) /\ links = s.links
    BY <1>1 DEF Init
  <2>2. sub.status = s.status
    BY <2>1 DEF NewRow
  <2>3. \A p \in Procs : procs[p].at \in {"idle", "new"}
    BY <1>1 DEF Init, Resting, Process
  <2> QED BY <2>1, <2>2, <2>3
          DEF PaidFor, AccessIsPaid, KnowsOfPayment, Granting, StartsUnpaid
<1>2. TypeOK /\ PaidFor /\ [Next]_vars => PaidFor'
  BY PaidForNext
<1>3. PaidFor => AccessIsPaid
  BY DEF PaidFor
<1> QED BY <1>1, <1>2, <1>3, TypeCorrect, PTL DEF Spec

-----------------------------------------------------------------------------
(* Suspension follows a refusal or the whole schedule.                     *)

Tried(n) == Heard(n) \/ Pending(n)

Reached(attempt) == \A n \in 1..attempt : Tried(n)

Earned == (\E pair \in answered : pair[2] = "refused") \/ Reached(LastAttempt + 1)

OnLadder == {"take_attempt", "charge", "dun", "suspend"}

Retrying(row) == row.status \in {"DUNNING", "PAST_DUE"}

(* What a process of the ladder knows.                                     *)
KnowsOfLadder(p) ==
  LET process == procs[p]
  IN  /\ process.at = "take_attempt" =>
           /\ process.op = "retry_failed_payment"
           /\ Retrying(process.seen) /\ Reached(process.seen.attempt)
      /\ process.at = "charge" =>
           \/ process.op \in {"expire_trial", "resume"}
           \/ /\ process.op = "retry_failed_payment"
              /\ Retrying(process.seen) /\ Reached(process.seen.attempt + 1)
      /\ process.at = "dun" => Retrying(process.seen) /\ Reached(process.seen.attempt + 1)
      /\ process.at = "suspend" => Earned

(* The counter of the row never runs ahead of the attempts put to Nomba.   *)
Ladder ==
  /\ SuspensionIsEarned
  /\ Reached(sub.attempt)
  /\ \A p \in Procs : KnowsOfLadder(p)

(* p forgets no attempt: it leaves a charge with an answer.                *)
Steady(p) ==
  /\ Others(p)
  /\ answered \subseteq answered'
  /\ procs[p].at = "charge" /\ procs[p].op = "retry_failed_payment" =>
       \E pair \in answered' : pair[1] = procs[p].seen.attempt + 1

LEMMA TriedStays ==
  ASSUME NEW p \in Procs, Steady(p), NEW n, Tried(n)
  PROVE  Tried(n)'
<1>1. CASE Heard(n)
  BY <1>1 DEF Steady, Tried, Heard
<1>2. CASE Pending(n)
  <2>1. PICK q \in Procs : /\ procs[q].at = "charge" /\ procs[q].op = "retry_failed_payment"
                           /\ procs[q].seen.attempt + 1 = n
    BY <1>2 DEF Pending
  <2>2. CASE q = p
    BY <2>1, <2>2 DEF Steady, Tried, Heard
  <2>3. CASE q # p
    BY <2>1, <2>3 DEF Steady, Others, Tried, Pending
  <2> QED BY <2>2, <2>3
<1> QED BY <1>1, <1>2 DEF Tried

LEMMA ReachedStays ==
  ASSUME NEW p \in Procs, Steady(p)
  PROVE  /\ \A n \in Nat : Reached(n) => \A k \in 1..n : Tried(k)'
         /\ Earned => Earned'
<1>1. \A n \in Nat : Reached(n) => \A k \in 1..n : Tried(k)'
  BY TriedStays DEF Reached
<1>2. Reached(LastAttempt + 1) => Reached(LastAttempt + 1)'
  BY TriedStays DEF Reached, LastAttempt
<1> QED BY <1>1, <1>2 DEF Earned, Steady

(* What remains to be shown of a step of p.                                *)
Climbs(p) ==
  /\ Steady(p)
  /\ KnowsOfLadder(p)'
  /\ sub'.status = "SUSPENDED" => sub.status = "SUSPENDED" \/ Earned'
  /\ sub'.attempt = sub.attempt \/ Reached(sub.attempt)'

LEMMA LadderStep ==
  ASSUME TypeOK, Ladder, NEW p \in Procs, Climbs(p)
  PROVE  Ladder'
<1>0. Steady(p) /\ Others(p) /\ sub.attempt \in Nat
      /\ \A q \in Procs : procs[q].seen.attempt \in Nat /\ procs[q].seen.attempt + 1 \in Nat
  BY DEF Climbs, Steady, TypeOK, Row, Proc
<1>1. (sub.status = "SUSPENDED" => Earned)'
  <2>1. sub.status = "SUSPENDED" => Earned
    BY DEF Ladder, SuspensionIsEarned, Earned, Reached, Tried
  <2> QED BY <1>0, <2>1, ReachedStays DEF Climbs
<1>2. SuspensionIsEarned'
  BY <1>1 DEF SuspensionIsEarned, Earned, Reached, Tried
<1>3. Reached(sub.attempt)'
  BY <1>0, ReachedStays DEF Climbs, Ladder, Reached
<1>4. ASSUME NEW q \in Procs PROVE KnowsOfLadder(q)'
  <2>1. CASE q = p
    BY <2>1 DEF Climbs
  <2>2. CASE q # p
    <3>1. procs'[q] = procs[q] /\ KnowsOfLadder(q)
      BY <1>0, <2>2 DEF Others, Ladder
    <3>2. Reached(procs[q].seen.attempt) => Reached(procs[q].seen.attempt)'
      BY <1>0, <3>1, ReachedStays DEF Reached
    <3>3. Reached(procs[q].seen.attempt + 1) => Reached(procs[q].seen.attempt + 1)'
      BY <1>0, <3>1, ReachedStays DEF Reached
    <3>4. Earned => Earned'
      BY <1>0, ReachedStays
    <3> QED BY <3>1, <3>2, <3>3, <3>4 DEF KnowsOfLadder
  <2> QED BY <2>1, <2>2
<1> QED BY <1>2, <1>3, <1>4 DEF Ladder

(* Everything but the handler of retry_failed_payment.                     *)
OffTheLadder(p) ==
  /\ Others(p)
  /\ UNCHANGED answered
  /\ procs[p].at # "charge"
  /\ procs'[p].at \in OnLadder =>
       procs'[p].at = "charge" /\ procs'[p].op \in {"expire_trial", "resume"}
  /\ sub'.status = "SUSPENDED" => sub.status = "SUSPENDED"
  /\ sub'.attempt \in {sub.attempt, 0}

LEMMA OffTheLadderClimbs ==
  ASSUME NEW p \in Procs, OffTheLadder(p)
  PROVE  Climbs(p)
<1>1. Steady(p)
  BY DEF OffTheLadder, Steady
<1>2. KnowsOfLadder(p)'
  BY DEF OffTheLadder, OnLadder, KnowsOfLadder
<1>3. sub'.attempt = 0 => Reached(sub.attempt)'
  BY DEF Reached
<1> QED BY <1>1, <1>2, <1>3 DEF OffTheLadder, Climbs

(* The answer to an attempt of the ladder is kept.                         *)
LEMMA Hearing ==
  ASSUME NEW p \in Procs, NEW answer, Hears(p, answer), Others(p)
  PROVE  Steady(p)
<1>1. CASE procs[p].op = "retry_failed_payment"
  <2>1. <<procs[p].seen.attempt + 1, answer>> \in answered' /\ answered \subseteq answered'
    BY <1>1 DEF Hears
  <2> QED BY <2>1 DEF Steady
<1>2. CASE procs[p].op # "retry_failed_payment"
  BY <1>2 DEF Hears, Steady
<1> QED BY <1>1, <1>2

(* What Decide makes of a decline on the row a retry has read.             *)
LEMMA Decisions ==
  ASSUME NEW row \in Row, Retrying(row), NEW retriable \in BOOLEAN
  PROVE  LET decision == Decide(row.status, row.attempt, retriable)
         IN  /\ ~decision.retry => ~retriable \/ row.attempt + 1 > LastAttempt
             /\ decision.attempt \in {row.attempt, row.attempt + 1}
<1>1. row.status \notin {"ACTIVE", "TRIALING"}
  BY DEF Retrying
<1> QED BY <1>1 DEF Decide, GiveUp, Grace, Retry

LEMMA DeclineClimbs ==
  ASSUME TypeOK, Ladder, NEW p \in Procs, NEW retriable \in BOOLEAN, procs[p].at = "charge",
         Hears(p, IF retriable THEN "declined" ELSE "refused"),
         GoTo(p, AfterDecline(p, retriable)), UNCHANGED sub
  PROVE  Climbs(p)
<1> DEFINE at == AfterDecline(p, retriable)
           row == procs[p].seen
<1>0. at \in {"grace", "over", "dun", "suspend"} \cap ProcAt /\ row \in Row /\ row.attempt \in Nat
  BY DeclineLeads DEF TypeOK, Proc, Row
<1>1. /\ Others(p) /\ procs'[p].at = at
      /\ at \in Remembering => procs'[p].seen = row
  BY <1>0, GoRemembers
<1>2. Steady(p)
  BY <1>1, Hearing
<1>3. ASSUME at \in {"dun", "suspend"}
      PROVE  /\ procs[p].op = "retry_failed_payment"
             /\ Retrying(row) /\ Reached(row.attempt + 1)
             /\ at = "suspend" => ~Decide(row.status, row.attempt, retriable).retry
  BY <1>3 DEF AfterDecline, DunningStep, Ladder, KnowsOfLadder
<1>4. at \in {"dun", "suspend"} => \A k \in 1..(row.attempt + 1) : Tried(k)'
  BY <1>0, <1>2, <1>3, ReachedStays
<1>5. ASSUME at = "suspend" PROVE Earned'
  <2>1. CASE ~retriable
    <3>1. <<row.attempt + 1, "refused">> \in answered'
      BY <1>3, <1>5, <2>1 DEF Hears
    <3> QED BY <3>1 DEF Earned
  <2>2. CASE retriable
    <3>1. row.attempt + 1 > LastAttempt
      BY <1>0, <1>3, <1>5, <2>2, Decisions
    <3>2. LastAttempt \in Nat
      BY DunningAssumption DEF LastAttempt
    <3>3. 1..(LastAttempt + 1) \subseteq 1..(row.attempt + 1)
      BY <1>0, <3>1, <3>2
    <3>4. \A k \in 1..(LastAttempt + 1) : Tried(k)'
      BY <1>4, <1>5, <3>3
    <3>5. Reached(LastAttempt + 1)'
      BY <3>4 DEF Reached, LastAttempt
    <3> QED BY <3>5 DEF Earned
  <2> QED BY <2>1, <2>2
<1>6. ASSUME at = "dun" PROVE Retrying(procs'[p].seen) /\ Reached(procs[p].seen.attempt + 1)'
  <2>1. procs'[p].seen = row
    BY <1>1, <1>6 DEF Remembering
  <2> QED BY <1>3, <1>4, <1>6, <2>1 DEF Reached
<1>7. KnowsOfLadder(p)'
  <2>1. procs'[p].at = at /\ at \in {"grace", "over", "dun", "suspend"}
    BY <1>0, <1>1
  <2> HIDE DEF at, row
  <2> QED BY <1>5, <1>6, <2>1 DEF KnowsOfLadder, Retrying
<1> QED BY <1>2, <1>7 DEF Climbs

(* Every call to Nomba is answered, and the worker process never dies.     *)
NothingLost == InfraErrors = FALSE /\ MaxCrashes = 0

LEMMA HandlerClimbs ==
  ASSUME TypeOK, Ladder, NEW w \in Workers, Handler(w)
  PROVE  Climbs(w)
<1>0. w \in Procs /\ sub \in Row /\ sub.attempt \in Nat /\ KnowsOfLadder(w)
      /\ procs[w].seen \in Row /\ procs[w].seen.attempt \in Nat
  BY DEF Procs, TypeOK, Ladder, Row, Proc
<1>1. ASSUME NEW type \in JobTypes, NEW at \in ProcAt, Start(w, type, at),
             at \in OnLadder => at = "charge" /\ type = "expire_trial"
      PROVE  Climbs(w)
  <2>1. OffTheLadder(w)
    BY <1>0, <1>1, StartReads DEF OffTheLadder, OnLadder, money
  <2> QED BY <1>0, <2>1, OffTheLadderClimbs
<1>2. CASE ExpireTrial(w)
  <2>1. TrialStep(sub) \in {"succeed", "charge", "lapse"}
    BY DEF TrialStep
  <2> QED BY <1>1, <1>2, <2>1 DEF ExpireTrial, JobTypes, ProcAt, OnLadder
<1>3. CASE RetryFailedPayment(w)
  <2>1. CASE WantsRetry(sub)
    <3>1. Start(w, "retry_failed_payment", "take_attempt")
      BY <1>3, <2>1 DEF RetryFailedPayment
    <3>2. /\ Others(w) /\ procs[w].at = "idle" /\ procs'[w].at = "take_attempt"
          /\ procs'[w].op = "retry_failed_payment" /\ procs'[w].seen = sub
          /\ UNCHANGED <<sub, links, money, crashes>>
      BY <1>0, <3>1, StartReads DEF JobTypes, ProcAt, Remembering
    <3>3. Steady(w)
      BY <3>2 DEF Steady, money
    <3>4. \A k \in 1..sub.attempt : Tried(k)'
      BY <1>0, <3>3, ReachedStays DEF Ladder
    <3>5. Reached(procs[w].seen.attempt)'
      BY <3>2, <3>4 DEF Reached
    <3>6. KnowsOfLadder(w)'
      BY <2>1, <3>2, <3>5 DEF KnowsOfLadder, Retrying, WantsRetry
    <3> QED BY <3>2, <3>3, <3>6 DEF Climbs
  <2>2. CASE ~WantsRetry(sub)
    BY <1>1, <1>3, <2>2 DEF RetryFailedPayment, JobTypes, ProcAt, OnLadder
  <2> QED BY <2>1, <2>2
<1>4. CASE CancelAtPeriodEnd(w)
  BY <1>1, <1>4 DEF CancelAtPeriodEnd, JobTypes, ProcAt, OnLadder
<1>5. CASE CheckAbandonedCheckouts(w)
  BY <1>1, <1>5 DEF CheckAbandonedCheckouts, JobTypes, ProcAt, OnLadder
<1>6. CASE ClaimDunningAttempt(w)
  <2>1. CASE AttemptIsFree(sub, procs[w].seen.attempt)
    <3>1. GoTo(w, "charge") /\ sub' = AttemptTaken(sub) /\ UNCHANGED money
      BY <1>6, <2>1 DEF ClaimDunningAttempt
    <3>2. /\ Others(w) /\ procs'[w].at = "charge" /\ procs'[w].op = procs[w].op
          /\ procs'[w].seen = procs[w].seen
      BY <1>0, <3>1, GoRemembers DEF ProcAt, Remembering
    <3>3. Steady(w)
      BY <1>6, <3>1, <3>2 DEF Steady, money, ClaimDunningAttempt
    <3>4. /\ procs[w].op = "retry_failed_payment" /\ Retrying(procs[w].seen)
          /\ Reached(procs[w].seen.attempt)
      BY <1>0, <1>6 DEF KnowsOfLadder, ClaimDunningAttempt
    <3>5. \A k \in 1..procs[w].seen.attempt : Tried(k)'
      BY <1>0, <3>3, <3>4, ReachedStays
    <3>6. ASSUME NEW k, k = procs[w].seen.attempt + 1 PROVE Tried(k)'
      BY <1>0, <3>2, <3>4, <3>6 DEF Tried, Pending
    <3>7. \A k \in 1..(procs[w].seen.attempt + 1) : Tried(k)'
      BY <1>0, <3>5, <3>6
    <3>8. Reached(procs[w].seen.attempt + 1)'
      BY <3>2, <3>7 DEF Reached
    <3>9. sub.attempt = procs[w].seen.attempt
      BY <1>0, <2>1 DEF AttemptIsFree
    <3>10. sub'.attempt = procs[w].seen.attempt + 1 /\ sub'.status = sub.status
      BY <1>0, <3>1, <3>9, Columns
    <3>11. Reached(sub.attempt)'
      BY <3>7, <3>10 DEF Reached
    <3>12. KnowsOfLadder(w)'
      BY <3>2, <3>4, <3>8 DEF KnowsOfLadder
    <3> QED BY <3>3, <3>10, <3>11, <3>12 DEF Climbs
  <2>2. CASE ~AttemptIsFree(sub, procs[w].seen.attempt)
    <3>1. GoTo(w, "succeed") /\ UNCHANGED <<sub, money>>
      BY <1>6, <2>2 DEF ClaimDunningAttempt
    <3>2. Others(w) /\ procs'[w].at = "succeed"
      BY <1>0, <3>1, GoRemembers DEF ProcAt
    <3>3. OffTheLadder(w)
      BY <1>6, <3>1, <3>2 DEF OffTheLadder, OnLadder, money, ClaimDunningAttempt
    <3> QED BY <1>0, <3>3, OffTheLadderClimbs
  <2> QED BY <2>1, <2>2
<1>7. CASE ActionRequired(w)
  <2>1. Hears(w, IF TRUE THEN "declined" ELSE "refused")
    BY <1>7 DEF ActionRequired
  <2> QED BY <1>0, <1>7, <2>1, DeclineClimbs DEF ActionRequired
<1>8. ASSUME NEW at, at # "charge", NEW row, Write(w, at, row, "succeed")
      PROVE  /\ Steady(w) /\ KnowsOfLadder(w)' /\ sub' = row /\ procs[w].at = at
  <2>1. Others(w) /\ procs'[w].at = "succeed"
    BY <1>0, <1>8, GoRemembers DEF Write, ProcAt
  <2> QED BY <1>8, <2>1 DEF Write, Steady, KnowsOfLadder, money
<1>9. CASE EnterGrace(w)
  <2>1. Write(w, "grace", WithDunning(sub, "GRACE_PERIOD", 0), "succeed")
    BY <1>9 DEF EnterGrace
  <2>2. sub'.attempt = 0 /\ sub'.status = "GRACE_PERIOD"
    BY <1>0, <1>8, <2>1, Columns
  <2> QED BY <1>8, <2>1, <2>2 DEF Climbs, Reached
<1>10. CASE UpdateDunning(w)
  <2> DEFINE n == DunningStep(w, TRUE).attempt
  <2>1. Write(w, "dun", WithDunning(sub, "DUNNING", n), "succeed")
    BY <1>10, Zenon DEF UpdateDunning
  <2>2. Retrying(procs[w].seen) /\ Reached(procs[w].seen.attempt + 1)
    BY <1>0, <2>1 DEF KnowsOfLadder, Write
  <2>3. n \in {procs[w].seen.attempt, procs[w].seen.attempt + 1}
    BY <1>0, <2>2, Decisions DEF DunningStep
  <2> HIDE DEF n
  <2>4. sub'.attempt = n /\ sub'.status = "DUNNING" /\ Steady(w) /\ KnowsOfLadder(w)'
    BY <1>0, <1>8, <2>1, Columns
  <2>5. \A k \in 1..(procs[w].seen.attempt + 1) : Tried(k)'
    BY <1>0, <2>2, <2>4, ReachedStays
  <2>6. 1..n \subseteq 1..(procs[w].seen.attempt + 1)
    BY <1>0, <2>3
  <2>7. Reached(sub.attempt)'
    BY <2>4, <2>5, <2>6 DEF Reached
  <2> QED BY <2>4, <2>7 DEF Climbs
<1>11. CASE Suspend(w)
  <2>1. Write(w, "suspend", WithStatus(sub, "SUSPENDED"), "succeed")
    BY <1>11 DEF Suspend
  <2>2. sub'.attempt = sub.attempt /\ Steady(w) /\ KnowsOfLadder(w)' /\ procs[w].at = "suspend"
    BY <1>0, <1>8, <2>1, Columns
  <2>3. Earned'
    BY <1>0, <2>2, ReachedStays DEF KnowsOfLadder
  <2> QED BY <2>2, <2>3 DEF Climbs
<1>12. CASE Finish(w)
  <2>1. OffTheLadder(w)
    BY <1>12, FinishForgets DEF OffTheLadder, OnLadder, money
  <2> QED BY <1>0, <2>1, OffTheLadderClimbs
<1> QED BY <1>2, <1>3, <1>4, <1>5, <1>6, <1>7, <1>9, <1>10, <1>11, <1>12 DEF Handler

LEMMA ArrivalIsOff ==
  ASSUME TypeOK, NEW c \in Requests, Arrival(c)
  PROVE  OffTheLadder(c)
<1>0. c \in Procs
  BY DEF Procs
<1>1. ASSUME NEW op \in RequestOps, NEW at \in ProcAt \ OnLadder, Request(c, op, at)
      PROVE  OffTheLadder(c)
  BY <1>1, RequestReads DEF OffTheLadder, OnLadder, money
<1>2. ASSUME NEW op \in RequestOps, NEW kind, NewLink(c, op, kind)
      PROVE  OffTheLadder(c)
  <2>1. Put(c, Process("over", op, 0, sub, NoRef)) /\ procs[c].at = "new" /\ UNCHANGED <<sub, money>>
    BY <1>2 DEF NewLink
  <2>2. Others(c) /\ procs'[c].at = "over"
    BY <1>0, <2>1, ReadRemembers, References DEF ProcAt
  <2> QED BY <2>1, <2>2 DEF OffTheLadder, OnLadder, money
<1>3. CASE Cancel(c) \/ PortalCancel(c) \/ Pause(c) \/ Resume(c) \/ PortalResume(c)
  BY <1>1, <1>3
     DEF Cancel, PortalCancel, Pause, Resume, PortalResume, RequestOps, ProcAt, OnLadder
<1>4. CASE Recover(c) \/ RetryNow(c) \/ PaymentFailed(c)
  BY <1>1, <1>4 DEF Recover, RetryNow, PaymentFailed, RequestOps, ProcAt, OnLadder
<1>5. CASE RegenerateCheckout(c)
  BY <1>2, <1>5 DEF RegenerateCheckout, RequestOps
<1>6. CASE UpdatePaymentMethod(c)
  BY <1>2, <1>6 DEF UpdatePaymentMethod, RequestOps
<1>7. CASE PaymentSuccess(c)
  <2>1. PICK at \in {"store_card", "over", "renew"} :
          Put(c, Process(at, "payment_success", 0, sub, CheckoutRef))
    BY <1>7 DEF PaymentSuccess, AfterPayment
  <2>2. Others(c) /\ procs'[c].at = at
    BY <1>0, <2>1, ReadRemembers, References DEF RequestOps, ProcAt
  <2> QED BY <1>7, <2>2 DEF PaymentSuccess, OffTheLadder, OnLadder
<1> QED BY <1>3, <1>4, <1>5, <1>6, <1>7 DEF Arrival

LEMMA ServingIsOff ==
  ASSUME TypeOK, NEW c \in Requests, Serving(c)
  PROVE  OffTheLadder(c)
<1>0. c \in Procs /\ sub \in Row
  BY DEF Procs, TypeOK
<1>1. ASSUME NEW at \in {"recover", "flag", "pause", "resume", "store_card"}, NEW row,
             NEW next \in {"over", "queue_cancel", "renew", "charge"}, Write(c, at, row, next),
             next = "charge" => procs[c].op = "resume",
             row.status # "SUSPENDED" \/ row.status = sub.status,
             row.attempt \in {sub.attempt, 0}
      PROVE  OffTheLadder(c)
  <2>1. /\ Others(c) /\ procs'[c].at = next
        /\ next = "charge" => procs'[c].op = procs[c].op
    BY <1>0, <1>1, GoRemembers DEF Write, ProcAt
  <2> QED BY <1>1, <2>1 DEF Write, OffTheLadder, OnLadder, money
<1>2. CASE ResumeForward(c)
  BY <1>0, <1>1, <1>2, Columns DEF ResumeForward
<1>3. CASE FlagCancel(c)
  <2>1. PICK next \in {"queue_cancel", "over"} : Write(c, "flag", Cancelling(sub), next)
    BY <1>3 DEF FlagCancel
  <2> QED BY <1>0, <1>1, <2>1, Columns
<1>4. CASE PauseRow(c)
  BY <1>0, <1>1, <1>4, Columns DEF PauseRow
<1>5. CASE ResumeRow(c)
  BY <1>0, <1>1, <1>5, Columns DEF ResumeRow
<1>6. CASE UpdateTokenKey(c)
  <2>1. PICK next \in {"over", "renew"} : Write(c, "store_card", WithCard(sub), next)
    BY <1>6 DEF UpdateTokenKey, AfterPayment
  <2> QED BY <1>0, <1>1, <2>1, Columns
<1>7. CASE QueueCancel(c)
  <2>1. Others(c) /\ procs'[c].at \in {"succeed", "over"}
    BY <1>0, <1>7, GoRemembers DEF QueueCancel, QueueJob, Finishing, ProcAt
  <2> QED BY <1>7, <2>1 DEF QueueCancel, QueueJob, OffTheLadder, OnLadder, money
<1> QED BY <1>2, <1>3, <1>4, <1>5, <1>6, <1>7 DEF Serving

LEMMA EitherClimbs ==
  ASSUME TypeOK, Ladder, NothingLost, NEW p \in Procs, Either(p)
  PROVE  Climbs(p)
<1>0. sub \in Row /\ KnowsOfLadder(p)
  BY DEF TypeOK, Ladder
<1>1. ASSUME NEW at \in ProcAt \ OnLadder, GoTo(p, at), procs[p].at # "charge",
             UNCHANGED <<sub, answered>>
      PROVE  OffTheLadder(p)
  BY <1>1, GoRemembers DEF OffTheLadder
<1>2. ASSUME NEW at, at # "charge", NEW row, NEW next \in ProcAt \ OnLadder,
             Write(p, at, row, next), row.status # "SUSPENDED", row.attempt \in {sub.attempt, 0}
      PROVE  OffTheLadder(p)
  BY <1>2, GoRemembers DEF Write, OffTheLadder, money
<1>3. Finishing(p) \in {"succeed", "over"}
  BY DEF Finishing
<1>4. CASE Lapse(p)
  <2>1. PICK next \in {"succeed", "queue_retry"} :
          Write(p, "lapse", WithStatus(sub, "PAST_DUE"), next)
    BY <1>4 DEF Lapse
  <2> QED BY <1>0, <1>2, <2>1, Columns, OffTheLadderClimbs DEF ProcAt, OnLadder
<1>5. CASE Renew(p)
  <2>1. Write(p, "renew", Renewed(sub), "invoice")
    BY <1>5 DEF Renew
  <2> QED BY <1>0, <1>2, <2>1, Columns, OffTheLadderClimbs DEF ProcAt, OnLadder
<1>6. CASE CancelNow(p)
  <2>1. Write(p, "cancel", Cancelled(sub), Finishing(p))
    BY <1>6 DEF CancelNow
  <2> QED BY <1>0, <1>2, <1>3, <2>1, Columns, OffTheLadderClimbs DEF ProcAt, OnLadder
<1>7. CASE QueueRetry(p)
  BY <1>1, <1>3, <1>7, OffTheLadderClimbs DEF QueueRetry, QueueJob, money, ProcAt, OnLadder
<1>8. CASE ChargeAccepted(p)
  <2>1. PICK ref \in ChargeRefs(p) :
          Put(p, [procs[p] EXCEPT
                    !.at = IF procs[p].op = "resume" THEN "invoice" ELSE "renew", !.ref = ref])
    BY <1>8 DEF ChargeAccepted
  <2>2. Others(p) /\ procs'[p].at \in {"invoice", "renew"}
    <3> DEFINE at == IF procs[p].op = "resume" THEN "invoice" ELSE "renew"
               process == [procs[p] EXCEPT !.at = at, !.ref = ref]
    <3>1. process \in Proc /\ process.at = at /\ at \in {"invoice", "renew"}
      BY <1>8, ChargeRefTypes DEF ChargeAccepted, Proc, TypeOK, ProcAt
    <3>2. Put(p, process)
      BY <2>1
    <3> HIDE DEF process, at
    <3> QED BY <3>1, <3>2, PutRemembers DEF Remembered
  <2>3. Steady(p)
    BY <1>8, <2>2, Hearing DEF ChargeAccepted
  <2>4. KnowsOfLadder(p)'
    BY <2>2 DEF KnowsOfLadder
  <2> QED BY <1>8, <2>3, <2>4 DEF ChargeAccepted, Climbs
<1>9. CASE ChargeDeclined(p)
  <2>1. PICK retriable \in BOOLEAN :
          /\ Hears(p, IF retriable THEN "declined" ELSE "refused")
          /\ GoTo(p, AfterDecline(p, retriable))
    BY <1>9 DEF ChargeDeclined
  <2> QED BY <1>9, <2>1, DeclineClimbs DEF ChargeDeclined
<1>10. CASE ChargeUnanswered(p)
  BY <1>10 DEF ChargeUnanswered, NothingLost
<1>11. CASE CreateInvoice(p)
  BY <1>1, <1>3, <1>11, OffTheLadderClimbs DEF CreateInvoice, ProcAt, OnLadder
<1>12. CASE RecordCharge(p)
  BY <1>1, <1>12, OffTheLadderClimbs DEF RecordCharge, ProcAt, OnLadder
<1>13. CASE MarkPaid(p)
  BY <1>1, <1>3, <1>13, OffTheLadderClimbs DEF MarkPaid, ProcAt, OnLadder
<1> QED BY <1>4, <1>5, <1>6, <1>7, <1>8, <1>9, <1>10, <1>11, <1>12, <1>13 DEF Either

LEMMA LadderNext ==
  ASSUME TypeOK, Ladder, NothingLost, [Next]_vars
  PROVE  Ladder'
<1>1. CASE UNCHANGED <<sub, procs, answered>>
  BY <1>1 DEF Ladder, SuspensionIsEarned, KnowsOfLadder, Earned, Reached, Tried, Heard, Pending
<1>2. CASE \E w \in Workers : Handler(w)
  BY <1>2, HandlerClimbs, LadderStep DEF Procs
<1>3. CASE \E c \in Requests : Arrival(c) \/ Serving(c)
  BY <1>3, ArrivalIsOff, ServingIsOff, OffTheLadderClimbs, LadderStep DEF Procs
<1>4. CASE \E p \in Procs : Either(p)
  BY <1>4, EitherClimbs, LadderStep
<1>5. CASE \E i \in DOMAIN jobs : RecoverStaleLock(i)
  BY <1>1, <1>5 DEF RecoverStaleLock, money
<1>6. CASE Crash
  BY <1>6 DEF Crash, NothingLost, TypeOK
<1> QED BY <1>1, <1>2, <1>3, <1>4, <1>5, <1>6 DEF Next, vars

(* SuspensionIsEarned, for any dunning schedule and however many workers   *)
(* retry, as long as every call is answered and no worker dies: a worker   *)
(* may write the counter of a row it read long ago, but only a number it   *)
(* has itself put to Nomba, so RetryFailedPayment never skips an attempt.  *)
THEOREM SuspensionEarned ==
  ASSUME NothingLost, \A s \in Starts : s.status # "SUSPENDED"
  PROVE  Spec => []SuspensionIsEarned
<1>1. ASSUME Init PROVE Ladder
  <2>1. sub.status # "SUSPENDED" /\ sub.attempt = 0
    BY <1>1 DEF Init, NewRow
  <2>2. \A p \in Procs : procs[p].at \in {"idle", "new"}
    BY <1>1 DEF Init, Resting, Process
  <2> QED BY <2>1, <2>2 DEF Ladder, SuspensionIsEarned, KnowsOfLadder, Reached
<1>2. TypeOK /\ Ladder /\ [Next]_vars => Ladder'
  BY LadderNext
<1>3. Ladder => SuspensionIsEarned
  BY DEF Ladder
<1> QED BY <1>1, <1>2, <1>3, TypeCorrect, PTL DEF Spec

-----------------------------------------------------------------------------
(* What a status that was written can still be lost to.                    *)

(* The statuses from which a retry of the charge is some handlers away.    *)
Unpaid == {"PENDING_PAYMENT", "TRIALING", "PAST_DUE", "DUNNING"}

(* Whoever is about to collect the debt of the period or to write a status *)
(* that makes others collect it, and whoever has collected it.             *)
Pressing(p) ==
  \/ procs[p].at \in {"take_attempt", "dun", "lapse"}
  \/ procs[p].at = "charge" /\ procs[p].op \notin {"expire_trial", "resume"}

Settling(p) == procs[p].at = "renew" /\ procs[p].op \notin {"expire_trial", "resume"}

(* A step of p makes it neither Stale once the row is CANCELLED, nor       *)
(* Pressing once it is paid.                                               *)
Quiet(p) ==
  /\ Others(p)
  /\ sub.status = "CANCELLED" /\ ~Stale(p) => sub'.status = "CANCELLED" /\ ~Stale(p)'
  /\ sub.status \notin Unpaid /\ ~Pressing(p) => sub'.status \notin Unpaid /\ ~Pressing(p)'

(* It reads, or goes on, and leaves the status alone.                      *)
LEMMA ReadIsQuiet ==
  ASSUME NEW p \in Procs, Others(p), sub'.status = sub.status,
         procs'[p].at \in {"take_attempt", "dun", "lapse", "charge"} => sub.status \in Unpaid,
         procs'[p].at \in Deciding => sub.status # "CANCELLED",
         procs'[p].at = "store_card" => procs'[p].seen.status = sub.status
  PROVE  Quiet(p)
BY DEF Quiet, Stale, Pressing, Unpaid

(* It was about to write.                                                  *)
LEMMA WriteIsQuiet ==
  ASSUME NEW p \in Procs, Others(p), Stale(p),
         Pressing(p) \/ (sub'.status \notin Unpaid /\ ~Pressing(p)')
  PROVE  Quiet(p)
BY DEF Quiet

LEMMA HandlerIsQuiet ==
  ASSUME TypeOK, NEW w \in Workers, Handler(w)
  PROVE  Quiet(w)
<1>0. w \in Procs /\ sub \in Row
  BY DEF Procs, TypeOK
<1>1. ASSUME NEW type \in JobTypes, NEW at \in ProcAt, Start(w, type, at),
             at \in {"take_attempt", "dun", "lapse", "charge"} => sub.status \in Unpaid,
             at \notin {"renew", "recover", "grace", "suspend", "pause", "resume", "store_card"}
      PROVE  Quiet(w)
  <2>1. Others(w) /\ procs'[w].at = at /\ UNCHANGED sub
    BY <1>1, StartReads
  <2>2. at \in Deciding => sub.status # "CANCELLED"
    BY <1>1 DEF Deciding, Unpaid
  <2> QED BY <1>0, <1>1, <2>1, <2>2, ReadIsQuiet
<1>2. CASE ExpireTrial(w)
  <2>1. TrialStep(sub) \in {"succeed", "charge", "lapse"}
        /\ (TrialStep(sub) # "succeed" => sub.status = "TRIALING")
    BY DEF TrialStep
  <2> QED BY <1>1, <1>2, <2>1 DEF ExpireTrial, JobTypes, ProcAt, Unpaid
<1>3. CASE RetryFailedPayment(w)
  BY <1>1, <1>3 DEF RetryFailedPayment, WantsRetry, JobTypes, ProcAt, Unpaid
<1>4. CASE CancelAtPeriodEnd(w)
  BY <1>1, <1>4 DEF CancelAtPeriodEnd, JobTypes, ProcAt
<1>5. CASE CheckAbandonedCheckouts(w)
  BY <1>1, <1>5 DEF CheckAbandonedCheckouts, IsAbandoned, JobTypes, ProcAt, Unpaid
<1>6. CASE ClaimDunningAttempt(w)
  <2>1. PICK at \in {"charge", "succeed"} : GoTo(w, at)
    BY <1>6 DEF ClaimDunningAttempt
  <2>2. Others(w)
    BY <1>0, <2>1, GoRemembers DEF ProcAt
  <2>3. Stale(w) /\ Pressing(w)
    BY <1>6 DEF ClaimDunningAttempt, Stale, Pressing, Deciding
  <2> QED BY <1>0, <2>2, <2>3, WriteIsQuiet
<1>7. CASE ActionRequired(w)
  <2>1. Others(w)
    BY <1>0, <1>7, DeclineLeads, GoRemembers DEF ActionRequired
  <2>2. procs[w].at = "charge" /\ procs[w].op \notin {"expire_trial", "resume"}
    BY <1>7 DEF ActionRequired, ChargeRefs, Ref
  <2> QED BY <1>0, <2>1, <2>2, WriteIsQuiet DEF Stale, Pressing
<1>8. ASSUME NEW at \in Deciding, NEW row, Write(w, at, row, "succeed"),
             at = "dun" \/ row.status \notin Unpaid
      PROVE  Quiet(w)
  <2>1. Others(w) /\ procs'[w].at = "succeed" /\ procs[w].at = at /\ sub' = row
    BY <1>0, <1>8, GoRemembers DEF Write, ProcAt
  <2>2. Stale(w)
    BY <2>1 DEF Stale
  <2>3. Pressing(w) \/ (sub'.status \notin Unpaid /\ ~Pressing(w)')
    BY <1>8, <2>1 DEF Pressing
  <2> QED BY <1>0, <2>1, <2>2, <2>3, WriteIsQuiet
<1>9. CASE EnterGrace(w)
  BY <1>0, <1>8, <1>9, Columns DEF EnterGrace, Deciding, Unpaid
<1>10. CASE UpdateDunning(w)
  BY <1>8, <1>10 DEF UpdateDunning, Deciding
<1>11. CASE Suspend(w)
  BY <1>0, <1>8, <1>11, Columns DEF Suspend, Deciding, Unpaid
<1>12. CASE Finish(w)
  BY <1>0, <1>12, FinishForgets, ReadIsQuiet DEF Deciding
<1> QED BY <1>2, <1>3, <1>4, <1>5, <1>6, <1>7, <1>9, <1>10, <1>11, <1>12 DEF Handler

LEMMA ArrivalIsQuiet ==
  ASSUME TypeOK, NEW c \in Requests, Arrival(c)
  PROVE  Quiet(c)
<1>0. c \in Procs /\ sub \in Row /\ sub.status \in Statuses
  BY DEF Procs, TypeOK, Row
<1>1. ASSUME NEW op \in RequestOps, NEW at \in ProcAt \ {"store_card"}, Request(c, op, at),
             at \in {"take_attempt", "dun", "lapse", "charge"} => sub.status \in Unpaid,
             at \in Deciding => sub.status # "CANCELLED"
      PROVE  Quiet(c)
  <2>1. Others(c) /\ procs'[c].at = at /\ UNCHANGED sub
    BY <1>1, RequestReads
  <2> QED BY <1>0, <1>1, <2>1, ReadIsQuiet
<1>2. \A event : ~Permits("CANCELLED", event)
  BY DEF Permits, Transitions
<1>3. CASE Cancel(c)
  BY <1>1, <1>3 DEF Cancel, RequestOps, ProcAt, Deciding
<1>4. CASE PortalCancel(c)
  BY <1>1, <1>4 DEF PortalCancel, RequestOps, ProcAt, Deciding
<1>5. CASE Pause(c)
  BY <1>1, <1>2, <1>5 DEF Pause, RequestOps, ProcAt
<1>6. CASE Resume(c)
  BY <1>1, <1>2, <1>6 DEF Resume, RequestOps, ProcAt
<1>7. CASE PortalResume(c)
  BY <1>1, <1>2, <1>7 DEF PortalResume, RequestOps, ProcAt
<1>8. CASE Recover(c)
  BY <1>1, <1>2, <1>8 DEF Recover, RequestOps, ProcAt
<1>9. CASE RetryNow(c)
  BY <1>1, <1>9 DEF RetryNow, RequestOps, ProcAt, Deciding
<1>10. CASE RegenerateCheckout(c) \/ UpdatePaymentMethod(c)
  <2>1. PICK op \in RequestOps : Put(c, Process("over", op, 0, sub, NoRef)) /\ UNCHANGED sub
    BY <1>10 DEF RegenerateCheckout, UpdatePaymentMethod, NewLink, RequestOps
  <2>2. Others(c) /\ procs'[c].at = "over"
    BY <1>0, <2>1, ReadRemembers, References DEF ProcAt
  <2> QED BY <1>0, <2>1, <2>2, ReadIsQuiet DEF Deciding
<1>11. CASE PaymentSuccess(c)
  <2>1. PICK at \in {"store_card", AfterPayment(sub)} :
          Put(c, Process(at, "payment_success", 0, sub, CheckoutRef))
    BY <1>11 DEF PaymentSuccess
  <2>2. at \in ProcAt /\ at \in {"store_card", "over", "renew"}
        /\ (at = "renew" => sub.status = "PENDING_PAYMENT")
    BY <2>1 DEF AfterPayment, ActivatesOn, ProcAt
  <2>3. /\ Others(c) /\ procs'[c].at = at
        /\ at \in Remembering => procs'[c].seen = sub
    BY <1>0, <2>1, <2>2, ReadRemembers, References DEF RequestOps
  <2>4. UNCHANGED sub
    BY <1>11 DEF PaymentSuccess
  <2> QED BY <1>0, <2>2, <2>3, <2>4, ReadIsQuiet DEF Remembering, Deciding
<1>12. CASE PaymentFailed(c)
  BY <1>1, <1>12 DEF PaymentFailed, RequestOps, ProcAt, Unpaid
<1> QED BY <1>3, <1>4, <1>5, <1>6, <1>7, <1>8, <1>9, <1>10, <1>11, <1>12 DEF Arrival

LEMMA ServingIsQuiet ==
  ASSUME TypeOK, NEW c \in Requests, Serving(c)
  PROVE  Quiet(c)
<1>0. c \in Procs /\ sub \in Row
  BY DEF Procs, TypeOK
<1>1. ASSUME NEW at, NEW row, NEW next \in ProcAt, Write(c, at, row, next)
      PROVE  /\ Others(c) /\ procs'[c].at = next /\ procs[c].at = at /\ sub' = row
             /\ next \notin {"succeed", "fail", "over"} => procs'[c].op = procs[c].op
  BY <1>0, <1>1, GoRemembers DEF Write
<1>2. ASSUME NEW at \in Deciding, NEW row, row.status \notin Unpaid,
             NEW next \in {"over", "charge"}, Write(c, at, row, next),
             next = "charge" => procs[c].op = "resume"
      PROVE  Quiet(c)
  <2>1. /\ Others(c) /\ procs'[c].at = next /\ procs[c].at = at /\ sub' = row
        /\ next = "charge" => procs'[c].op = "resume"
    BY <1>1, <1>2 DEF ProcAt
  <2>2. Stale(c) /\ ~Pressing(c)'
    BY <2>1 DEF Stale, Pressing
  <2> QED BY <1>0, <1>2, <2>1, <2>2, WriteIsQuiet
<1>3. CASE ResumeForward(c)
  BY <1>0, <1>2, <1>3, Columns DEF ResumeForward, Deciding, Unpaid
<1>4. CASE FlagCancel(c)
  <2>1. PICK next \in {"queue_cancel", "over"} : Write(c, "flag", Cancelling(sub), next)
    BY <1>4 DEF FlagCancel
  <2>2. Others(c) /\ procs'[c].at = next /\ sub' = Cancelling(sub)
    BY <1>1, <2>1 DEF ProcAt
  <2> QED BY <1>0, <2>2, Columns, ReadIsQuiet DEF Deciding
<1>5. CASE PauseRow(c)
  BY <1>0, <1>2, <1>5, Columns DEF PauseRow, Deciding, Unpaid
<1>6. CASE ResumeRow(c)
  <2>1. PICK next \in {"over", "charge"} :
          Write(c, "resume", Resumed(sub), next) /\ (next = "charge" => procs[c].op = "resume")
    BY <1>6 DEF ResumeRow
  <2> QED BY <1>0, <1>2, <2>1, Columns DEF Deciding, Unpaid
<1>7. CASE UpdateTokenKey(c)
  <2>1. PICK next \in {"over", "renew"} :
          Write(c, "store_card", WithCard(sub), next)
          /\ (next = "renew" => procs[c].seen.status = "PENDING_PAYMENT")
    BY <1>7 DEF UpdateTokenKey, AfterPayment, ActivatesOn
  <2>2. Others(c) /\ procs'[c].at = next /\ procs[c].at = "store_card" /\ sub' = WithCard(sub)
    BY <1>1, <2>1 DEF ProcAt
  <2>3. sub'.status = sub.status
    BY <1>0, <2>2, Columns
  <2>4. CASE next = "over"
    BY <1>0, <2>2, <2>3, <2>4, ReadIsQuiet DEF Deciding
  <2>5. CASE next = "renew"
    BY <2>1, <2>2, <2>3, <2>5 DEF Quiet, Stale, Pressing
  <2> QED BY <2>4, <2>5
<1>8. CASE QueueCancel(c)
  <2>1. Others(c) /\ procs'[c].at \in {"succeed", "over"} /\ UNCHANGED sub
    BY <1>0, <1>8, GoRemembers DEF QueueCancel, QueueJob, Finishing, ProcAt
  <2> QED BY <1>0, <2>1, ReadIsQuiet DEF Deciding
<1> QED BY <1>3, <1>4, <1>5, <1>6, <1>7, <1>8 DEF Serving

(* What Nomba's yes does to the process that asked.                        *)
LEMMA AcceptanceLeads ==
  ASSUME TypeOK, NEW p \in Procs, ChargeAccepted(p)
  PROVE  /\ Others(p) /\ procs[p].at = "charge" /\ UNCHANGED sub
         /\ procs'[p].at = IF procs[p].op = "resume" THEN "invoice" ELSE "renew"
         /\ procs'[p].op = procs[p].op
         /\ \E ref \in ChargeRefs(p) : collected' = collected \cup {ref}
<1> DEFINE at == IF procs[p].op = "resume" THEN "invoice" ELSE "renew"
<1>1. PICK ref \in ChargeRefs(p) :
        /\ collected' = collected \cup {ref}
        /\ Put(p, [procs[p] EXCEPT !.at = at, !.ref = ref])
  BY DEF ChargeAccepted
<1> DEFINE process == [procs[p] EXCEPT !.at = at, !.ref = ref]
<1>2. /\ process \in Proc /\ process.at = at /\ at \in {"invoice", "renew"}
      /\ process.op = procs[p].op
  BY ChargeRefTypes DEF Proc, TypeOK, ProcAt
<1>3. Put(p, process)
  BY <1>1
<1> HIDE DEF process, at
<1>4. Others(p) /\ procs'[p].at = at /\ procs'[p].op = procs[p].op
  BY <1>2, <1>3, PutRemembers DEF Remembered
<1> QED BY <1>1, <1>4 DEF ChargeAccepted, at

LEMMA EitherIsQuiet ==
  ASSUME TypeOK, NEW p \in Procs, Either(p)
  PROVE  Quiet(p)
<1>0. sub \in Row
  BY DEF TypeOK
<1>1. ASSUME NEW at \in ProcAt \ (Deciding \cup {"charge", "store_card"}), GoTo(p, at),
             UNCHANGED sub
      PROVE  Quiet(p)
  <2>1. Others(p) /\ procs'[p].at = at
    BY <1>1, GoRemembers
  <2> QED BY <1>1, <2>1, ReadIsQuiet DEF Deciding
<1>2. ASSUME NEW at, NEW row, NEW next \in ProcAt, Write(p, at, row, next)
      PROVE  Others(p) /\ procs'[p].at = next /\ procs[p].at = at /\ sub' = row
  BY <1>2, GoRemembers DEF Write
<1>3. Finishing(p) \in {"succeed", "over"}
  BY DEF Finishing
<1>4. CASE Lapse(p)
  <2>1. PICK next \in {"succeed", "queue_retry"} :
          Write(p, "lapse", WithStatus(sub, "PAST_DUE"), next)
    BY <1>4 DEF Lapse
  <2>2. Others(p) /\ procs[p].at = "lapse"
    BY <1>2, <2>1 DEF ProcAt
  <2> QED BY <2>2, WriteIsQuiet DEF Stale, Pressing, Deciding
<1>5. CASE Renew(p)
  <2>1. Others(p) /\ procs'[p].at = "invoice" /\ procs[p].at = "renew" /\ sub' = Renewed(sub)
    BY <1>2, <1>5 DEF Renew, ProcAt
  <2>2. sub'.status = "ACTIVE"
    BY <1>0, <2>1, Columns
  <2> QED BY <2>1, <2>2, WriteIsQuiet DEF Stale, Pressing, Deciding, Unpaid
<1>6. CASE CancelNow(p)
  <2>1. Others(p) /\ procs'[p].at = Finishing(p) /\ sub' = Cancelled(sub)
    BY <1>2, <1>3, <1>6 DEF CancelNow, ProcAt
  <2>2. sub'.status = "CANCELLED"
    BY <1>0, <2>1, Columns
  <2> QED BY <1>3, <2>1, <2>2 DEF Quiet, Stale, Pressing, Deciding, Unpaid
<1>7. CASE QueueRetry(p)
  BY <1>1, <1>3, <1>7 DEF QueueRetry, QueueJob, ProcAt, Deciding
<1>8. CASE ChargeAccepted(p)
  <2>1. /\ Others(p) /\ procs[p].at = "charge" /\ UNCHANGED sub
        /\ procs'[p].at = IF procs[p].op = "resume" THEN "invoice" ELSE "renew"
    BY <1>8, AcceptanceLeads
  <2> QED BY <2>1 DEF Quiet, Stale, Pressing, Deciding
<1>9. CASE ChargeDeclined(p)
  <2>1. PICK retriable \in BOOLEAN : GoTo(p, AfterDecline(p, retriable))
    BY <1>9 DEF ChargeDeclined
  <2>2. Others(p) /\ procs'[p].at = AfterDecline(p, retriable)
    BY <2>1, DeclineLeads, GoRemembers
  <2>3. procs[p].at = "charge" /\ UNCHANGED sub
    BY <1>9 DEF ChargeDeclined
  <2>4. /\ procs[p].op = "resume" => procs'[p].at = "over"
        /\ procs[p].op = "expire_trial" => procs'[p].at = "grace"
    BY <2>2 DEF AfterDecline
  <2> QED BY <2>2, <2>3, <2>4 DEF Quiet, Stale, Pressing, Deciding
<1>10. CASE ChargeUnanswered(p)
  BY <1>1, <1>10 DEF ChargeUnanswered, ProcAt, Deciding
<1>11. CASE CreateInvoice(p)
  BY <1>1, <1>3, <1>11 DEF CreateInvoice, ProcAt, Deciding
<1>12. CASE RecordCharge(p)
  BY <1>1, <1>12 DEF RecordCharge, ProcAt, Deciding
<1>13. CASE MarkPaid(p)
  BY <1>1, <1>3, <1>13 DEF MarkPaid, ProcAt, Deciding
<1> QED BY <1>4, <1>5, <1>6, <1>7, <1>8, <1>9, <1>10, <1>11, <1>12, <1>13 DEF Either

(* Every step is a quiet step of one process, or moves none.               *)
LEMMA StepsAreQuiet ==
  ASSUME TypeOK, [Next]_vars
  PROVE  \/ \E p \in Procs : Quiet(p)
         \/ sub'.status = sub.status
            /\ \A p \in Procs : procs'[p].at = "idle" \/ procs'[p] = procs[p]
<1>1. CASE UNCHANGED vars
  BY <1>1 DEF vars
<1>2. CASE \E w \in Workers : Handler(w)
  BY <1>2, HandlerIsQuiet DEF Procs
<1>3. CASE \E c \in Requests : Arrival(c) \/ Serving(c)
  BY <1>3, ArrivalIsQuiet, ServingIsQuiet DEF Procs
<1>4. CASE \E p \in Procs : Either(p)
  BY <1>4, EitherIsQuiet
<1>5. CASE \E i \in DOMAIN jobs : RecoverStaleLock(i)
  BY <1>5 DEF RecoverStaleLock
<1>6. CASE Crash
  BY <1>6, CrashForgets DEF Crash
<1> QED BY <1>1, <1>2, <1>3, <1>4, <1>5, <1>6 DEF Next

-----------------------------------------------------------------------------
(* Cancelled for good.                                                     *)

(* CancelledEnds, for any number of workers, requests and jobs: the        *)
(* handlers under way when a row was cancelled are all that could revive   *)
(* it, since every other one reads the row, and Transition or the test of  *)
(* its handler stops it.                                                   *)
THEOREM CancelledAfterAll == Spec => CancelledEnds
<1> DEFINE Ends == sub.status = "CANCELLED" =>
                     /\ StaleProcs' \subseteq StaleProcs
                     /\ StaleProcs = {} => sub'.status = "CANCELLED"
<1>1. TypeOK /\ [Next]_vars => Ends
  <2> SUFFICES ASSUME TypeOK, [Next]_vars, sub.status = "CANCELLED"
               PROVE  /\ \A q \in Procs : Stale(q)' => Stale(q)
                      /\ (\A q \in Procs : ~Stale(q)) => sub'.status = "CANCELLED"
    BY DEF StaleProcs
  <2>1. CASE \E p \in Procs : Quiet(p)
    <3>1. PICK p \in Procs : Quiet(p)
      BY <2>1
    <3>2. ~Stale(p) => sub'.status = "CANCELLED" /\ ~Stale(p)'
      BY <3>1 DEF Quiet
    <3>3. \A q \in Procs : q # p => (Stale(q)' <=> Stale(q))
      BY <3>1 DEF Quiet, Others, Stale
    <3> QED BY <3>2, <3>3
  <2>2. CASE /\ sub'.status = sub.status
             /\ \A p \in Procs : procs'[p].at = "idle" \/ procs'[p] = procs[p]
    BY <2>2 DEF Stale, Deciding
  <2> QED BY <2>1, <2>2, StepsAreQuiet
<1> QED BY <1>1, TypeCorrect, PTL DEF Spec, CancelledEnds

-----------------------------------------------------------------------------
(* One debt, collected once.                                               *)

PeriodRails == {"card", "mandate", "wallet"}

Period == {ref \in collected : ref.rail \in PeriodRails}

(* Two processes are never about the debt at the same time, as if each     *)
(* held a lock on the row from its read to its write.                      *)
TakingTurns ==
  \A p, q \in Procs : p # q => ~((Pressing(p) \/ Settling(p)) /\ (Pressing(q) \/ Settling(q)))

(* Money for the period is taken once, and then nobody asks again.         *)
CollectedOnce ==
  Period = {} \/
    /\ \A r, s \in Period : r = s
    /\ \/ \E p \in Procs : Settling(p)
       \/ sub.status \notin Unpaid /\ \A p \in Procs : ~Pressing(p)

(* What a step may take, and who may take it.                              *)
LEMMA Takings ==
  ASSUME TypeOK, InfraErrors = FALSE, NEW p \in Procs,
         \/ p \in Workers /\ Handler(p)
         \/ p \in Requests /\ (Arrival(p) \/ Serving(p))
         \/ Either(p)
  PROVE  \/ Period' = Period /\ procs[p].at # "renew"
         \/ Renew(p)
         \/ ChargeAccepted(p)
<1>1. CheckoutRef.rail \notin PeriodRails /\ Verification.rail \notin PeriodRails
  BY DEF CheckoutRef, Verification, Ref, PeriodRails
<1>2. CASE p \in Workers /\ Handler(p)
  BY <1>2 DEF Handler, ExpireTrial, RetryFailedPayment, CancelAtPeriodEnd, CheckAbandonedCheckouts,
              Start, ClaimDunningAttempt, ActionRequired, EnterGrace, UpdateDunning, Suspend, Write,
              Finish, money, Period
<1>3. CASE p \in Requests /\ PaymentSuccess(p)
  BY <1>1, <1>3 DEF PaymentSuccess, Period
<1>4. CASE p \in Requests /\ Arrival(p) /\ ~PaymentSuccess(p)
  BY <1>4 DEF Arrival, Cancel, PortalCancel, Pause, Resume, PortalResume, Recover, RetryNow,
              RegenerateCheckout, UpdatePaymentMethod, PaymentFailed, Request, NewLink, money, Period
<1>5. CASE p \in Requests /\ Serving(p)
  BY <1>5 DEF Serving, ResumeForward, FlagCancel, PauseRow, ResumeRow, UpdateTokenKey, Write,
              QueueCancel, QueueJob, money, Period
<1>6. CASE Either(p) /\ ~Renew(p) /\ ~ChargeAccepted(p)
  BY <1>6 DEF Either, Lapse, CancelNow, QueueRetry, ChargeDeclined, ChargeUnanswered,
              CreateInvoice, RecordCharge, MarkPaid, Write, QueueJob, money, Period
<1> QED BY <1>2, <1>3, <1>4, <1>5, <1>6

LEMMA CollectedOnceStep ==
  ASSUME TypeOK, NothingLost, CollectedOnce, TakingTurns, [Next]_vars
  PROVE  CollectedOnce'
<1>1. CASE UNCHANGED vars \/ \E i \in DOMAIN jobs : RecoverStaleLock(i)
  BY <1>1 DEF vars, RecoverStaleLock, money, CollectedOnce, Period, Settling, Pressing
<1>2. ~Crash
  BY DEF NothingLost, Crash, TypeOK
<1>3. ASSUME NEW p \in Procs,
             \/ p \in Workers /\ Handler(p)
             \/ p \in Requests /\ (Arrival(p) \/ Serving(p))
             \/ Either(p)
      PROVE  CollectedOnce'
  <2>1. Quiet(p)
    BY <1>3, HandlerIsQuiet, ArrivalIsQuiet, ServingIsQuiet, EitherIsQuiet
  <2>2. \A q \in Procs : q # p => (Settling(q)' <=> Settling(q)) /\ (Pressing(q)' <=> Pressing(q))
    BY <2>1 DEF Quiet, Others, Settling, Pressing
  <2>3. CASE Period' = Period /\ procs[p].at # "renew"
    <3>1. ASSUME NEW q \in Procs, Settling(q) PROVE Settling(q)'
      BY <2>2, <2>3, <3>1 DEF Settling
    <3>2. ASSUME sub.status \notin Unpaid, \A q \in Procs : ~Pressing(q)
          PROVE  sub'.status \notin Unpaid /\ \A q \in Procs : ~Pressing(q)'
      BY <2>1, <2>2, <3>2 DEF Quiet
    <3> QED BY <2>3, <3>1, <3>2 DEF CollectedOnce
  <2>4. CASE Renew(p)
    <3>1. Period' = Period /\ procs[p].at = "renew" /\ sub' = Renewed(sub) /\ sub \in Row
      BY <2>4 DEF Renew, Write, money, Period, TypeOK
    <3>2. sub'.status \notin Unpaid /\ ~Pressing(p)
      BY <3>1, Columns DEF Unpaid, Pressing
    <3>3. procs'[p].at = "invoice"
      BY <2>4, GoRemembers DEF Renew, Write, ProcAt
    <3>4. ASSUME NEW q \in Procs, Settling(q) PROVE Settling(q)' \/ \A r \in Procs : ~Pressing(r)'
      <4>1. CASE q # p
        BY <2>2, <3>4, <4>1
      <4>2. CASE q = p
        <5>1. \A r \in Procs : r # p => ~Pressing(r)
          BY <3>4, <4>2 DEF TakingTurns
        <5> QED BY <2>2, <3>3, <5>1 DEF Pressing
      <4> QED BY <4>1, <4>2
    <3>5. ASSUME \A q \in Procs : ~Pressing(q) PROVE \A q \in Procs : ~Pressing(q)'
      BY <2>2, <3>3, <3>5 DEF Pressing
    <3> QED BY <3>1, <3>2, <3>4, <3>5 DEF CollectedOnce
  <2>5. CASE ChargeAccepted(p)
    <3>1. /\ procs[p].at = "charge" /\ UNCHANGED sub
          /\ procs'[p].at = IF procs[p].op = "resume" THEN "invoice" ELSE "renew"
          /\ procs'[p].op = procs[p].op
      BY <2>5, AcceptanceLeads
    <3>2. PICK ref \in ChargeRefs(p) : collected' = collected \cup {ref}
      BY <2>5, AcceptanceLeads
    <3>3. CASE procs[p].op \in {"expire_trial", "resume"}
      <4>1. ref.rail \notin PeriodRails
        BY <3>2, <3>3 DEF ChargeRefs, Ref, PeriodRails
      <4>2. Period' = Period
        BY <3>2, <4>1 DEF Period
      <4>3. ~Settling(p) /\ ~Pressing(p)
        BY <3>1, <3>3 DEF Settling, Pressing
      <4>4. ASSUME NEW q \in Procs, Settling(q) PROVE Settling(q)'
        BY <2>2, <4>3, <4>4
      <4>5. ASSUME sub.status \notin Unpaid, \A q \in Procs : ~Pressing(q)
            PROVE  sub'.status \notin Unpaid /\ \A q \in Procs : ~Pressing(q)'
        BY <2>1, <2>2, <4>5 DEF Quiet
      <4> QED BY <4>2, <4>4, <4>5 DEF CollectedOnce
    <3>4. CASE procs[p].op \notin {"expire_trial", "resume"}
      <4>1. Pressing(p) /\ Settling(p)' /\ ~Settling(p)
        BY <3>1, <3>4 DEF Pressing, Settling
      <4>2. \A q \in Procs : ~Settling(q)
        BY <4>1 DEF TakingTurns
      <4>3. Period = {}
        BY <4>1, <4>2 DEF CollectedOnce
      <4>4. \A r, s \in Period' : r = s
        BY <3>2, <4>3 DEF Period
      <4> QED BY <4>1, <4>4 DEF CollectedOnce
    <3> QED BY <3>3, <3>4
  <2> QED BY <1>3, <2>3, <2>4, <2>5, Takings DEF NothingLost
<1> QED BY <1>1, <1>2, <1>3 DEF Next, Procs

(* DebtIsCollectedOnce (README.md:132) is true when handlers take turns:   *)
(* when no two of them are between their read of the unpaid row and their  *)
(* write of the outcome at the same time, no answer of Nomba is lost and   *)
(* no worker dies.  The claim of an attempt number gives each of two       *)
(* handlers an order reference of its own; what is missing is that the     *)
(* second looks at the row again.                                          *)
THEOREM TurnsCollectOnce ==
  ASSUME NothingLost
  PROVE  Spec /\ []TakingTurns => []DebtIsCollectedOnce
<1>1. Init => CollectedOnce
  BY DEF Init, CollectedOnce, Period
<1>2. TypeOK /\ CollectedOnce /\ TakingTurns /\ [Next]_vars => CollectedOnce'
  BY CollectedOnceStep
<1>3. CollectedOnce => DebtIsCollectedOnce
  BY DEF CollectedOnce, DebtIsCollectedOnce, Period, PeriodRails
<1> QED BY <1>1, <1>2, <1>3, TypeCorrect, PTL DEF Spec

-----------------------------------------------------------------------------
(* A payment that was waited for.                                          *)

(* A webhook of a payment that will write it to the ledger.                *)
Bringing(p) ==
  /\ procs[p].ref = CheckoutRef
  /\ \/ procs[p].at \in OnTheWay
     \/ procs[p].at = "store_card" /\ ActivatesOn(procs[p].seen)

Received == CheckoutRef \in ledger \/ \E c \in Requests : Bringing(c)

Receives ==
  /\ Received => Received'
  /\ \A c \in Requests : PaymentSuccess(c) /\ sub.status = "PENDING_PAYMENT" => Received'

(* The invoice of the checkout stops a second webhook only where the first *)
(* goes on or is done, and no job ever has that reference.                 *)
CheckoutKept ==
  /\ CheckoutRef \in DOMAIN invoices =>
       \/ CheckoutRef \in ledger
       \/ \E c \in Requests : procs[c].at = "ledger" /\ procs[c].ref = CheckoutRef
  /\ \A w \in Workers : procs[w].at \in OnTheWay => procs[w].ref # CheckoutRef

(* A step of p that writes neither invoices nor the ledger, and drops no   *)
(* payment.                                                                *)
Forwards(p) ==
  /\ Others(p)
  /\ UNCHANGED <<invoices, ledger>>
  /\ procs[p].at # "ledger"
  /\ Bringing(p) => Bringing(p)'
  /\ p \in Workers /\ procs'[p].at \in OnTheWay => procs'[p].ref # CheckoutRef
  /\ PaymentSuccess(p) /\ sub.status = "PENDING_PAYMENT" => p \in Requests /\ Bringing(p)'

LEMMA ForwardsKeeps ==
  ASSUME CheckoutKept, NEW p \in Procs, Forwards(p),
         \A c \in Requests \ {p} : ~PaymentSuccess(c)
  PROVE  CheckoutKept' /\ Receives
<1>1. \A q \in Procs : q # p => procs'[q] = procs[q]
  BY DEF Forwards, Others
<1>2. \A c \in Requests : Bringing(c) => Bringing(c)'
  BY <1>1 DEF Forwards, Bringing, Procs
<1>3. CheckoutKept'
  <2>1. \A c \in Requests : procs[c].at = "ledger" => procs'[c] = procs[c]
    BY <1>1 DEF Forwards, Procs
  <2>2. \A w \in Workers : procs'[w].at \in OnTheWay => procs'[w].ref # CheckoutRef
    BY <1>1 DEF Forwards, CheckoutKept, Procs
  <2> QED BY <2>1, <2>2 DEF Forwards, CheckoutKept
<1>4. Receives
  BY <1>2 DEF Forwards, Receives, Received
<1> QED BY <1>3, <1>4

(* It was not at a payment and does not come to one.                       *)
LEMMA ElsewhereForwards ==
  ASSUME NEW p \in Procs, Others(p), UNCHANGED <<invoices, ledger>>,
         procs[p].at \notin OnTheWay \cup {"store_card", "new"}, procs'[p].at \notin OnTheWay
  PROVE  Forwards(p)
BY DEF Forwards, Bringing, PaymentSuccess, OnTheWay

LEMMA HandlerForwards ==
  ASSUME TypeOK, NEW w \in Workers, Handler(w)
  PROVE  Forwards(w)
<1> USE DEF OnTheWay, money
<1>0. w \in Procs
  BY DEF Procs
<1>1. ASSUME NEW type \in JobTypes, NEW at \in ProcAt \ OnTheWay, Start(w, type, at)
      PROVE  Forwards(w)
  BY <1>0, <1>1, StartReads, ElsewhereForwards
<1>2. CASE ExpireTrial(w)
  BY <1>1, <1>2 DEF ExpireTrial, TrialStep, JobTypes, ProcAt
<1>3. CASE RetryFailedPayment(w)
  BY <1>1, <1>3 DEF RetryFailedPayment, JobTypes, ProcAt
<1>4. CASE CancelAtPeriodEnd(w)
  BY <1>1, <1>4 DEF CancelAtPeriodEnd, JobTypes, ProcAt
<1>5. CASE CheckAbandonedCheckouts(w)
  BY <1>1, <1>5 DEF CheckAbandonedCheckouts, JobTypes, ProcAt
<1>6. CASE ClaimDunningAttempt(w)
  <2>1. PICK at \in {"charge", "succeed"} : GoTo(w, at)
    BY <1>6 DEF ClaimDunningAttempt
  <2>2. Others(w) /\ procs'[w].at = at
    BY <1>0, <2>1, GoRemembers DEF ProcAt
  <2> QED BY <1>0, <1>6, <2>2, ElsewhereForwards DEF ClaimDunningAttempt
<1>7. CASE ActionRequired(w)
  <2>1. AfterDecline(w, TRUE) \in {"grace", "over", "dun", "suspend"} \cap ProcAt
    BY <1>0, DeclineLeads
  <2>2. Others(w) /\ procs'[w].at = AfterDecline(w, TRUE)
    BY <1>0, <1>7, <2>1, GoRemembers DEF ActionRequired
  <2> QED BY <1>0, <1>7, <2>1, <2>2, ElsewhereForwards DEF ActionRequired
<1>8. CASE EnterGrace(w) \/ UpdateDunning(w) \/ Suspend(w)
  <2>1. /\ procs[w].at \in {"grace", "dun", "suspend"} /\ GoTo(w, "succeed")
        /\ UNCHANGED <<invoices, ledger>>
    BY <1>8 DEF EnterGrace, UpdateDunning, Suspend, Write
  <2>2. Others(w) /\ procs'[w].at = "succeed"
    BY <1>0, <2>1, GoRemembers DEF ProcAt
  <2> QED BY <1>0, <2>1, <2>2, ElsewhereForwards
<1>9. CASE Finish(w)
  BY <1>0, <1>9, FinishForgets, ElsewhereForwards
<1> QED BY <1>2, <1>3, <1>4, <1>5, <1>6, <1>7, <1>8, <1>9 DEF Handler

(* The webhook of a payment: it read the row, and holds the reference of   *)
(* the checkout.                                                           *)
LEMMA PaymentReads ==
  ASSUME TypeOK, NEW c \in Requests, PaymentSuccess(c)
  PROVE  /\ procs[c].at = "new" /\ procs'[c] # procs[c]
         /\ Others(c) /\ UNCHANGED <<sub, invoices, ledger>>
         /\ sub.status = "PENDING_PAYMENT" => Bringing(c)'
<1>0. c \in Procs /\ sub \in Row /\ CheckoutRef \in Refs /\ 0 \in Nat
  BY References DEF Procs, TypeOK
<1>1. PICK at \in {"store_card", AfterPayment(sub)} :
        Put(c, Process(at, "payment_success", 0, sub, CheckoutRef))
  BY DEF PaymentSuccess
<1>2. at \in ProcAt /\ "payment_success" \in JobTypes \cup RequestOps
  BY DEF AfterPayment, ProcAt, RequestOps
<1>3. /\ Others(c) /\ procs'[c].at = at
      /\ at \in Remembering => procs'[c].seen = sub
  BY <1>0, <1>1, <1>2, ReadRemembers
<1>4. at \in Holding => procs'[c].ref = CheckoutRef
  BY <1>0, <1>1, <1>2, Processes, Putting DEF TypeOK
<1>5. sub.status = "PENDING_PAYMENT" => Bringing(c)'
  <2> SUFFICES ASSUME sub.status = "PENDING_PAYMENT" PROVE Bringing(c)'
    OBVIOUS
  <2>1. at \in {"store_card", "renew"}
    BY DEF AfterPayment, ActivatesOn
  <2>2. at = "store_card" => ActivatesOn(procs'[c].seen)
    BY <1>3 DEF Remembering, ActivatesOn
  <2> QED BY <1>3, <1>4, <2>1, <2>2 DEF Bringing, Holding, OnTheWay, ActivatesOn
<1>6. procs[c].at = "new" /\ at # "new"
  BY DEF PaymentSuccess, AfterPayment
<1> QED BY <1>3, <1>5, <1>6 DEF PaymentSuccess

LEMMA ArrivalForwards ==
  ASSUME TypeOK, NEW c \in Requests, Arrival(c)
  PROVE  Forwards(c)
<1>1. /\ procs[c].at = "new" /\ Others(c) /\ UNCHANGED <<invoices, ledger>>
  <2>1. OffTheBooks(c)
    BY ArrivalOffTheBooks
  <2>2. procs[c].at = "new"
    BY DEF Arrival, Cancel, PortalCancel, Pause, Resume, PortalResume, Recover, RetryNow,
           RegenerateCheckout, UpdatePaymentMethod, PaymentSuccess, PaymentFailed, Request, NewLink
  <2> QED BY <2>1, <2>2 DEF OffTheBooks, Others
<1>2. ~Bringing(c)
  BY <1>1 DEF Bringing, OnTheWay
<1>3. c \notin Workers
  BY BillingAssumption
<1> QED BY <1>1, <1>2, <1>3, PaymentReads DEF Forwards

LEMMA ServingForwards ==
  ASSUME TypeOK, NEW c \in Requests, Serving(c)
  PROVE  Forwards(c)
<1>0. c \in Procs /\ c \notin Workers
  BY BillingAssumption DEF Procs
<1>1. UNCHANGED <<invoices, ledger>> /\ Others(c)
  BY ServingOffTheBooks DEF OffTheBooks, Others
<1>2. CASE procs[c].at \in {"recover", "flag", "pause", "resume", "queue_cancel"}
  BY <1>0, <1>1, <1>2 DEF Forwards, Bringing, OnTheWay, PaymentSuccess
<1>3. CASE UpdateTokenKey(c)
  <2>1. procs[c].at = "store_card" /\ GoTo(c, AfterPayment(procs[c].seen))
    BY <1>3 DEF UpdateTokenKey, Write
  <2>2. AfterPayment(procs[c].seen) \in ProcAt
    BY DEF AfterPayment, ProcAt
  <2>3. /\ procs'[c].at = AfterPayment(procs[c].seen)
        /\ AfterPayment(procs[c].seen) \in Holding => procs'[c].ref = procs[c].ref
    BY <1>0, <2>1, <2>2, Going DEF TypeOK
  <2>4. Bringing(c) => Bringing(c)'
    BY <2>1, <2>3 DEF Bringing, AfterPayment, OnTheWay, Holding
  <2> QED BY <1>0, <1>1, <2>1, <2>4 DEF Forwards, PaymentSuccess
<1> QED BY <1>2, <1>3 DEF Serving, ResumeForward, FlagCancel, PauseRow, ResumeRow, QueueCancel,
                          Write, QueueJob

LEMMA EitherForwards ==
  ASSUME TypeOK, CheckoutKept, NEW p \in Procs, Either(p),
         ~CreateInvoice(p), ~RecordCharge(p), ~MarkPaid(p)
  PROVE  Forwards(p)
<1>1. UNCHANGED <<invoices, ledger>> /\ Others(p)
  BY EitherOffTheBooks DEF OffTheBooks, Others
<1>2. CASE Lapse(p) \/ CancelNow(p) \/ QueueRetry(p)
  <2>1. PICK at \in {"succeed", "over", "queue_retry"} : GoTo(p, at)
    BY <1>2 DEF Lapse, CancelNow, QueueRetry, Write, QueueJob, Finishing
  <2>2. procs'[p].at = at
    BY <2>1, GoRemembers DEF ProcAt
  <2>3. procs[p].at \in {"lapse", "cancel", "queue_retry"}
    BY <1>2 DEF Lapse, CancelNow, QueueRetry, Write, QueueJob
  <2> QED BY <1>1, <2>2, <2>3, ElsewhereForwards DEF OnTheWay
<1>3. CASE Renew(p)
  <2>1. procs[p].at = "renew" /\ GoTo(p, "invoice")
    BY <1>3 DEF Renew, Write
  <2>2. procs'[p].at = "invoice" /\ procs'[p].ref = procs[p].ref
    BY <2>1, Going DEF TypeOK, ProcAt, Holding
  <2>3. Bringing(p) => Bringing(p)'
    BY <2>2 DEF Bringing, OnTheWay
  <2>4. p \in Workers => procs'[p].ref # CheckoutRef
    BY <2>1, <2>2 DEF CheckoutKept, OnTheWay
  <2> QED BY <1>1, <2>1, <2>3, <2>4 DEF Forwards, PaymentSuccess
<1>4. CASE ChargeAccepted(p)
  <2> DEFINE at == IF procs[p].op = "resume" THEN "invoice" ELSE "renew"
  <2>1. PICK ref \in ChargeRefs(p) : Put(p, [procs[p] EXCEPT !.at = at, !.ref = ref])
    BY <1>4 DEF ChargeAccepted
  <2> DEFINE process == [procs[p] EXCEPT !.at = at, !.ref = ref]
  <2>2. at \in {"invoice", "renew"} /\ {"invoice", "renew"} \subseteq ProcAt /\ ref \in Refs
    BY ChargeRefTypes DEF ProcAt
  <2> HIDE DEF at
  <2>3. process \in Proc /\ process.at = at /\ process.ref = ref
    BY <2>2 DEF TypeOK, Proc
  <2>4. Put(p, process)
    BY <2>1
  <2> HIDE DEF process
  <2>5. procs'[p].ref = ref
    BY <2>2, <2>3, <2>4, Putting DEF TypeOK, Holding
  <2>6. ref # CheckoutRef
    BY DEF ChargeRefs, RetryRails, LadderRail, Ref, CheckoutRef
  <2>7. procs[p].at = "charge"
    BY <1>4 DEF ChargeAccepted
  <2> QED BY <1>1, <2>5, <2>6, <2>7 DEF Forwards, Bringing, OnTheWay, PaymentSuccess
<1>5. CASE ChargeDeclined(p)
  <2>1. PICK retriable \in BOOLEAN : GoTo(p, AfterDecline(p, retriable))
    BY <1>5 DEF ChargeDeclined
  <2>2. AfterDecline(p, retriable) \in {"grace", "over", "dun", "suspend"} \cap ProcAt
    BY DeclineLeads
  <2>3. procs'[p].at = AfterDecline(p, retriable)
    BY <2>1, <2>2, GoRemembers
  <2>4. procs[p].at = "charge"
    BY <1>5 DEF ChargeDeclined
  <2> QED BY <1>1, <2>2, <2>3, <2>4, ElsewhereForwards DEF OnTheWay
<1>6. CASE ChargeUnanswered(p)
  <2>1. PICK at \in {"fail", "over"} : GoTo(p, at)
    BY <1>6 DEF ChargeUnanswered
  <2>2. procs'[p].at = at
    BY <2>1, GoRemembers DEF ProcAt
  <2>3. procs[p].at = "charge"
    BY <1>6 DEF ChargeUnanswered
  <2> QED BY <1>1, <2>2, <2>3, ElsewhereForwards DEF OnTheWay
<1> QED BY <1>2, <1>3, <1>4, <1>5, <1>6 DEF Either

(* The unique key of invoices: who finds his invoice there stops, and the  *)
(* payment is in the hands of another webhook, or written.                 *)
LEMMA InvoiceReceives ==
  ASSUME TypeOK, CheckoutKept, WriteErrors = FALSE, NEW p \in Procs, CreateInvoice(p)
  PROVE  CheckoutKept' /\ (Received => Received')
<1>1. procs[p].at = "invoice" /\ UNCHANGED ledger
  BY DEF CreateInvoice
<1>2. CASE GoTo(p, "ledger") /\ DOMAIN invoices' = DOMAIN invoices \cup {procs[p].ref}
  <2>1. /\ procs'[p].at = "ledger" /\ procs'[p].ref = procs[p].ref
        /\ \A q \in Procs : q # p => procs'[q] = procs[q]
    BY <1>2, Going DEF TypeOK, ProcAt, Holding
  <2>2. procs[p].ref = CheckoutRef => p \in Requests
    BY <1>1 DEF CheckoutKept, Procs, OnTheWay
  <2>3. \A c \in Requests : Bringing(c) => Bringing(c)'
    BY <1>1, <2>1 DEF Bringing, Procs, OnTheWay
  <2>4. \A c \in Requests : procs[c].at = "ledger" => procs'[c] = procs[c]
    BY <1>1, <2>1 DEF Procs
  <2>5. \A w \in Workers : procs'[w].at \in OnTheWay => procs'[w].ref # CheckoutRef
    BY <1>1, <2>1 DEF CheckoutKept, Procs, OnTheWay
  <2>6. CheckoutRef \in DOMAIN invoices' =>
          \/ CheckoutRef \in ledger'
          \/ \E c \in Requests : procs'[c].at = "ledger" /\ procs'[c].ref = CheckoutRef
    <3>1. CASE procs[p].ref = CheckoutRef
      BY <2>1, <2>2, <3>1
    <3>2. CASE procs[p].ref # CheckoutRef
      BY <1>1, <1>2, <2>4, <3>2 DEF CheckoutKept
    <3> QED BY <3>1, <3>2
  <2> QED BY <1>1, <2>3, <2>5, <2>6 DEF CheckoutKept, Received
<1>3. CASE GoTo(p, Finishing(p)) /\ InvoiceExists(procs[p].ref) /\ UNCHANGED invoices
  <2>1. /\ procs'[p].at \notin OnTheWay
        /\ \A q \in Procs : q # p => procs'[q] = procs[q]
    BY <1>3, Going DEF TypeOK, ProcAt, Finishing, OnTheWay
  <2>2. \A c \in Requests : procs[c].at = "ledger" => procs'[c] = procs[c]
    BY <1>1, <2>1 DEF Procs
  <2>3. CheckoutKept'
    <3>1. \A w \in Workers : procs'[w].at \in OnTheWay => procs'[w].ref # CheckoutRef
      BY <2>1 DEF CheckoutKept, Procs
    <3> QED BY <1>1, <1>3, <2>2, <3>1 DEF CheckoutKept
  <2>4. Received => Received'
    <3>1. CASE Bringing(p)
      <4>1. CheckoutRef \in DOMAIN invoices'
        BY <1>3, <3>1 DEF Bringing, InvoiceExists
      <4> QED BY <2>3, <4>1 DEF CheckoutKept, Received, Bringing, OnTheWay
    <3>2. CASE ~Bringing(p)
      <4>1. \A c \in Requests : Bringing(c) => Bringing(c)'
        BY <2>1, <3>2 DEF Bringing, Procs
      <4> QED BY <1>1, <4>1 DEF Received
    <3> QED BY <3>1, <3>2
  <2> QED BY <2>3, <2>4
<1> QED BY <1>2, <1>3 DEF CreateInvoice

LEMMA LedgerReceives ==
  ASSUME TypeOK, CheckoutKept, WriteErrors = FALSE, NEW p \in Procs, RecordCharge(p)
  PROVE  CheckoutKept' /\ (Received => Received')
<1>1. /\ procs[p].at = "ledger" /\ GoTo(p, "mark_paid") /\ UNCHANGED invoices
      /\ ledger' = ledger \cup {procs[p].ref}
  BY DEF RecordCharge
<1>2. /\ procs'[p].at = "mark_paid"
      /\ \A q \in Procs : q # p => procs'[q] = procs[q]
  BY <1>1, Going DEF TypeOK, ProcAt
<1>3. procs[p].ref = CheckoutRef => CheckoutRef \in ledger'
  BY <1>1
<1>4. \A c \in Requests : procs[c].at = "ledger" /\ procs[c].ref = CheckoutRef =>
        CheckoutRef \in ledger' \/ procs'[c] = procs[c]
  BY <1>2, <1>3 DEF Procs
<1>5. \A c \in Requests : Bringing(c) => CheckoutRef \in ledger' \/ Bringing(c)'
  BY <1>2, <1>3 DEF Bringing, Procs
<1>6. \A w \in Workers : procs'[w].at \in OnTheWay => procs'[w].ref # CheckoutRef
  BY <1>2 DEF CheckoutKept, Procs, OnTheWay
<1> QED BY <1>1, <1>4, <1>5, <1>6 DEF CheckoutKept, Received

LEMMA MarkReceives ==
  ASSUME TypeOK, CheckoutKept, NEW p \in Procs, MarkPaid(p)
  PROVE  CheckoutKept' /\ (Received => Received')
<1>1. /\ procs[p].at = "mark_paid" /\ GoTo(p, Finishing(p)) /\ UNCHANGED ledger
      /\ DOMAIN invoices' = DOMAIN invoices
  BY DEF MarkPaid
<1>2. /\ procs'[p].at \notin OnTheWay
      /\ \A q \in Procs : q # p => procs'[q] = procs[q]
  BY <1>1, Going DEF TypeOK, ProcAt, Finishing, OnTheWay
<1>3. \A c \in Requests : procs[c].at = "ledger" => procs'[c] = procs[c]
  BY <1>1, <1>2 DEF Procs
<1>4. \A c \in Requests : Bringing(c) => Bringing(c)'
  BY <1>1, <1>2 DEF Bringing, Procs, OnTheWay
<1>5. \A w \in Workers : procs'[w].at \in OnTheWay => procs'[w].ref # CheckoutRef
  BY <1>2 DEF CheckoutKept, Procs
<1> QED BY <1>1, <1>3, <1>4, <1>5 DEF CheckoutKept, Received

LEMMA StepReceives ==
  ASSUME TypeOK, CheckoutKept, WriteErrors = FALSE, [Next]_vars
  PROVE  CheckoutKept' /\ Receives
<1>0. ASSUME NEW p \in Procs, Others(p) PROVE \A c \in Requests \ {p} : ~PaymentSuccess(c)
  BY <1>0, PaymentReads DEF Others, Procs
<1>1. ASSUME NEW p \in Procs, Forwards(p) PROVE CheckoutKept' /\ Receives
  BY <1>0, <1>1, ForwardsKeeps DEF Forwards
<1>2. CASE \E w \in Workers : Handler(w)
  BY <1>1, <1>2, HandlerForwards DEF Procs
<1>3. CASE \E c \in Requests : Arrival(c) \/ Serving(c)
  BY <1>1, <1>3, ArrivalForwards, ServingForwards DEF Procs
<1>4. ASSUME NEW p \in Procs, Either(p) PROVE CheckoutKept' /\ Receives
  <2>1. CASE CreateInvoice(p) \/ RecordCharge(p) \/ MarkPaid(p)
    <3>1. CheckoutKept' /\ (Received => Received')
      BY <2>1, InvoiceReceives, LedgerReceives, MarkReceives
    <3>2. procs[p].at # "new" /\ Others(p)
      <4>1. PICK at \in {"ledger", "mark_paid", "succeed", "over"} : GoTo(p, at)
        BY <2>1 DEF CreateInvoice, RecordCharge, MarkPaid, Finishing
      <4>2. procs[p].at # "new"
        BY <2>1 DEF CreateInvoice, RecordCharge, MarkPaid
      <4> QED BY <4>1, <4>2, GoRemembers DEF ProcAt
    <3>3. \A c \in Requests : ~PaymentSuccess(c)
      BY <1>0, <3>2 DEF PaymentSuccess
    <3> QED BY <3>1, <3>3 DEF Receives
  <2>2. CASE ~CreateInvoice(p) /\ ~RecordCharge(p) /\ ~MarkPaid(p)
    BY <1>1, <1>4, <2>2, EitherForwards
  <2> QED BY <2>1, <2>2
<1>5. ASSUME \A c \in Requests : procs'[c] = procs[c], UNCHANGED <<invoices, ledger>>,
             \A w \in Workers : procs'[w] = procs[w] \/ procs'[w].at = "idle"
      PROVE  CheckoutKept' /\ Receives
  <2>1. \A c \in Requests : ~PaymentSuccess(c)
    BY <1>5, PaymentReads
  <2>2. \A c \in Requests : Bringing(c) => Bringing(c)'
    BY <1>5 DEF Bringing
  <2>3. CheckoutKept'
    BY <1>5 DEF CheckoutKept, OnTheWay
  <2> QED BY <1>5, <2>1, <2>2, <2>3 DEF Receives, Received
<1>6. CASE \E i \in DOMAIN jobs : RecoverStaleLock(i)
  BY <1>5, <1>6 DEF RecoverStaleLock, money
<1>7. CASE Crash
  <2>1. \A c \in Requests : c \notin Workers
    BY BillingAssumption
  <2>2. \A p \in Procs : procs'[p] = IF p \in Workers THEN Resting("idle", 0) ELSE procs[p]
    BY <1>7 DEF Crash
  <2>3. Resting("idle", 0).at = "idle"
    BY DEF Resting, Process
  <2> QED BY <1>5, <1>7, <2>1, <2>2, <2>3 DEF Crash, Procs, money
<1>8. CASE UNCHANGED vars
  BY <1>5, <1>8 DEF vars
<1> QED BY <1>2, <1>3, <1>4, <1>6, <1>7, <1>8 DEF Next

(* "payment recorded" (nomba_webhook.go:281) is true of the payments       *)
(* somebody waited for: one that finds the row PENDING_PAYMENT is written  *)
(* to the ledger, or is in the hands of a webhook that will write it,      *)
(* whatever other webhooks, workers and requests do to the row meanwhile   *)
(* and whichever worker dies, as long as no INSERT fails.  The payments    *)
(* that are lost found another status.                                     *)
THEOREM AwaitedPaymentsAreKept ==
  ASSUME WriteErrors = FALSE
  PROVE  Spec => [][Receives]_vars
<1>1. Init => CheckoutKept
  BY DEF Init, CheckoutKept, Procs, Resting, Process, OnTheWay
<1>2. TypeOK /\ CheckoutKept /\ [Next]_vars => CheckoutKept' /\ Receives
  BY StepReceives
<1> QED BY <1>1, <1>2, TypeCorrect, PTL DEF Spec

-----------------------------------------------------------------------------
(* What a cancellation at period end stops.                                *)

(* A retry that has read the row and has yet to hear about its charge.     *)
Recharging(p) ==
  \/ procs[p].at = "take_attempt"
  \/ procs[p].at = "charge" /\ procs[p].op \notin {"expire_trial", "resume"}

Rechargers == {p \in Procs : Recharging(p)}

FlagEnds ==
  sub.cancelling =>
    /\ sub'.cancelling
    /\ Rechargers' \subseteq Rechargers
    /\ Rechargers = {} => Period' = Period

(* A step of p that retries no charge of a row that is being cancelled.    *)
Spares(p) ==
  /\ Others(p)
  /\ sub.cancelling /\ ~Recharging(p) => ~Recharging(p)' /\ Period' = Period

LEMMA ElsewhereSpares ==
  ASSUME NEW p \in Procs, Others(p), UNCHANGED money, procs'[p].at \notin {"take_attempt", "charge"}
  PROVE  Spares(p)
BY DEF Spares, Recharging, Period, money

LEMMA HandlerSpares ==
  ASSUME TypeOK, NEW w \in Workers, Handler(w)
  PROVE  Spares(w)
<1>0. w \in Procs
  BY DEF Procs
<1>1. ASSUME NEW type \in JobTypes, NEW at \in ProcAt, Start(w, type, at),
             at = "take_attempt" => ~sub.cancelling,
             at = "charge" => type = "expire_trial"
      PROVE  Spares(w)
  <2>1. /\ Others(w) /\ procs'[w].at = at /\ UNCHANGED money
        /\ at = "charge" => procs'[w].op = type
    BY <1>0, <1>1, StartReads
  <2> QED BY <1>1, <2>1 DEF Spares, Recharging, Period, money
<1>2. CASE ExpireTrial(w)
  <2>1. TrialStep(sub) \in {"succeed", "charge", "lapse"}
    BY DEF TrialStep
  <2> QED BY <1>1, <1>2, <2>1 DEF ExpireTrial, JobTypes, ProcAt
<1>3. CASE RetryFailedPayment(w)
  BY <1>1, <1>3 DEF RetryFailedPayment, WantsRetry, JobTypes, ProcAt
<1>4. CASE CancelAtPeriodEnd(w)
  BY <1>1, <1>4 DEF CancelAtPeriodEnd, JobTypes, ProcAt
<1>5. CASE CheckAbandonedCheckouts(w)
  BY <1>1, <1>5 DEF CheckAbandonedCheckouts, JobTypes, ProcAt
<1>6. CASE ClaimDunningAttempt(w)
  <2>1. PICK at \in {"charge", "succeed"} : GoTo(w, at)
    BY <1>6 DEF ClaimDunningAttempt
  <2>2. Others(w)
    BY <1>0, <2>1, GoRemembers DEF ProcAt
  <2> QED BY <1>6, <2>2 DEF ClaimDunningAttempt, Spares, Recharging
<1>7. CASE ActionRequired(w)
  <2>1. AfterDecline(w, TRUE) \in {"grace", "over", "dun", "suspend"} \cap ProcAt
    BY <1>0, DeclineLeads
  <2>2. Others(w) /\ procs'[w].at = AfterDecline(w, TRUE)
    BY <1>0, <1>7, <2>1, GoRemembers DEF ActionRequired
  <2> QED BY <1>7, <2>1, <2>2 DEF ActionRequired, Spares, Recharging, Period
<1>8. CASE EnterGrace(w) \/ UpdateDunning(w) \/ Suspend(w)
  <2>1. GoTo(w, "succeed") /\ UNCHANGED money
    BY <1>8 DEF EnterGrace, UpdateDunning, Suspend, Write
  <2>2. Others(w) /\ procs'[w].at = "succeed"
    BY <1>0, <2>1, GoRemembers DEF ProcAt
  <2> QED BY <1>0, <2>1, <2>2, ElsewhereSpares
<1>9. CASE Finish(w)
  BY <1>0, <1>9, FinishForgets, ElsewhereSpares
<1> QED BY <1>2, <1>3, <1>4, <1>5, <1>6, <1>7, <1>8, <1>9 DEF Handler

LEMMA ArrivalSpares ==
  ASSUME TypeOK, NEW c \in Requests, Arrival(c)
  PROVE  Spares(c)
<1>0. c \in Procs /\ sub \in Row /\ NoRef \in Refs /\ CheckoutRef \in Refs /\ 0 \in Nat
  BY References DEF Procs, TypeOK
<1>1. ASSUME NEW op \in RequestOps, NEW at \in ProcAt \ {"take_attempt", "charge"},
             Put(c, Process(at, op, 0, sub, NoRef)), UNCHANGED money
      PROVE  Spares(c)
  <2>1. Others(c) /\ procs'[c].at = at
    BY <1>0, <1>1, ReadRemembers
  <2> QED BY <1>0, <1>1, <2>1, ElsewhereSpares
<1>2. CASE Cancel(c) \/ PortalCancel(c) \/ Pause(c) \/ Resume(c) \/ PortalResume(c)
             \/ Recover(c) \/ RetryNow(c) \/ PaymentFailed(c)
  BY <1>1, <1>2 DEF Cancel, PortalCancel, Pause, Resume, PortalResume, Recover,
                    RetryNow, PaymentFailed, Request, RequestOps, ProcAt
<1>3. CASE RegenerateCheckout(c) \/ UpdatePaymentMethod(c)
  BY <1>1, <1>3 DEF RegenerateCheckout, UpdatePaymentMethod, NewLink, RequestOps, ProcAt
<1>4. CASE PaymentSuccess(c)
  <2>1. PICK at \in {"store_card", AfterPayment(sub)} :
          Put(c, Process(at, "payment_success", 0, sub, CheckoutRef))
    BY <1>4 DEF PaymentSuccess
  <2>2. at \in ProcAt \ {"take_attempt", "charge"} /\ "payment_success" \in JobTypes \cup RequestOps
    BY DEF AfterPayment, ProcAt, RequestOps
  <2>3. Others(c) /\ procs'[c].at = at
    BY <1>0, <2>1, <2>2, ReadRemembers
  <2>4. Period' = Period
    BY <1>4 DEF PaymentSuccess, Period, PeriodRails, CheckoutRef, Verification, Ref
  <2> QED BY <2>2, <2>3, <2>4 DEF Spares, Recharging
<1> QED BY <1>2, <1>3, <1>4 DEF Arrival

LEMMA ServingSpares ==
  ASSUME TypeOK, NEW c \in Requests, Serving(c)
  PROVE  Spares(c)
<1>0. c \in Procs
  BY DEF Procs
<1>1. ASSUME NEW at \in ProcAt \ {"take_attempt", "charge"}, GoTo(c, at), UNCHANGED money
      PROVE  Spares(c)
  BY <1>0, <1>1, GoRemembers, ElsewhereSpares
<1>2. CASE ResumeForward(c) \/ FlagCancel(c) \/ PauseRow(c)
  BY <1>1, <1>2 DEF ResumeForward, FlagCancel, PauseRow, Write, ProcAt
<1>3. CASE ResumeRow(c)
  <2>1. CASE GoTo(c, "over") /\ UNCHANGED money
    BY <1>1, <2>1 DEF ProcAt
  <2>2. CASE GoTo(c, "charge") /\ procs[c].op = "resume" /\ UNCHANGED money
    <3>1. Others(c) /\ procs'[c].at = "charge" /\ procs'[c].op = "resume"
      BY <1>0, <2>2, GoRemembers DEF ProcAt
    <3> QED BY <2>2, <3>1 DEF Spares, Recharging, Period, money
  <2> QED BY <1>3, <2>1, <2>2 DEF ResumeRow, Write
<1>4. CASE UpdateTokenKey(c)
  BY <1>1, <1>4 DEF UpdateTokenKey, Write, AfterPayment, ProcAt
<1>5. CASE QueueCancel(c)
  BY <1>1, <1>5 DEF QueueCancel, QueueJob, Finishing, ProcAt, money
<1> QED BY <1>2, <1>3, <1>4, <1>5 DEF Serving

(* The end of a trial and a resume are charged under references of their   *)
(* own.                                                                    *)
LEMMA TrialAndResumeRefs ==
  ASSUME NEW p \in Procs, procs[p].op \in {"expire_trial", "resume"}, NEW ref \in ChargeRefs(p)
  PROVE  ref.rail \notin PeriodRails
BY DEF ChargeRefs, Ref, PeriodRails

LEMMA EitherSpares ==
  ASSUME TypeOK, NEW p \in Procs, Either(p)
  PROVE  Spares(p)
<1>1. ASSUME NEW at \in ProcAt \ {"take_attempt", "charge"}, GoTo(p, at), UNCHANGED collected
      PROVE  Spares(p)
  <2>1. Others(p) /\ procs'[p].at = at
    BY <1>1, GoRemembers
  <2> QED BY <1>1, <2>1 DEF Spares, Recharging, Period
<1>2. CASE Lapse(p) \/ Renew(p) \/ CancelNow(p) \/ QueueRetry(p)
  BY <1>1, <1>2 DEF Lapse, Renew, CancelNow, QueueRetry, Write, QueueJob, Finishing, ProcAt, money
<1>3. CASE ChargeAccepted(p)
  <2> DEFINE at == IF procs[p].op = "resume" THEN "invoice" ELSE "renew"
  <2>1. PICK ref \in ChargeRefs(p) :
          /\ collected' = collected \cup {ref}
          /\ Put(p, [procs[p] EXCEPT !.at = at, !.ref = ref])
    BY <1>3 DEF ChargeAccepted
  <2> DEFINE process == [procs[p] EXCEPT !.at = at, !.ref = ref]
  <2>2. at \in {"invoice", "renew"} /\ {"invoice", "renew"} \subseteq ProcAt /\ ref \in Refs
    BY ChargeRefTypes DEF ProcAt
  <2> HIDE DEF at
  <2>3. process \in Proc /\ process.at = at
    BY <2>2 DEF TypeOK, Proc
  <2>4. Put(p, process)
    BY <2>1
  <2> HIDE DEF process
  <2>5. Others(p) /\ procs'[p].at = at
    BY <2>3, <2>4, PutRemembers DEF Remembered
  <2>6. ~Recharging(p) => Period' = Period
    <3> SUFFICES ASSUME ~Recharging(p) PROVE Period' = Period
      OBVIOUS
    <3>1. procs[p].op \in {"expire_trial", "resume"}
      BY <1>3 DEF ChargeAccepted, Recharging
    <3>2. ref.rail \notin PeriodRails
      BY <2>1, <3>1, TrialAndResumeRefs
    <3> QED BY <2>1, <3>2 DEF Period
  <2> QED BY <2>2, <2>5, <2>6 DEF Spares, Recharging
<1>4. CASE ChargeDeclined(p)
  <2>1. PICK retriable \in BOOLEAN : GoTo(p, AfterDecline(p, retriable))
    BY <1>4 DEF ChargeDeclined
  <2>2. AfterDecline(p, retriable) \in {"grace", "over", "dun", "suspend"} \cap ProcAt
    BY DeclineLeads
  <2> QED BY <1>1, <1>4, <2>1, <2>2 DEF ChargeDeclined
<1>5. CASE ChargeUnanswered(p)
  <2>1. PICK ref \in ChargeRefs(p), at \in {"fail", "over"} :
          collected' \in {collected, collected \cup {ref}} /\ GoTo(p, at)
    BY <1>5 DEF ChargeUnanswered
  <2>2. Others(p) /\ procs'[p].at = at
    BY <2>1, GoRemembers DEF ProcAt
  <2>3. ~Recharging(p) => Period' = Period
    <3> SUFFICES ASSUME ~Recharging(p) PROVE Period' = Period
      OBVIOUS
    <3>1. procs[p].op \in {"expire_trial", "resume"}
      BY <1>5 DEF ChargeUnanswered, Recharging
    <3>2. ref.rail \notin PeriodRails
      BY <2>1, <3>1, TrialAndResumeRefs
    <3> QED BY <2>1, <3>2 DEF Period
  <2> QED BY <2>1, <2>2, <2>3 DEF Spares, Recharging
<1>6. CASE CreateInvoice(p) \/ RecordCharge(p) \/ MarkPaid(p)
  <2>1. PICK at \in {"ledger", "mark_paid", "succeed", "over"} : GoTo(p, at)
    BY <1>6 DEF CreateInvoice, RecordCharge, MarkPaid, Finishing
  <2> QED BY <1>1, <1>6, <2>1 DEF CreateInvoice, RecordCharge, MarkPaid, ProcAt
<1> QED BY <1>2, <1>3, <1>4, <1>5, <1>6 DEF Either

(* No statement clears the flag.                                           *)
LEMMA FlagStays ==
  ASSUME TypeOK, [Next]_vars, sub.cancelling
  PROVE  sub'.cancelling
<1>0. sub \in Row
  BY DEF TypeOK
<1>1. /\ \A s : WithStatus(sub, s).cancelling
      /\ \A s, n : WithDunning(sub, s, n).cancelling
      /\ Renewed(sub).cancelling /\ Cancelled(sub).cancelling /\ Paused(sub).cancelling
      /\ Resumed(sub).cancelling /\ Cancelling(sub).cancelling /\ WithCard(sub).cancelling
      /\ AttemptTaken(sub).cancelling
  BY <1>0 DEF Row, WithStatus, WithDunning, Renewed, Cancelled, Paused, Resumed, Cancelling,
              WithCard, AttemptTaken
<1>2. CASE UNCHANGED vars \/ Crash \/ \E i \in DOMAIN jobs : RecoverStaleLock(i)
  BY <1>2 DEF vars, Crash, RecoverStaleLock
<1>3. CASE \E w \in Workers : Handler(w)
  BY <1>1, <1>3 DEF Handler, ExpireTrial, RetryFailedPayment, CancelAtPeriodEnd,
     CheckAbandonedCheckouts, Start, ClaimDunningAttempt, ActionRequired, EnterGrace,
     UpdateDunning, Suspend, Write, Finish
<1>4. CASE \E c \in Requests : Arrival(c)
  BY <1>4 DEF Arrival, Cancel, PortalCancel, Pause, Resume, PortalResume, Recover, RetryNow,
     RegenerateCheckout, UpdatePaymentMethod, PaymentSuccess, PaymentFailed, Request, NewLink
<1>5. CASE \E c \in Requests : Serving(c)
  BY <1>1, <1>5 DEF Serving, ResumeForward, FlagCancel, PauseRow, ResumeRow, UpdateTokenKey,
     Write, QueueCancel, QueueJob
<1>6. CASE \E p \in Procs : Either(p)
  BY <1>1, <1>6 DEF Either, Lapse, Renew, CancelNow, QueueRetry, ChargeAccepted, ChargeDeclined,
     ChargeUnanswered, CreateInvoice, RecordCharge, MarkPaid, Write, QueueJob
<1> QED BY <1>2, <1>3, <1>4, <1>5, <1>6 DEF Next

(* "a cancelling customer is never charged again" (ARCHITECTURE.md:870) is *)
(* true of the retries of the ladder, except for those under way when the  *)
(* flag was set: a flag stays, while it is there no retry comes to its     *)
(* charge that was not there before, be it of a job queued earlier, queued *)
(* since or run again after a crash, and once those are gone Nomba takes   *)
(* no money for the period.  Only the end of a trial (handlers.go:211) and *)
(* a resume charge a flagged row: they do not look at the flag.            *)
THEOREM FlaggedRowsAreSpared == Spec => [][FlagEnds]_vars
<1>1. TypeOK /\ [Next]_vars => FlagEnds
  <2> SUFFICES ASSUME TypeOK, [Next]_vars, sub.cancelling
               PROVE  /\ \A q \in Procs : Recharging(q)' => Recharging(q)
                      /\ (\A q \in Procs : ~Recharging(q)) => Period' = Period
    BY FlagStays DEF FlagEnds, Rechargers
  <2>1. ASSUME NEW p \in Procs, Spares(p)
        PROVE  /\ \A q \in Procs : Recharging(q)' => Recharging(q)
               /\ (\A q \in Procs : ~Recharging(q)) => Period' = Period
    <3>1. ~Recharging(p) => ~Recharging(p)' /\ Period' = Period
      BY <2>1 DEF Spares
    <3>2. \A q \in Procs : q # p => (Recharging(q)' <=> Recharging(q))
      BY <2>1 DEF Spares, Others, Recharging
    <3> QED BY <3>1, <3>2
  <2>2. CASE \E p \in Procs : Spares(p)
    BY <2>1, <2>2
  <2>3. CASE /\ UNCHANGED collected
             /\ \A p \in Procs : procs'[p] = procs[p] \/ procs'[p].at = "idle"
    BY <2>3 DEF Recharging, Period
  <2>4. CASE \E i \in DOMAIN jobs : RecoverStaleLock(i)
    BY <2>3, <2>4 DEF RecoverStaleLock, money
  <2>5. CASE Crash
    <3>1. \A p \in Procs : procs'[p] = IF p \in Workers THEN Resting("idle", 0) ELSE procs[p]
      BY <2>5 DEF Crash
    <3>2. Resting("idle", 0).at = "idle"
      BY DEF Resting, Process
    <3> QED BY <2>3, <2>5, <3>1, <3>2 DEF Crash, money
  <2>6. CASE UNCHANGED vars
    BY <2>3, <2>6 DEF vars
  <2> QED BY <2>2, <2>4, <2>5, <2>6, HandlerSpares, ArrivalSpares, ServingSpares, EitherSpares
          DEF Next, Procs
<1> QED BY <1>1, TypeCorrect, PTL DEF Spec

=============================================================================
