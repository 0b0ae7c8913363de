------------------------------- MODULE Sales -------------------------------
(***************************************************************************)
(* The platform API behind its idempotency middleware                      *)
(* (internal/api/middleware/idempotency.go): checkouts with a promo code,  *)
(* plan changes, refunds and payment links (internal/api/handlers), and    *)
(* the notices of Nomba that an order of a payment link was paid.  Every   *)
(* call of a handler is a step; between two of them other requests run.    *)
(*                                                                         *)
(* One promo code, one active subscription with one paid invoice, one      *)
(* payment link.  Left out: the fields of bodies and their validation,     *)
(* customers, the jobs and the payment of a checkout (Billing), inactive   *)
(* plans, modes, events and outgoing webhooks (WebhookDelivery).           *)
(***************************************************************************)
EXTENDS Integers, FiniteSets, FiniteSetsExt

CONSTANTS
  Requests,    \* requests served at the same time
  Keys, NoKey, \* of the header Idempotency-Key
  BodyKeys,    \* the idempotency_key in the body of a checkout
  Orders,      \* references of payment link checkouts
  Ids,         \* request ids of Nomba's notices
  Plans,       \* plans, by their price
  Nothing,
  Period,      \* days
  PromoLimit, LinkLimit, \* max_uses
  MaxRequests, MaxUpsets \* bounds

ASSUME SalesAssumption ==
  /\ IsFiniteSet(Requests) /\ Requests # {}
  /\ NoKey \notin Keys
  /\ Keys \cap Ids = {}
  /\ Nothing \notin Orders
  /\ Plans \subseteq Nat
  /\ {Period, PromoLimit, LinkLimit} \subseteq Nat \ {0}
  /\ {MaxRequests, MaxUpsets} \subseteq Nat

VARIABLES
  rows,     \* idempotency_keys
  asked,    \* what a key was first sent with
  promo,    \* the promo code, and how many subscriptions have its discount
  keyed,    \* body keys of subscriptions
  plan, left, \* the subscription: its plan, the days left of its period
  ledger,
  refunds,  \* refunds Nomba carried out, by the key of their request
  link, orders, \* the payment link, its orders
  about, marked, \* the order of a request id, the request ids seen
  requests,
  ran,      \* how often a handler succeeded under a key
  owed,     \* what the plan changes should have cost
  uncounted, \* discounts that were given and not counted
  disturbed, \* objects on which requests overlapped or were cut off, or that ran out
  started, upsets

vars == <<rows, asked, promo, keyed, plan, left, ledger, refunds, link, orders, about, marked,
          requests, ran, owed, uncounted, disturbed, started, upsets>>
middleware == <<rows, asked, ran>>
codes == <<promo, keyed, uncounted>>
subscription == <<plan, left, owed>>
links == <<link, orders, about, marked>>

Task == [do : {"checkout", "refund", "link"}, on : {Nothing}]
          \cup [do : {"keyed_checkout"}, on : BodyKeys]
          \cup [do : {"change"}, on : Plans]
Notice == [do : {"notice"}, on : Ids]
NoTask == [do |-> "nothing", on |-> Nothing]

Steps == {"idle", "lookup", "validate", "find", "create", "count", "read_plan", "book",
          "switch", "refund", "book_refund", "read_link", "initiate", "store",
          "seen", "mark", "use", "charge"}

NoRequest == [at |-> "idle", task |-> NoTask, key |-> NoKey, plan |-> 0, left |-> 0]

Objects == Keys \cup Ids \cup {"promo", "subscription", "invoice"}

(* What a request works on. *)
WorksOn(t, k) ==
  ({k} \cap Keys) \cup
  CASE t.do \in {"checkout", "keyed_checkout"} -> {"promo"}
    [] t.do = "change" -> {"subscription"}
    [] t.do = "refund" -> {"invoice"}
    [] t.do = "notice" -> {t.on}
    [] OTHER -> {}

(* The rows as they are made; Deactivate, of either. *)
NewPromo == [active |-> TRUE, uses |-> 0, granted |-> 0]
NewLink == [active |-> TRUE, uses |-> 0]
Deactivated(row) == [row EXCEPT !.active = FALSE]

Init ==
  /\ rows = [k \in Keys |-> "none"]
  /\ asked = [k \in Keys |-> NoTask]
  /\ promo = NewPromo
  /\ keyed = {}
  /\ plan \in Plans
  /\ left = Period
  /\ ledger = {}
  /\ refunds = [k \in Keys \cup {NoKey} |-> 0]
  /\ link = NewLink
  /\ orders = [o \in Orders |-> "none"]
  /\ about = [i \in Ids |-> Nothing]
  /\ marked = {}
  /\ requests = [r \in Requests |-> NoRequest]
  /\ ran = [k \in Keys |-> 0]
  /\ owed = 0
  /\ uncounted = 0
  /\ disturbed = {}
  /\ started = 0
  /\ upsets = 0

-----------------------------------------------------------------------------

Stands(r, at) == requests[r].at = at

Goto(r, at) ==
  /\ requests' = [requests EXCEPT ![r].at = at]
  /\ UNCHANGED <<disturbed, started, upsets>>

Answer(r) ==
  /\ requests' = [requests EXCEPT ![r] = NoRequest]
  /\ UNCHANGED <<disturbed, started, upsets>>

(* Something comes between the calls: the merchant, the calendar, a fault. *)
Upset == upsets < MaxUpsets /\ upsets' = upsets + 1

Busy == UNION {WorksOn(requests[r].task, requests[r].key) : r \in Requests}

Begin(r, t, k, at) ==
  /\ Stands(r, "idle")
  /\ started < MaxRequests
  /\ started' = started + 1
  /\ requests' = [requests EXCEPT ![r] = [at |-> at, task |-> t, key |-> k, plan |-> 0, left |-> 0]]
  /\ disturbed' = disturbed \cup (WorksOn(t, k) \cap Busy)
  /\ UNCHANGED <<upsets, codes, subscription, ledger, refunds>>

Arrive(r, t, k, at) == Begin(r, t, k, at) /\ UNCHANGED links

FirstStep(t) ==
  CASE t.do \in {"checkout", "keyed_checkout"} -> "validate"
    [] t.do = "change" -> "read_plan"
    [] t.do = "refund" -> "refund"
    [] t.do = "link" -> "read_link"

-----------------------------------------------------------------------------
(* IdempotencyMiddleware. *)

Call(r, t) ==
  /\ Arrive(r, t, NoKey, FirstStep(t))
  /\ UNCHANGED middleware

(* A client sends a key again with the call it was sent with first.        *)
CallWithKey(r, t, k) ==
  /\ asked[k] \in {NoTask, t}
  /\ asked' = [asked EXCEPT ![k] = t]
  /\ Arrive(r, t, k, "lookup")
  /\ UNCHANGED <<rows, ran>>

(* Mutant: a stored answer is not looked up.                               *)
NeverReplayed(k) == FALSE

Replayed(k) == rows[k] = "stored"

Lookup(r) ==
  /\ Stands(r, "lookup")
  /\ IF Replayed(requests[r].key) THEN Answer(r) ELSE Goto(r, FirstStep(requests[r].task))
  /\ UNCHANGED <<middleware, codes, subscription, ledger, refunds, links>>

(* The handler answers 2xx. *)
Succeed(r) ==
  LET k == requests[r].key IN
  /\ IF k \in Keys
     THEN Goto(r, "store") /\ ran' = [ran EXCEPT ![k] = @ + 1]
     ELSE Answer(r) /\ UNCHANGED ran
  /\ UNCHANGED <<rows, asked>>

Refuse(r) == Answer(r) /\ UNCHANGED middleware
Proceed(r, at) == Goto(r, at) /\ UNCHANGED middleware

(* INSERT ... ON CONFLICT DO NOTHING: an expired row is in the way, too.   *)
Store(r) ==
  LET k == requests[r].key IN
  /\ Stands(r, "store")
  /\ rows' = [rows EXCEPT ![k] = IF @ = "none" THEN "stored" ELSE @]
  /\ Answer(r)
  /\ UNCHANGED <<asked, ran, codes, subscription, ledger, refunds, links>>

(* 24 hours later. *)
Expire(k) ==
  /\ Upset
  /\ rows[k] = "stored"
  /\ rows' = [rows EXCEPT ![k] = "expired"]
  /\ disturbed' = disturbed \cup {k}
  /\ UNCHANGED <<asked, ran, requests, started, codes, subscription, ledger, refunds, links>>

(* The job cleanup_idempotency_keys. *)
DeleteExpired ==
  /\ \E k \in Keys : rows[k] = "expired"
  /\ rows' = [k \in Keys |-> IF rows[k] = "expired" THEN "none" ELSE rows[k]]
  /\ UNCHANGED <<asked, ran, requests, disturbed, started, upsets, codes, subscription, ledger,
                 refunds, links>>

-----------------------------------------------------------------------------
(* CreateCheckout with a promo code. *)

(* Mutant: one use too many.                                               *)
UsableOnceMore == promo.active /\ promo.uses <= PromoLimit

(* validatePromoCode. *)
Usable == promo.active /\ promo.uses < PromoLimit

Validate(r) ==
  /\ Stands(r, "validate")
  /\ IF ~Usable THEN Refuse(r)
     ELSE Proceed(r, IF requests[r].task.do = "keyed_checkout" THEN "find" ELSE "create")
  /\ UNCHANGED <<codes, subscription, ledger, refunds, links>>

(* The body has a key, and a subscription was made with it.                *)
Exists(r) == requests[r].task.do = "keyed_checkout" /\ requests[r].task.on \in keyed

Find(r) ==
  /\ Stands(r, "find")
  /\ IF Exists(r) THEN Succeed(r) ELSE Proceed(r, "create")
  /\ UNCHANGED <<codes, subscription, ledger, refunds, links>>

(* The unique index of subscriptions decides between two inserts.          *)
Create(r) ==
  /\ Stands(r, "create")
  /\ IF Exists(r) THEN Refuse(r) /\ UNCHANGED codes
     ELSE /\ Proceed(r, "count")
          /\ promo' = [promo EXCEPT !.granted = @ + 1]
          /\ keyed' = keyed \cup (IF requests[r].task.do = "keyed_checkout"
                                  THEN {requests[r].task.on} ELSE {})
          /\ UNCHANGED uncounted
  /\ UNCHANGED <<subscription, ledger, refunds, links>>

(* IncrementUseCount; the calls that follow change nothing here.           *)
CountUse(r) ==
  /\ Stands(r, "count")
  /\ promo' = [promo EXCEPT !.uses = @ + 1]
  /\ Succeed(r)
  /\ UNCHANGED <<keyed, uncounted, subscription, ledger, refunds, links>>

(* IncrementUseCount fails and is logged.                                  *)
CountFails(r) ==
  /\ Upset
  /\ Stands(r, "count")
  /\ requests' = [requests EXCEPT ![r] =
       IF @.key \in Keys THEN [@ EXCEPT !.at = "store"] ELSE NoRequest]
  /\ ran' = [k \in Keys |-> IF k = requests[r].key THEN ran[k] + 1 ELSE ran[k]]
  /\ uncounted' = uncounted + 1
  /\ disturbed' = disturbed \cup {"promo"}
  /\ UNCHANGED <<rows, asked, promo, keyed, started, subscription, ledger, refunds, links>>

DeactivatePromo ==
  /\ Upset
  /\ promo.active
  /\ promo' = Deactivated(promo)
  /\ UNCHANGED <<middleware, requests, disturbed, started, keyed, uncounted, subscription,
                 ledger, refunds, links>>

-----------------------------------------------------------------------------
(* The ledger: an insert whose idempotency key is there already fails.     *)

(* Mutant: no unique index.                                                *)
NeverBooked(kind, on) == FALSE

Booked(kind, on) == \E e \in ledger : e.kind = kind /\ e.on = on

AppendEntry(kind, on, amount) == ledger' = ledger \cup {[kind |-> kind, on |-> on, amount |-> amount]}

-----------------------------------------------------------------------------
(* ChangePlan. *)

(* Half a kobo is rounded up. *)
Rounded(amount, days) == (2 * amount * days + Period) \div (2 * Period)

(* Calculate: the rest of the period at the new price and at the old one.  *)
NetAdjustment(from, to, days) == Rounded(to, days) - Rounded(from, days)

Net(r) == NetAdjustment(requests[r].plan, requests[r].task.on, requests[r].left)

ReadPlan(r) ==
  /\ Stands(r, "read_plan")
  /\ IF requests[r].task.on = plan THEN Answer(r)
     ELSE /\ requests' = [requests EXCEPT ![r] = [@ EXCEPT !.plan = plan, !.left = left,
               !.at = IF NetAdjustment(plan, requests[r].task.on, left) = 0 THEN "switch" ELSE "book"]]
          /\ UNCHANGED <<disturbed, started, upsets>>
  /\ UNCHANGED <<middleware, codes, subscription, ledger, refunds, links>>

(* RecordProration, RecordCredit. *)
Entry(r) == IF Net(r) > 0 THEN "proration" ELSE "credit"

(* Mutant: an entry that is there already is good enough.                  *)
BookOnce(r) ==
  /\ Stands(r, "book")
  /\ Proceed(r, "switch")
  /\ IF Booked(Entry(r), requests[r].task.on) THEN UNCHANGED ledger
     ELSE AppendEntry(Entry(r), requests[r].task.on, Net(r))
  /\ UNCHANGED <<codes, subscription, refunds, links>>

Book(r) ==
  /\ Stands(r, "book")
  /\ IF Booked(Entry(r), requests[r].task.on) THEN Refuse(r) /\ UNCHANGED ledger
     ELSE Proceed(r, "switch") /\ AppendEntry(Entry(r), requests[r].task.on, Net(r))
  /\ UNCHANGED <<codes, subscription, refunds, links>>

(* UpdatePlan. *)
Switch(r) ==
  /\ Stands(r, "switch")
  /\ owed' = owed + NetAdjustment(plan, requests[r].task.on, requests[r].left)
  /\ plan' = requests[r].task.on
  /\ Succeed(r)
  /\ UNCHANGED <<left, codes, ledger, refunds, links>>

NextDay ==
  /\ Upset
  /\ left > 0
  /\ left' = left - 1
  /\ UNCHANGED <<plan, owed, middleware, requests, disturbed, started, codes, ledger,
                 refunds, links>>

-----------------------------------------------------------------------------
(* IssueRefund. *)

RefundMoves(r) == refunds' = [refunds EXCEPT ![requests[r].key] = @ + 1]

(* Mutant: a refund that Nomba rejects is booked, too.                     *)
RefundThoughRejected(r) ==
  /\ Stands(r, "refund")
  /\ Proceed(r, "book_refund")
  /\ RefundMoves(r) \/ UNCHANGED refunds
  /\ UNCHANGED <<codes, subscription, ledger, links>>

(* RefundPayment: Nomba pays, or it does not.  A payment may be refunded   *)
(* in parts, so the next one is paid like the first.                       *)
Refund(r) ==
  /\ Stands(r, "refund")
  /\ \/ RefundMoves(r) /\ Proceed(r, "book_refund")
     \/ Refuse(r) /\ UNCHANGED refunds
  /\ UNCHANGED <<codes, subscription, ledger, links>>

(* Nomba pays and its answer is lost. *)
RefundUnknown(r) ==
  /\ Upset
  /\ Stands(r, "refund")
  /\ RefundMoves(r)
  /\ requests' = [requests EXCEPT ![r] = NoRequest]
  /\ disturbed' = disturbed \cup WorksOn(requests[r].task, requests[r].key)
  /\ UNCHANGED <<started, middleware, codes, subscription, ledger, links>>

(* RecordRefund, one entry for the payment.                                *)
BookRefund(r) ==
  /\ Stands(r, "book_refund")
  /\ IF Booked("refund", Nothing) THEN Refuse(r) /\ UNCHANGED ledger
     ELSE Succeed(r) /\ AppendEntry("refund", Nothing, 0)
  /\ UNCHANGED <<codes, subscription, refunds, links>>

-----------------------------------------------------------------------------
(* Payment links. *)

(* initiateCheckout. *)
ReadLink(r) ==
  /\ Stands(r, "read_link")
  /\ IF link.active /\ link.uses < LinkLimit THEN Proceed(r, "initiate") ELSE Refuse(r)
  /\ UNCHANGED <<codes, subscription, ledger, refunds, links>>

Initiate(r) ==
  /\ Stands(r, "initiate")
  /\ \/ \E o \in Orders :
          /\ orders[o] = "none"
          /\ orders' = [orders EXCEPT ![o] = "open"]
          /\ Succeed(r)
     \/ Refuse(r) /\ UNCHANGED orders
  /\ UNCHANGED <<link, about, marked, codes, subscription, ledger, refunds>>

DeactivateLink ==
  /\ Upset
  /\ link.active
  /\ link' = Deactivated(link)
  /\ UNCHANGED <<orders, about, marked, middleware, requests, disturbed, started, codes,
                 subscription, ledger, refunds>>

(* The customer pays. *)
Pay(o) ==
  /\ orders[o] = "open"
  /\ orders' = [orders EXCEPT ![o] = "paid"]
  /\ UNCHANGED <<link, about, marked, middleware, requests, disturbed, started, upsets,
                 codes, subscription, ledger, refunds>>

(* Nomba tells it, under one request id or several, each once or more.     *)
Notify(r, o, i) ==
  /\ orders[o] = "paid"
  /\ about[i] \in {Nothing, o}
  /\ about' = [about EXCEPT ![i] = o]
  /\ Begin(r, [do |-> "notice", on |-> i], NoKey, "seen")
  /\ UNCHANGED <<middleware, link, orders, marked>>

(* IsRevoked. *)
Seen(r) ==
  /\ Stands(r, "seen")
  /\ IF requests[r].task.on \in marked THEN Answer(r) ELSE Goto(r, "mark")
  /\ UNCHANGED <<middleware, codes, subscription, ledger, refunds, links>>

(* Mutant: the request id is not kept.                                     *)
NotMarked(r) ==
  /\ Stands(r, "mark")
  /\ Goto(r, "use")
  /\ UNCHANGED <<middleware, codes, subscription, ledger, refunds, links>>

Mark(r) ==
  /\ Stands(r, "mark")
  /\ marked' = marked \cup {requests[r].task.on}
  /\ Goto(r, "use")
  /\ UNCHANGED <<link, orders, about, middleware, codes, subscription, ledger, refunds>>

(* The key of the request id lives for 24 hours.                           *)
Forget(i) ==
  /\ Upset
  /\ i \in marked
  /\ marked' = marked \ {i}
  /\ disturbed' = disturbed \cup {i}
  /\ UNCHANGED <<link, orders, about, requests, started, middleware, codes, subscription,
                 ledger, refunds>>

(* handlePaymentLinkSuccess. *)
Use(r) ==
  /\ Stands(r, "use")
  /\ link' = [link EXCEPT !.uses = @ + 1]
  /\ Goto(r, "charge")
  /\ UNCHANGED <<orders, about, marked, middleware, codes, subscription, ledger, refunds>>

(* RecordPaymentLinkCharge; an error is logged. *)
Charge(r) ==
  LET o == about[requests[r].task.on] IN
  /\ Stands(r, "charge")
  /\ IF Booked("charge", o) THEN UNCHANGED ledger ELSE AppendEntry("charge", o, 0)
  /\ Answer(r)
  /\ UNCHANGED <<middleware, codes, subscription, refunds, links>>

(* A call of the notice's handler fails and the handler goes on.           *)
Skip(r) ==
  /\ Upset
  /\ requests[r].at \in {"seen", "mark", "use"}
  /\ requests' = [requests EXCEPT ![r].at =
       CASE @ = "seen" -> "mark" [] @ = "mark" -> "use" [] OTHER -> "charge"]
  /\ disturbed' = disturbed \cup {requests[r].task.on}
  /\ UNCHANGED <<started, middleware, codes, subscription, ledger, refunds, links>>

-----------------------------------------------------------------------------

(* A request is cut off: its next call fails, or the server dies.          *)
Drop(r) ==
  /\ Upset
  /\ ~Stands(r, "idle")
  /\ requests' = [requests EXCEPT ![r] = NoRequest]
  /\ uncounted' = IF Stands(r, "count") THEN uncounted + 1 ELSE uncounted
  /\ disturbed' = disturbed \cup WorksOn(requests[r].task, requests[r].key)
  /\ UNCHANGED <<started, promo, keyed, middleware, subscription, ledger, refunds, links>>

Step(r) ==
  \/ Lookup(r) \/ Store(r)
  \/ Validate(r) \/ Find(r) \/ Create(r) \/ CountUse(r) \/ CountFails(r)
  \/ ReadPlan(r) \/ Book(r) \/ Switch(r)
  \/ Refund(r) \/ RefundUnknown(r) \/ BookRefund(r)
  \/ ReadLink(r) \/ Initiate(r)
  \/ Seen(r) \/ Mark(r) \/ Use(r) \/ Charge(r) \/ Skip(r)
  \/ Drop(r)

Next ==
  \/ \E r \in Requests :
       \/ \E t \in Task : Call(r, t) \/ \E k \in Keys : CallWithKey(r, t, k)
       \/ \E o \in Orders, i \in Ids : Notify(r, o, i)
       \/ Step(r)
  \/ \E k \in Keys : Expire(k)
  \/ \E o \in Orders : Pay(o)
  \/ \E i \in Ids : Forget(i)
  \/ DeleteExpired \/ DeactivatePromo \/ DeactivateLink \/ NextDay

Spec == Init /\ [][Next]_vars

-----------------------------------------------------------------------------

(* The types; one entry for an idempotency key.                            *)
TypeOK ==
  /\ rows \in [Keys -> {"none", "stored", "expired"}]
  /\ asked \in [Keys -> Task \cup {NoTask}]
  /\ promo \in [active : BOOLEAN, uses : Nat, granted : Nat]
  /\ keyed \subseteq BodyKeys
  /\ plan \in Plans /\ left \in 0..Period
  /\ ledger \subseteq [kind : {"proration", "credit", "refund", "charge"},
                       on : Plans \cup Orders \cup {Nothing}, amount : Int]
  /\ \A d, e \in ledger : d.kind = e.kind /\ d.on = e.on => d = e
  /\ refunds \in [Keys \cup {NoKey} -> Nat]
  /\ link \in [active : BOOLEAN, uses : Nat]
  /\ orders \in [Orders -> {"none", "open", "paid"}]
  /\ about \in [Ids -> Orders \cup {Nothing}]
  /\ marked \subseteq Ids
  /\ requests \in [Requests -> [at : Steps, task : Task \cup Notice \cup {NoTask},
                                key : Keys \cup {NoKey}, plan : Plans \cup {0}, left : 0..Period]]
  /\ ran \in [Keys -> Nat]
  /\ owed \in Int
  /\ uncounted \in Nat
  /\ disturbed \subseteq Objects
  /\ started \in 0..MaxRequests /\ upsets \in 0..MaxUpsets

At(steps) == {r \in Requests : requests[r].at \in steps}

(* A handler succeeds once under a key (IdempotencyMiddleware), and then   *)
(* its answer is there to be replayed: unless two requests with the key    *)
(* overlapped, one was cut off, or a day passed.                           *)
RunsOncePerKey ==
  \A k \in Keys \ disturbed :
    /\ ran[k] <= 1
    /\ ran[k] = 1 => rows[k] = "stored" \/ \E r \in At({"store"}) : requests[r].key = k

(* The limit of a promo code is compared in one call of CreateCheckout and *)
(* counted in another: it is passed by less than the requests served at a  *)
(* time and the increments that failed, and not at all by checkouts one    *)
(* after the other.                                                        *)
PromoIsBounded ==
  /\ promo.granted < PromoLimit + Cardinality(Requests) + uncounted
  /\ "promo" \notin disturbed => promo.granted <= PromoLimit

(* The entries of the plan changes add up to what the changes cost         *)
(* (ChangePlan books, then switches, and gives up when the entry of an     *)
(* earlier change to the plan is in the way).                              *)
PlanIsPaidFor ==
  "subscription" \notin disturbed /\ At({"switch"}) = {} =>
    owed = MapThenSumSet(LAMBDA e : e.amount, {e \in ledger : e.kind \in {"proration", "credit"}})

Refunded == \E k \in Keys \cup {NoKey} : refunds[k] > 0

(* The entry of a refund stands for money that went, and when money went   *)
(* there is one: for the first refund of the payment.  The others move     *)
(* money and get none, their key is the first one's (refund.go:149).       *)
FirstRefundIsBooked ==
  /\ Booked("refund", Nothing) => Refunded
  /\ Refunded /\ "invoice" \notin disturbed /\ At({"book_refund"}) = {} =>
       Booked("refund", Nothing)

(* A refund that was answered as issued moved its money once, however      *)
(* often the call is repeated under its key (refund.go:158 behind          *)
(* idempotency.go:65): unless two requests with the key overlapped, one    *)
(* was cut off, or a day passed.                                           *)
IssuedRefundsMoveOnce ==
  \A k \in Keys \ disturbed : asked[k].do = "refund" /\ ran[k] = 1 => refunds[k] = 1

(* A payment link counts its payments (handlePaymentLinkSuccess): one use  *)
(* for each request id that was handled, and a charge for the orders these *)
(* are about, and for no other.                                            *)
LinkUsesAreCharged ==
  disturbed \cap Ids = {} =>
    /\ Cardinality(marked) = link.uses + Cardinality(At({"use"}))
    /\ \A o \in Orders :
         Booked("charge", o) <=>
           \E i \in marked : about[i] = o /\ \A r \in At({"use", "charge"}) : requests[r].task.on # i

=============================================================================
