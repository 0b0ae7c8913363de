---------------------------- MODULE Sales_proofs ----------------------------
(***************************************************************************)
(* Proofs about Sales, for any number of requests, keys, orders, prices    *)
(* and upsets.  Walks says of every action from which step of a handler to *)
(* which it takes its request; Alone says that what is not disturbed is in *)
(* the hands of one request at most.  Each invariant is then about the few *)
(* actions that write what it speaks of, and about counting the requests   *)
(* that stand between two of them.                                         *)
(***************************************************************************)
EXTENDS Sales, SumTheorems

(* What a request at each step works on. *)
Belongs(q) ==
  /\ q.at = "idle" => q = NoRequest
  /\ q.at \in {"lookup", "store"} => q.task \in Task /\ q.key \in Keys
  /\ q.at \in {"validate", "find", "create", "count"} =>
       q.task \in Task /\ q.task.do \in {"checkout", "keyed_checkout"}
  /\ q.at \in {"read_plan", "book", "switch"} => q.task \in Task /\ q.task.do = "change"
  /\ q.at \in {"refund", "book_refund"} => q.task \in Task /\ q.task.do = "refund"
  /\ q.at \in {"read_link", "initiate"} => q.task \in Task /\ q.task.do = "link"
  /\ q.at \in {"seen", "mark", "use", "charge"} => q.task \in Notice /\ q.key = NoKey

Where == \A r \in Requests : Belongs(requests[r])

Typed == TypeOK /\ Where

Request == [at : Steps, task : Task \cup Notice \cup {NoTask},
            key : Keys \cup {NoKey}, plan : Plans \cup {0}, left : 0..Period]

Others(r) == \A q \in Requests : q # r => requests'[q] = requests[q]

(* Request r goes from one of the steps in from to one of those in to. *)
Takes(r, from, to) ==
  /\ requests' \in [Requests -> Request]
  /\ Others(r)
  /\ requests[r].at \in from
  /\ requests'[r].at \in to
  /\ \/ requests'[r] = NoRequest
     \/ /\ requests'[r].at # "idle"
        /\ requests'[r].task = requests[r].task
        /\ requests'[r].key = requests[r].key
        /\ requests'[r].at = "store" => requests[r].key \in Keys

(* Request r arrives. *)
Comes(r, t, k, at) ==
  /\ Others(r)
  /\ requests[r].at = "idle"
  /\ requests'[r] = [at |-> at, task |-> t, key |-> k, plan |-> 0, left |-> 0]
  /\ disturbed' = disturbed \cup (WorksOn(t, k) \cap Busy)

FirstSteps == {"validate", "read_plan", "refund", "read_link"}

-----------------------------------------------------------------------------

LEMMA Tasks ==
  /\ \A t \in Task : /\ t.do \in {"checkout", "keyed_checkout", "refund", "link", "change"}
                     /\ t.do = "change" => t.on \in Plans
                     /\ t.do = "keyed_checkout" => t.on \in BodyKeys
  /\ \A t \in Notice : t.do = "notice" /\ t.on \in Ids
  /\ NoTask.do = "nothing"
BY DEF Task, Notice, NoTask

LEMMA NoRequestIsOne ==
  /\ NoRequest \in Request /\ NoRequest.at = "idle" /\ NoRequest.task = NoTask
  /\ NoRequest.key = NoKey
  /\ Belongs(NoRequest)
  /\ WorksOn(NoTask, NoKey) = {}
<1>1. 0 \in 0..Period
  BY SalesAssumption
<1>2. NoRequest \in Request
  BY <1>1 DEF NoRequest, Request, Steps
<1>3. NoRequest.at = "idle" /\ NoRequest.task = NoTask /\ NoRequest.key = NoKey
  BY DEF NoRequest
<1>4. Belongs(NoRequest)
  BY <1>3 DEF Belongs
<1>5. WorksOn(NoTask, NoKey) = {}
  BY SalesAssumption, Tasks DEF WorksOn
<1> QED
  BY <1>2, <1>3, <1>4, <1>5

LEMMA WorksOnObjects ==
  ASSUME NEW t \in Task \cup Notice \cup {NoTask}, NEW k
  PROVE  WorksOn(t, k) \subseteq Objects
BY Tasks DEF WorksOn, Objects

LEMMA FirstStepIsOne ==
  ASSUME NEW t \in Task
  PROVE  /\ FirstStep(t) \in FirstSteps
         /\ FirstStep(t) = "validate" => t.do \in {"checkout", "keyed_checkout"}
         /\ FirstStep(t) = "read_plan" => t.do = "change"
         /\ FirstStep(t) = "refund" => t.do = "refund"
         /\ FirstStep(t) = "read_link" => t.do = "link"
BY Tasks DEF FirstStep, FirstSteps

(* The four ways a request is written.                                     *)
LEMMA GotoDoes ==
  ASSUME requests \in [Requests -> Request], NEW r \in Requests, NEW at \in Steps, Goto(r, at)
  PROVE  /\ requests' \in [Requests -> Request] /\ Others(r)
         /\ requests'[r].at = at
         /\ requests'[r].task = requests[r].task /\ requests'[r].key = requests[r].key
         /\ UNCHANGED <<disturbed, started, upsets>>
<1> DEFINE q == [requests[r] EXCEPT !.at = at]
<1>1. q \in Request /\ q.at = at /\ q.task = requests[r].task /\ q.key = requests[r].key
  BY DEF Request
<1>2. requests' = [requests EXCEPT ![r] = q] /\ UNCHANGED <<disturbed, started, upsets>>
  BY DEF Goto
<1> HIDE DEF q
<1> QED
  BY <1>1, <1>2 DEF Others

LEMMA EndDoes ==
  ASSUME requests \in [Requests -> Request], NEW r \in Requests,
         requests' = [requests EXCEPT ![r] = NoRequest]
  PROVE  requests' \in [Requests -> Request] /\ Others(r) /\ requests'[r] = NoRequest
BY NoRequestIsOne DEF Others

LEMMA BeginDoes ==
  ASSUME requests \in [Requests -> Request], NEW r \in Requests, NEW at \in Steps,
         NEW t \in Task \cup Notice, NEW k \in Keys \cup {NoKey}, Begin(r, t, k, at)
  PROVE  /\ requests' \in [Requests -> Request] /\ Comes(r, t, k, at)
         /\ started' = started + 1 /\ started < MaxRequests
         /\ UNCHANGED <<upsets, codes, subscription, ledger, refunds>>
<1> DEFINE q == [at |-> at, task |-> t, key |-> k, plan |-> 0, left |-> 0]
<1>0. 0 \in 0..Period
  BY SalesAssumption
<1>1. q \in Request
  BY <1>0 DEF Request
<1>2. /\ requests[r].at = "idle" /\ requests' = [requests EXCEPT ![r] = q]
      /\ disturbed' = disturbed \cup (WorksOn(t, k) \cap Busy)
      /\ started' = started + 1 /\ started < MaxRequests
      /\ UNCHANGED <<upsets, codes, subscription, ledger, refunds>>
  BY DEF Begin, Stands
<1> HIDE DEF q
<1>3. requests' \in [Requests -> Request] /\ Others(r) /\ requests'[r] = q
  BY <1>1, <1>2 DEF Others
<1> QED
  BY <1>2, <1>3 DEF Comes, q

LEMMA SucceedDoes ==
  ASSUME requests \in [Requests -> Request], NEW r \in Requests, Succeed(r)
  PROVE  /\ requests' \in [Requests -> Request] /\ Others(r)
         /\ UNCHANGED <<disturbed, started, upsets, rows, asked>>
         /\ LET k == requests[r].key IN
            \/ /\ k \in Keys /\ ran' = [ran EXCEPT ![k] = ran[k] + 1]
               /\ requests'[r].at = "store"
               /\ requests'[r].task = requests[r].task /\ requests'[r].key = k
            \/ k \notin Keys /\ UNCHANGED ran /\ requests'[r] = NoRequest
<1>1. "store" \in Steps
  BY DEF Steps
<1>2. CASE requests[r].key \in Keys
  BY <1>1, <1>2, GotoDoes DEF Succeed
<1>3. CASE requests[r].key \notin Keys
  BY <1>3, EndDoes DEF Succeed, Answer
<1> QED
  BY <1>2, <1>3

(* From which step to which each action takes its request.                 *)
LEMMA Walks ==
  ASSUME Typed, NEW r \in Requests
  PROVE  /\ Lookup(r) => Takes(r, {"lookup"}, FirstSteps \cup {"idle"})
         /\ Store(r) => Takes(r, {"store"}, {"idle"})
         /\ Validate(r) => Takes(r, {"validate"}, {"idle", "find", "create"})
         /\ Find(r) => Takes(r, {"find"}, {"idle", "store", "create"})
         /\ Create(r) => Takes(r, {"create"}, {"idle", "count"})
         /\ CountUse(r) => Takes(r, {"count"}, {"idle", "store"})
         /\ CountFails(r) => Takes(r, {"count"}, {"idle", "store"})
         /\ ReadPlan(r) => Takes(r, {"read_plan"}, {"idle", "book", "switch"})
         /\ Book(r) => Takes(r, {"book"}, {"idle", "switch"})
         /\ Switch(r) => Takes(r, {"switch"}, {"idle", "store"})
         /\ Refund(r) => Takes(r, {"refund"}, {"idle", "book_refund"})
         /\ RefundUnknown(r) => Takes(r, {"refund"}, {"idle"})
         /\ BookRefund(r) => Takes(r, {"book_refund"}, {"idle", "store"})
         /\ ReadLink(r) => Takes(r, {"read_link"}, {"idle", "initiate"})
         /\ Initiate(r) => Takes(r, {"initiate"}, {"idle", "store"})
         /\ Seen(r) => Takes(r, {"seen"}, {"idle", "mark"})
         /\ Mark(r) => Takes(r, {"mark"}, {"use"})
         /\ Use(r) => Takes(r, {"use"}, {"charge"})
         /\ Charge(r) => Takes(r, {"charge"}, {"idle"})
         /\ Skip(r) => Takes(r, {"seen", "mark", "use"}, {"mark", "use", "charge"})
         /\ Drop(r) => Takes(r, Steps \ {"idle"}, {"idle"})
<1>1. requests \in [Requests -> Request] /\ requests[r] \in Request
  BY DEF Typed, TypeOK, Request
<1>2. requests[r].at \in Steps
  BY <1>1 DEF Request
<1>3. ASSUME NEW from \in SUBSET Steps, NEW to, requests[r].at \in from, "idle" \in to,
             requests' = [requests EXCEPT ![r] = NoRequest]
      PROVE  Takes(r, from, to)
  BY <1>1, <1>3, EndDoes, NoRequestIsOne DEF Takes
<1>4. ASSUME NEW from \in SUBSET Steps, NEW to, NEW at \in Steps \ {"idle", "store"},
             requests[r].at \in from, at \in to, Goto(r, at)
      PROVE  Takes(r, from, to)
  BY <1>1, <1>4, GotoDoes DEF Takes
<1>5. ASSUME NEW from \in SUBSET Steps, requests[r].at \in from, Succeed(r)
      PROVE  Takes(r, from, {"idle", "store"}) /\ Takes(r, from, {"idle", "store", "create"})
  BY <1>1, <1>5, SucceedDoes, NoRequestIsOne DEF Takes
<1>6. Lookup(r) => Takes(r, {"lookup"}, FirstSteps \cup {"idle"})
  <2> SUFFICES ASSUME Lookup(r) PROVE Takes(r, {"lookup"}, FirstSteps \cup {"idle"})
    OBVIOUS
  <2>1. requests[r].at = "lookup" /\ requests[r].task \in Task
    BY DEF Lookup, Stands, Typed, Where, Belongs
  <2>2. FirstStep(requests[r].task) \in FirstSteps /\ FirstSteps \subseteq Steps \ {"idle", "store"}
    BY <2>1, FirstStepIsOne DEF FirstSteps, Steps
  <2> QED
    BY <1>2, <1>3, <1>4, <2>1, <2>2 DEF Lookup, Answer
<1>7. Store(r) => Takes(r, {"store"}, {"idle"})
  BY <1>2, <1>3 DEF Store, Stands, Answer
<1>8. Validate(r) => Takes(r, {"validate"}, {"idle", "find", "create"})
  BY <1>2, <1>3, <1>4 DEF Validate, Stands, Refuse, Proceed, Answer, Steps
<1>9. Find(r) => Takes(r, {"find"}, {"idle", "store", "create"})
  BY <1>2, <1>4, <1>5 DEF Find, Stands, Proceed, Steps
<1>10. Create(r) => Takes(r, {"create"}, {"idle", "count"})
  BY <1>2, <1>3, <1>4 DEF Create, Stands, Refuse, Proceed, Answer, Steps
<1>11. CountUse(r) => Takes(r, {"count"}, {"idle", "store"})
  BY <1>2, <1>5 DEF CountUse, Stands
<1>12. CountFails(r) => Takes(r, {"count"}, {"idle", "store"})
  <2> SUFFICES ASSUME CountFails(r) PROVE Takes(r, {"count"}, {"idle", "store"})
    OBVIOUS
  <2> DEFINE q == [requests[r] EXCEPT !.at = "store"]
  <2>1. requests[r].at = "count"
    BY DEF CountFails, Stands
  <2>2. requests' = [requests EXCEPT ![r] = IF requests[r].key \in Keys THEN q ELSE NoRequest]
    BY DEF CountFails
  <2>3. q \in Request /\ q.at = "store" /\ q.task = requests[r].task /\ q.key = requests[r].key
    BY <1>1 DEF Request, Steps
  <2> HIDE DEF q
  <2>4. /\ Others(r) /\ requests'[r] = IF requests[r].key \in Keys THEN q ELSE NoRequest
        /\ requests' \in [Requests -> Request]
    BY <1>1, <2>2, <2>3, NoRequestIsOne DEF Others
  <2> QED
    BY <2>1, <2>3, <2>4, NoRequestIsOne DEF Takes
<1>13. ReadPlan(r) => Takes(r, {"read_plan"}, {"idle", "book", "switch"})
  <2> SUFFICES ASSUME ReadPlan(r) PROVE Takes(r, {"read_plan"}, {"idle", "book", "switch"})
    OBVIOUS
  <2> DEFINE at == IF NetAdjustment(plan, requests[r].task.on, left) = 0 THEN "switch" ELSE "book"
             q == [requests[r] EXCEPT !.plan = plan, !.left = left, !.at = at]
  <2>1. requests[r].at = "read_plan"
    BY DEF ReadPlan, Stands
  <2>2. CASE requests' = [requests EXCEPT ![r] = q]
    <3>1. at \in {"book", "switch"}
      OBVIOUS
    <3> HIDE DEF at
    <3>2. q \in Request /\ q.at = at /\ q.task = requests[r].task /\ q.key = requests[r].key
      BY <1>1, <3>1 DEF Request, Steps, Typed, TypeOK
    <3> HIDE DEF q
    <3>3. Others(r) /\ requests'[r] = q /\ requests' \in [Requests -> Request]
      BY <1>1, <2>2, <3>2 DEF Others
    <3> QED
      BY <2>1, <3>1, <3>2, <3>3 DEF Takes
  <2>3. CASE Answer(r)
    BY <1>2, <1>3, <2>1, <2>3 DEF Answer
  <2> QED
    BY <2>2, <2>3 DEF ReadPlan
<1>14. Book(r) => Takes(r, {"book"}, {"idle", "switch"})
  BY <1>2, <1>3, <1>4 DEF Book, Stands, Refuse, Proceed, Answer, Steps
<1>15. Switch(r) => Takes(r, {"switch"}, {"idle", "store"})
  BY <1>2, <1>5 DEF Switch, Stands
<1>16. Refund(r) => Takes(r, {"refund"}, {"idle", "book_refund"})
  BY <1>2, <1>3, <1>4 DEF Refund, Stands, Refuse, Proceed, Answer, Steps
<1>17. RefundUnknown(r) => Takes(r, {"refund"}, {"idle"})
  BY <1>2, <1>3 DEF RefundUnknown, Stands
<1>18. BookRefund(r) => Takes(r, {"book_refund"}, {"idle", "store"})
  BY <1>2, <1>3, <1>5 DEF BookRefund, Stands, Refuse, Answer
<1>19. ReadLink(r) => Takes(r, {"read_link"}, {"idle", "initiate"})
  BY <1>2, <1>3, <1>4 DEF ReadLink, Stands, Refuse, Proceed, Answer, Steps
<1>20. Initiate(r) => Takes(r, {"initiate"}, {"idle", "store"})
  BY <1>2, <1>3, <1>5 DEF Initiate, Stands, Refuse, Answer
<1>21. Seen(r) => Takes(r, {"seen"}, {"idle", "mark"})
  BY <1>2, <1>3, <1>4 DEF Seen, Stands, Answer, Steps
<1>22. Mark(r) => Takes(r, {"mark"}, {"use"})
  BY <1>2, <1>4 DEF Mark, Stands, Steps
<1>23. Use(r) => Takes(r, {"use"}, {"charge"})
  BY <1>2, <1>4 DEF Use, Stands, Steps
<1>24. Charge(r) => Takes(r, {"charge"}, {"idle"})
  BY <1>2, <1>3 DEF Charge, Stands, Answer
<1>25. Skip(r) => Takes(r, {"seen", "mark", "use"}, {"mark", "use", "charge"})
  <2> SUFFICES ASSUME Skip(r) PROVE Takes(r, {"seen", "mark", "use"}, {"mark", "use", "charge"})
    OBVIOUS
  <2> DEFINE at == CASE requests[r].at = "seen" -> "mark" [] requests[r].at = "mark" -> "use" [] OTHER -> "charge"
             q == [requests[r] EXCEPT !.at = at]
  <2>1. requests[r].at \in {"seen", "mark", "use"} /\ requests' = [requests EXCEPT ![r] = q]
    BY DEF Skip
  <2>2. at \in {"mark", "use", "charge"}
    OBVIOUS
  <2> HIDE DEF at
  <2>3. q \in Request /\ q.at = at /\ q.task = requests[r].task /\ q.key = requests[r].key
    BY <1>1, <2>2 DEF Request, Steps
  <2> HIDE DEF q
  <2>4. Others(r) /\ requests'[r] = q /\ requests' \in [Requests -> Request]
    BY <1>1, <2>1, <2>3 DEF Others
  <2> QED
    BY <2>1, <2>2, <2>3, <2>4 DEF Takes
<1>26. Drop(r) => Takes(r, Steps \ {"idle"}, {"idle"})
  BY <1>2, <1>3 DEF Drop, Stands
<1> QED
  BY <1>6, <1>7, <1>8, <1>9, <1>10, <1>11, <1>12, <1>13, <1>14, <1>15, <1>16, <1>17, <1>18,
     <1>19, <1>20, <1>21, <1>22, <1>23, <1>24, <1>25, <1>26

-----------------------------------------------------------------------------
(* Types.                                                                  *)

MiddlewareOK ==
  /\ rows \in [Keys -> {"none", "stored", "expired"}]
  /\ asked \in [Keys -> Task \cup {NoTask}]
  /\ ran \in [Keys -> Nat]
CodesOK ==
  /\ promo \in [active : BOOLEAN, uses : Nat, granted : Nat]
  /\ keyed \subseteq BodyKeys
  /\ uncounted \in Nat
SubscriptionOK == plan \in Plans /\ left \in 0..Period /\ owed \in Int
LedgerOK ==
  /\ ledger \subseteq [kind : {"proration", "credit", "refund", "charge"},
                       on : Plans \cup Orders \cup {Nothing}, amount : Int]
  /\ \A d, e \in ledger : d.kind = e.kind /\ d.on = e.on => d = e
LinksOK ==
  /\ link \in [active : BOOLEAN, uses : Nat]
  /\ orders \in [Orders -> {"none", "open", "paid"}]
  /\ about \in [Ids -> Orders \cup {Nothing}]
  /\ marked \subseteq Ids
PaceOK == disturbed \subseteq Objects /\ started \in 0..MaxRequests /\ upsets \in 0..MaxUpsets

RefundsOK == refunds \in [Keys \cup {NoKey} -> Nat]

RowsOK == MiddlewareOK /\ CodesOK /\ SubscriptionOK /\ LedgerOK /\ RefundsOK /\ LinksOK /\ PaceOK

LEMMA TypeParts ==
  /\ TypeOK <=> RowsOK /\ requests \in [Requests -> Request]
  /\ TypeOK' <=> RowsOK' /\ requests' \in [Requests -> Request]
BY DEF TypeOK, RowsOK, MiddlewareOK, CodesOK, SubscriptionOK, LedgerOK, RefundsOK, LinksOK, PaceOK, Request

LEMMA Kept ==
  ASSUME RowsOK
  PROVE  /\ UNCHANGED middleware => MiddlewareOK'
         /\ UNCHANGED codes => CodesOK'
         /\ UNCHANGED subscription => SubscriptionOK'
         /\ UNCHANGED ledger => LedgerOK'
         /\ UNCHANGED refunds => RefundsOK'
         /\ UNCHANGED links => LinksOK'
         /\ UNCHANGED <<disturbed, started, upsets>> => PaceOK'
BY DEF RowsOK, MiddlewareOK, CodesOK, SubscriptionOK, LedgerOK, RefundsOK, LinksOK, PaceOK,
   middleware, codes, subscription, links

(* An upset marks some objects as disturbed.                               *)
LEMMA UpsetKeeps ==
  ASSUME RowsOK, Upset, UNCHANGED started, NEW X \in SUBSET Objects, disturbed' = disturbed \cup X
  PROVE  PaceOK'
BY SalesAssumption DEF RowsOK, PaceOK, Upset

LEMMA SucceedKeeps ==
  ASSUME Typed, NEW r \in Requests, Succeed(r)
  PROVE  MiddlewareOK' /\ PaceOK'
<1>1. RowsOK /\ requests \in [Requests -> Request]
  BY TypeParts DEF Typed
<1>2. /\ UNCHANGED <<disturbed, started, upsets, rows, asked>>
      /\ \/ UNCHANGED ran
         \/ \E k \in Keys : ran' = [ran EXCEPT ![k] = ran[k] + 1]
  BY <1>1, SucceedDoes
<1> QED
  BY <1>1, <1>2, Kept DEF RowsOK, MiddlewareOK

LEMMA ProceedKeeps ==
  ASSUME RowsOK, NEW r \in Requests
  PROVE  /\ Refuse(r) => MiddlewareOK' /\ PaceOK'
         /\ \A at : Proceed(r, at) => MiddlewareOK' /\ PaceOK'
         /\ Answer(r) => PaceOK'
         /\ \A at : Goto(r, at) => PaceOK'
BY Kept DEF Refuse, Proceed, Answer, Goto

LEMMA AppendKeeps ==
  ASSUME RowsOK, NEW kind \in {"proration", "credit", "refund", "charge"},
         NEW on \in Plans \cup Orders \cup {Nothing}, NEW amount \in Int,
         ~Booked(kind, on), AppendEntry(kind, on, amount)
  PROVE  LedgerOK'
<1> DEFINE e == [kind |-> kind, on |-> on, amount |-> amount]
<1>1. /\ e \in [kind : {"proration", "credit", "refund", "charge"},
                on : Plans \cup Orders \cup {Nothing}, amount : Int]
      /\ e.kind = kind /\ e.on = on
  OBVIOUS
<1>2. ledger' = ledger \cup {e}
  BY DEF AppendEntry
<1> HIDE DEF e
<1> QED
  BY <1>1, <1>2 DEF RowsOK, LedgerOK, Booked

LEMMA Appended ==
  ASSUME NEW kind, NEW on, NEW amount, AppendEntry(kind, on, amount)
  PROVE  /\ Booked(kind, on)'
         /\ \A e : e.kind # kind => (e \in ledger' <=> e \in ledger)
         /\ \E e : e.kind = kind /\ e.on = on /\ ledger' = ledger \cup {e}
<1> DEFINE e == [kind |-> kind, on |-> on, amount |-> amount]
<1>1. e.kind = kind /\ e.on = on /\ ledger' = ledger \cup {e}
  BY DEF AppendEntry
<1> HIDE DEF e
<1> QED
  BY <1>1 DEF Booked

LEMMA NetIsInt ==
  ASSUME NEW from \in Nat, NEW to \in Nat, NEW days \in Nat
  PROVE  NetAdjustment(from, to, days) \in Int
<1>1. Period \in Nat \ {0}
  BY SalesAssumption
<1>2. ASSUME NEW n \in Nat PROVE Rounded(n, days) \in Int
  <2>1. 2 * n * days + Period \in Nat /\ 2 * Period \in Nat \ {0}
    BY <1>1, <1>2
  <2> DEFINE a == 2 * n * days + Period
             b == 2 * Period
  <2> HIDE DEF a, b
  <2>2. a \div b \in Int
    BY <2>1 DEF a, b
  <2> QED
    BY <2>2 DEF a, b, Rounded
<1> QED
  BY <1>2 DEF NetAdjustment

(* What Tasks says of the request r, and the numbers it has read.          *)
LEMMA Reads ==
  ASSUME Typed, NEW r \in Requests
  PROVE  /\ requests[r].plan \in Nat /\ requests[r].left \in Nat
         /\ requests[r].at \in {"read_plan", "book", "switch"} =>
              requests[r].task.on \in Plans /\ requests[r].task.on \in Nat
         /\ requests[r].at \in {"seen", "mark", "use", "charge"} =>
              requests[r].task.on \in Ids /\ about[requests[r].task.on] \in Orders \cup {Nothing}
         /\ WorksOn(requests[r].task, requests[r].key) \subseteq Objects
         /\ plan \in Nat
<1>1. requests[r] \in Request /\ Belongs(requests[r]) /\ Plans \subseteq Nat
  BY SalesAssumption, TypeParts DEF Typed, Where
<1>2. plan \in Nat
  BY <1>1 DEF Typed, TypeOK
<1>3. requests[r].plan \in Nat /\ requests[r].left \in Nat
  <2>1. requests[r].plan \in Plans \cup {0} /\ requests[r].left \in 0..Period
    BY <1>1 DEF Request
  <2>2. Period \in Nat
    BY SalesAssumption
  <2>3. requests[r].left \in Nat
    BY <2>1, <2>2
  <2>4. Plans \cup {0} \subseteq Nat
    BY SalesAssumption
  <2>5. requests[r].plan \in Nat
    BY <2>1, <2>4
  <2> QED
    BY <2>3, <2>5
<1>4. requests[r].task \in Task \cup Notice \cup {NoTask}
  BY <1>1 DEF Request
<1>5. requests[r].at \in {"seen", "mark", "use", "charge"} =>
        requests[r].task.on \in Ids /\ about[requests[r].task.on] \in Orders \cup {Nothing}
  <2>1. about \in [Ids -> Orders \cup {Nothing}]
    BY DEF Typed, TypeOK
  <2> QED
    BY <1>1, <2>1, Tasks DEF Belongs
<1> QED
  BY <1>1, <1>2, <1>3, <1>4, <1>5, Tasks, WorksOnObjects DEF Belongs

(* A request that walks keeps to what its steps work on.                   *)
LEMMA WalkingKeeps ==
  ASSUME Typed, NEW r \in Requests, Step(r)
  PROVE  /\ requests' \in [Requests -> Request] /\ Where'
         /\ \E from, to : Takes(r, from, to) /\ "idle" \notin from
<1>1. Belongs(requests[r]) /\ \A q \in Requests : Belongs(requests[q])
  BY DEF Typed, Where
<1>2. ASSUME NEW from, NEW to, Takes(r, from, to), Belongs(requests'[r])
      PROVE  requests' \in [Requests -> Request] /\ Where'
  <2>1. \A q \in Requests : q # r => requests'[q] = requests[q]
    BY <1>2 DEF Takes, Others
  <2>2. \A q \in Requests : Belongs(requests'[q])
    BY <1>1, <1>2, <2>1
  <2>3. requests' \in [Requests -> Request]
    BY <1>2 DEF Takes
  <2> QED
    BY <2>2, <2>3 DEF Where
<1>3. CASE Lookup(r)
  <2>1. Takes(r, {"lookup"}, FirstSteps \cup {"idle"})
    BY <1>3, Walks
  <2>2. requests[r].task \in Task /\ requests[r].key \in Keys
    BY <1>1, <2>1 DEF Takes, Belongs
  <2>3. requests'[r] = NoRequest \/ requests'[r].at = FirstStep(requests[r].task)
    <3>1. requests \in [Requests -> Request]
      BY TypeParts DEF Typed
    <3>2. FirstStep(requests[r].task) \in Steps
      BY <2>2, FirstStepIsOne DEF FirstSteps, Steps
    <3> QED
      BY <1>3, <3>1, <3>2, GotoDoes, EndDoes DEF Lookup, Answer
  <2>4. Belongs(requests'[r])
    BY <2>1, <2>2, <2>3, FirstStepIsOne, NoRequestIsOne DEF Takes, Belongs, FirstSteps
  <2> QED
    BY <1>2, <2>1, <2>4
<1>4. ASSUME NEW from \in SUBSET (Steps \ {"idle"}), NEW to, Takes(r, from, to),
             \/ from = {"store"} /\ to = {"idle"}
             \/ from = {"validate"} /\ to = {"idle", "find", "create"}
             \/ from = {"find"} /\ to = {"idle", "store", "create"}
             \/ from = {"create"} /\ to = {"idle", "count"}
             \/ from = {"count"} /\ to = {"idle", "store"}
             \/ from = {"read_plan"} /\ to = {"idle", "book", "switch"}
             \/ from = {"book"} /\ to = {"idle", "switch"}
             \/ from = {"switch"} /\ to = {"idle", "store"}
             \/ from = {"refund"} /\ to = {"idle", "book_refund"}
             \/ from = {"refund"} /\ to = {"idle"}
             \/ from = {"book_refund"} /\ to = {"idle", "store"}
             \/ from = {"read_link"} /\ to = {"idle", "initiate"}
             \/ from = {"initiate"} /\ to = {"idle", "store"}
             \/ from = {"seen"} /\ to = {"idle", "mark"}
             \/ from = {"mark"} /\ to = {"use"}
             \/ from = {"use"} /\ to = {"charge"}
             \/ from = {"charge"} /\ to = {"idle"}
             \/ from = {"seen", "mark", "use"} /\ to = {"mark", "use", "charge"}
             \/ from = Steps \ {"idle"} /\ to = {"idle"}
      PROVE  Belongs(requests'[r])
  <2>1. CASE requests'[r] = NoRequest
    BY <2>1, NoRequestIsOne
  <2>2. CASE requests'[r] # NoRequest
    <3>1. /\ requests'[r].at # "idle" /\ requests'[r].task = requests[r].task
          /\ requests'[r].key = requests[r].key
          /\ requests'[r].at = "store" => requests[r].key \in Keys
          /\ requests'[r].at \in to /\ requests[r].at \in from
      BY <1>4, <2>2 DEF Takes
    <3> QED
      BY <1>1, <1>4, <3>1 DEF Belongs
  <2> QED
    BY <2>1, <2>2
<1>5. {"lookup", "store", "validate", "find", "create", "count", "read_plan", "book", "switch",
       "refund", "book_refund", "read_link", "initiate", "seen", "mark", "use", "charge"}
        \subseteq Steps \ {"idle"}
  BY DEF Steps
<1>6. CASE Store(r)
  BY <1>2, <1>4, <1>5, <1>6, Walks
<1>7. CASE Validate(r)
  BY <1>2, <1>4, <1>5, <1>7, Walks
<1>8. CASE Find(r)
  BY <1>2, <1>4, <1>5, <1>8, Walks
<1>9. CASE Create(r)
  BY <1>2, <1>4, <1>5, <1>9, Walks
<1>10. CASE CountUse(r) \/ CountFails(r)
  BY <1>2, <1>4, <1>5, <1>10, Walks
<1>11. CASE ReadPlan(r)
  BY <1>2, <1>4, <1>5, <1>11, Walks
<1>12. CASE Book(r)
  BY <1>2, <1>4, <1>5, <1>12, Walks
<1>13. CASE Switch(r)
  BY <1>2, <1>4, <1>5, <1>13, Walks
<1>14. CASE Refund(r)
  BY <1>2, <1>4, <1>5, <1>14, Walks
<1>15. CASE RefundUnknown(r)
  BY <1>2, <1>4, <1>5, <1>15, Walks
<1>16. CASE BookRefund(r)
  BY <1>2, <1>4, <1>5, <1>16, Walks
<1>17. CASE ReadLink(r)
  BY <1>2, <1>4, <1>5, <1>17, Walks
<1>18. CASE Initiate(r)
  BY <1>2, <1>4, <1>5, <1>18, Walks
<1>19. CASE Seen(r)
  BY <1>2, <1>4, <1>5, <1>19, Walks
<1>20. CASE Mark(r)
  BY <1>2, <1>4, <1>5, <1>20, Walks
<1>21. CASE Use(r)
  BY <1>2, <1>4, <1>5, <1>21, Walks
<1>22. CASE Charge(r)
  BY <1>2, <1>4, <1>5, <1>22, Walks
<1>23. CASE Skip(r)
  BY <1>2, <1>4, <1>5, <1>23, Walks
<1>24. CASE Drop(r)
  BY <1>2, <1>4, <1>24, Walks
<1> QED
  BY <1>3, <1>6, <1>7, <1>8, <1>9, <1>10, <1>11, <1>12, <1>13, <1>14, <1>15, <1>16, <1>17,
     <1>18, <1>19, <1>20, <1>21, <1>22, <1>23, <1>24 DEF Step

(* A refund moves money once more, under the key of its request.           *)
LEMMA RefundMovesDoes ==
  ASSUME Typed, NEW r \in Requests, RefundMoves(r)
  PROVE  /\ RefundsOK'
         /\ requests[r].key \in Keys \cup {NoKey}
         /\ refunds[requests[r].key] \in Nat
         /\ refunds'[requests[r].key] = refunds[requests[r].key] + 1
         /\ \A k \in Keys : k # requests[r].key => refunds'[k] = refunds[k]
         /\ Refunded'
<1>1. requests[r] \in Request /\ RefundsOK
  BY TypeParts DEF Typed, RowsOK
<1> DEFINE k == requests[r].key
<1>2. k \in Keys \cup {NoKey}
  BY <1>1 DEF Request
<1>3. refunds' = [refunds EXCEPT ![k] = refunds[k] + 1]
  BY DEF RefundMoves
<1> HIDE DEF k
<1>4. /\ RefundsOK' /\ refunds[k] \in Nat /\ refunds'[k] = refunds[k] + 1
      /\ \A j \in Keys : j # k => refunds'[j] = refunds[j]
  BY <1>1, <1>2, <1>3 DEF RefundsOK
<1>5. Refunded'
  BY <1>2, <1>4 DEF Refunded
<1> QED
  BY <1>2, <1>4, <1>5 DEF k

(* The rows after each step of a request.                                  *)
LEMMA CheckoutSteps ==
  ASSUME Typed, NEW r \in Requests,
         \/ Lookup(r) \/ Store(r) \/ Validate(r) \/ Find(r) \/ Create(r)
         \/ CountUse(r) \/ CountFails(r)
  PROVE  RowsOK'
<1>1. RowsOK /\ requests \in [Requests -> Request]
  BY TypeParts DEF Typed
<1>2. CASE Lookup(r)
  BY <1>1, <1>2, Kept, ProceedKeeps DEF Lookup, RowsOK
<1>3. CASE Store(r)
  <2>1. MiddlewareOK'
    BY <1>1, <1>3 DEF Store, RowsOK, MiddlewareOK
  <2> QED
    BY <1>1, <1>3, <2>1, Kept, ProceedKeeps DEF Store, RowsOK
<1>4. CASE Validate(r)
  BY <1>1, <1>4, Kept, ProceedKeeps DEF Validate, RowsOK
<1>5. CASE Find(r)
  BY <1>1, <1>5, Kept, ProceedKeeps, SucceedKeeps DEF Find, RowsOK
<1>6. promo \in [active : BOOLEAN, uses : Nat, granted : Nat]
  BY <1>1 DEF RowsOK, CodesOK
<1>7. CASE Create(r)
  <2>1. CodesOK'
    <3>1. CASE UNCHANGED codes
      BY <1>1, <3>1, Kept
    <3>2. CASE ~UNCHANGED codes
      <4>1. /\ promo' = [promo EXCEPT !.granted = promo.granted + 1] /\ UNCHANGED uncounted
            /\ keyed' = keyed \cup (IF requests[r].task.do = "keyed_checkout"
                                    THEN {requests[r].task.on} ELSE {})
        BY <1>7, <3>2 DEF Create
      <4>2. requests[r].task.do = "keyed_checkout" => requests[r].task.on \in BodyKeys
        BY <1>7, Tasks DEF Create, Stands, Typed, Where, Belongs
      <4>3. promo' \in [active : BOOLEAN, uses : Nat, granted : Nat]
        BY <1>6, <4>1
      <4> QED
        BY <1>1, <4>1, <4>2, <4>3 DEF RowsOK, CodesOK
    <3> QED
      BY <3>1, <3>2
  <2> QED
    BY <1>1, <1>7, <2>1, Kept, ProceedKeeps DEF Create, RowsOK
<1>8. CASE CountUse(r)
  <2>1. promo' \in [active : BOOLEAN, uses : Nat, granted : Nat]
    BY <1>6, <1>8 DEF CountUse
  <2>2. CodesOK'
    BY <1>1, <1>8, <2>1 DEF CountUse, RowsOK, CodesOK
  <2> QED
    BY <1>1, <1>8, <2>2, Kept, SucceedKeeps DEF CountUse, RowsOK
<1>9. CASE CountFails(r)
  <2>1. {"promo"} \subseteq Objects
    BY DEF Objects
  <2>2. PaceOK'
    BY <1>1, <1>9, <2>1, UpsetKeeps DEF CountFails
  <2>3. CodesOK'
    BY <1>1, <1>9 DEF CountFails, RowsOK, CodesOK
  <2>4. MiddlewareOK'
    BY <1>1, <1>9 DEF CountFails, RowsOK, MiddlewareOK
  <2> QED
    BY <1>1, <1>9, <2>2, <2>3, <2>4, Kept DEF CountFails, RowsOK
<1> QED
  BY <1>2, <1>3, <1>4, <1>5, <1>7, <1>8, <1>9

LEMMA PlanSteps ==
  ASSUME Typed, NEW r \in Requests,
         \/ ReadPlan(r) \/ Book(r) \/ Switch(r)
         \/ Refund(r) \/ RefundUnknown(r) \/ BookRefund(r)
  PROVE  RowsOK'
<1>1. RowsOK /\ requests \in [Requests -> Request]
  BY TypeParts DEF Typed
<1>2. CASE ReadPlan(r)
  <2>1. UNCHANGED <<disturbed, started, upsets>>
    BY <1>2 DEF ReadPlan, Answer
  <2> QED
    BY <1>1, <1>2, <2>1, Kept DEF ReadPlan, RowsOK
<1>3. CASE Book(r)
  <2>1. requests[r].at = "book"
    BY <1>3 DEF Book, Stands
  <2>2. Entry(r) \in {"proration", "credit", "refund", "charge"}
    BY DEF Entry
  <2>3. requests[r].task.on \in Plans \cup Orders \cup {Nothing} /\ Net(r) \in Int
    BY <2>1, Reads, NetIsInt DEF Net
  <2>4. LedgerOK'
    BY <1>1, <1>3, <2>2, <2>3, Kept, AppendKeeps DEF Book
  <2> QED
    BY <1>1, <1>3, <2>4, Kept, ProceedKeeps DEF Book, RowsOK
<1>4. CASE Switch(r)
  <2>1. requests[r].task.on \in Plans /\ requests[r].task.on \in Nat /\ plan \in Nat /\ requests[r].left \in Nat
    BY <1>4, Reads DEF Switch, Stands
  <2>2. NetAdjustment(plan, requests[r].task.on, requests[r].left) \in Int
    BY <2>1, NetIsInt
  <2>3. SubscriptionOK'
    BY <1>1, <1>4, <2>1, <2>2 DEF Switch, RowsOK, SubscriptionOK
  <2> QED
    BY <1>1, <1>4, <2>3, Kept, SucceedKeeps DEF Switch, RowsOK
<1>5. CASE Refund(r)
  <2>1. RefundsOK'
    BY <1>1, <1>5, RefundMovesDoes, Kept DEF Refund
  <2> QED
    BY <1>1, <1>5, <2>1, Kept, ProceedKeeps DEF Refund, RowsOK
<1>6. CASE RefundUnknown(r)
  <2>1. RefundsOK'
    BY <1>6, RefundMovesDoes DEF RefundUnknown
  <2>2. PaceOK'
    BY <1>1, <1>6, Reads, UpsetKeeps DEF RefundUnknown
  <2> QED
    BY <1>1, <1>6, <2>1, <2>2, Kept DEF RefundUnknown, RowsOK
<1>7. CASE BookRefund(r)
  <2>1. LedgerOK'
    BY <1>1, <1>7, Kept, AppendKeeps DEF BookRefund
  <2> QED
    BY <1>1, <1>7, <2>1, Kept, ProceedKeeps, SucceedKeeps DEF BookRefund, RowsOK
<1> QED
  BY <1>2, <1>3, <1>4, <1>5, <1>6, <1>7

LEMMA LinkSteps ==
  ASSUME Typed, NEW r \in Requests,
         \/ ReadLink(r) \/ Initiate(r)
         \/ Seen(r) \/ Mark(r) \/ Use(r) \/ Charge(r) \/ Skip(r) \/ Drop(r)
  PROVE  RowsOK'
<1>1. RowsOK /\ requests \in [Requests -> Request]
  BY TypeParts DEF Typed
<1>2. CASE ReadLink(r)
  BY <1>1, <1>2, Kept, ProceedKeeps DEF ReadLink, RowsOK
<1>3. CASE Initiate(r)
  <2>1. LinksOK'
    BY <1>1, <1>3 DEF Initiate, RowsOK, LinksOK
  <2> QED
    BY <1>1, <1>3, <2>1, Kept, ProceedKeeps, SucceedKeeps DEF Initiate, RowsOK
<1>4. CASE Seen(r)
  BY <1>1, <1>4, Kept, ProceedKeeps DEF Seen, RowsOK
<1>5. CASE Mark(r)
  <2>1. requests[r].task.on \in Ids
    BY <1>5, Reads DEF Mark, Stands
  <2>2. LinksOK'
    BY <1>1, <1>5, <2>1 DEF Mark, RowsOK, LinksOK
  <2> QED
    BY <1>1, <1>5, <2>2, Kept, ProceedKeeps DEF Mark, RowsOK
<1>6. CASE Use(r)
  <2>1. link \in [active : BOOLEAN, uses : Nat]
    BY <1>1 DEF RowsOK, LinksOK
  <2>2. link' \in [active : BOOLEAN, uses : Nat]
    BY <1>6, <2>1 DEF Use
  <2>3. LinksOK'
    BY <1>1, <1>6, <2>2 DEF Use, RowsOK, LinksOK
  <2> QED
    BY <1>1, <1>6, <2>3, Kept, ProceedKeeps DEF Use, RowsOK
<1>7. CASE Charge(r)
  <2>1. about[requests[r].task.on] \in Plans \cup Orders \cup {Nothing}
    BY <1>7, Reads DEF Charge, Stands
  <2>2. LedgerOK'
    BY <1>1, <1>7, <2>1, Kept, AppendKeeps DEF Charge
  <2> QED
    BY <1>1, <1>7, <2>2, Kept, ProceedKeeps DEF Charge, RowsOK
<1>8. CASE Skip(r)
  <2>1. {requests[r].task.on} \subseteq Objects
    BY <1>8, Reads DEF Skip, Objects
  <2>2. PaceOK'
    BY <1>1, <1>8, <2>1, UpsetKeeps DEF Skip
  <2> QED
    BY <1>1, <1>8, <2>2, Kept DEF Skip, RowsOK
<1>9. CASE Drop(r)
  <2>1. PaceOK'
    BY <1>1, <1>9, Reads, UpsetKeeps DEF Drop
  <2>2. CodesOK'
    BY <1>1, <1>9 DEF Drop, RowsOK, CodesOK
  <2> QED
    BY <1>1, <1>9, <2>1, <2>2, Kept DEF Drop, RowsOK
<1> QED
  BY <1>2, <1>3, <1>4, <1>5, <1>6, <1>7, <1>8, <1>9

LEMMA StepKeeps ==
  ASSUME Typed, NEW r \in Requests, Step(r)
  PROVE  Typed'
<1>1. requests' \in [Requests -> Request] /\ Where'
  BY WalkingKeeps
<1>2. RowsOK'
  BY CheckoutSteps, PlanSteps, LinkSteps DEF Step
<1> QED
  BY <1>1, <1>2, TypeParts DEF Typed

(* A request arrives.                                                      *)
Arrives(r) ==
  \/ \E t \in Task : Call(r, t) \/ \E k \in Keys : CallWithKey(r, t, k)
  \/ \E o \in Orders, i \in Ids : Notify(r, o, i)

(* Notify tells a request id its order and changes no other.               *)
Tells ==
  \/ UNCHANGED about
  \/ \E i \in Ids, o \in Orders : about[i] \in {Nothing, o} /\ about' = [about EXCEPT ![i] = o]

LEMMA ArrivalKeeps ==
  ASSUME Typed, NEW r \in Requests, Arrives(r)
  PROVE  /\ Typed'
         /\ UNCHANGED <<rows, ran, upsets, codes, subscription, ledger, refunds, link, orders, marked>>
         /\ Tells
         /\ \E t \in Task \cup Notice, k \in Keys \cup {NoKey},
               at \in FirstSteps \cup {"lookup", "seen"} :
              /\ Comes(r, t, k, at)
              /\ at \in FirstSteps => k = NoKey
              /\ at = "lookup" => /\ t \in Task /\ k \in Keys /\ asked[k] \in {NoTask, t}
                                  /\ asked' = [asked EXCEPT ![k] = t]
              /\ at # "lookup" => UNCHANGED asked
              /\ at = "seen" => t \in Notice /\ k = NoKey /\ about'[t.on] \in Orders
<1>1. RowsOK /\ requests \in [Requests -> Request]
  BY TypeParts DEF Typed
<1>2. ASSUME NEW t \in Task \cup Notice, NEW k \in Keys \cup {NoKey}, NEW at \in Steps,
             Begin(r, t, k, at), UNCHANGED <<rows, ran, link, orders, marked>>, Tells,
             asked' \in [Keys -> Task \cup {NoTask}],
             \A q : q.at = at /\ q.task = t /\ q.key = k => Belongs(q)
      PROVE  Typed'
  <2>1. /\ requests' \in [Requests -> Request] /\ Comes(r, t, k, at)
        /\ started' = started + 1 /\ started < MaxRequests
        /\ UNCHANGED <<upsets, codes, subscription, ledger, refunds>>
    BY <1>1, <1>2, BeginDoes
  <2>2. WorksOn(t, k) \subseteq Objects
    BY WorksOnObjects
  <2>3. PaceOK'
    BY <1>1, <2>1, <2>2, SalesAssumption DEF Comes, RowsOK, PaceOK
  <2>4. MiddlewareOK'
    BY <1>1, <1>2 DEF RowsOK, MiddlewareOK
  <2>5. RowsOK'
    <3>1. LinksOK'
      BY <1>1, <1>2 DEF RowsOK, LinksOK, Tells
    <3> QED
      BY <1>1, <2>1, <2>3, <2>4, <3>1, Kept DEF RowsOK
  <2>6. requests'[r].at = at /\ requests'[r].task = t /\ requests'[r].key = k
    BY <2>1 DEF Comes
  <2>7. Belongs(requests'[r])
    BY <1>2, <2>6
  <2>8. Where'
    BY <2>1, <2>7 DEF Typed, Where, Comes, Others
  <2> QED
    BY <2>1, <2>5, <2>8, TypeParts DEF Typed
<1>3. asked \in [Keys -> Task \cup {NoTask}] /\ FirstSteps \cup {"lookup", "seen"} \subseteq Steps
  BY <1>1 DEF RowsOK, MiddlewareOK, FirstSteps, Steps
<1> DEFINE Keeps == /\ Typed' /\ Tells
                    /\ UNCHANGED <<rows, ran, upsets, codes, subscription, ledger, refunds, link, orders, marked>>
<1>4. ASSUME NEW t \in Task, Call(r, t)
      PROVE  /\ Keeps /\ UNCHANGED asked
             /\ Comes(r, t, NoKey, FirstStep(t)) /\ FirstStep(t) \in FirstSteps
  <2>1. /\ FirstStep(t) \in FirstSteps /\ FirstStep(t) \in Steps
        /\ Begin(r, t, NoKey, FirstStep(t))
        /\ UNCHANGED <<rows, asked, ran, link, orders, about, marked>>
    BY <1>3, <1>4, FirstStepIsOne DEF Call, Arrive, middleware, links
  <2>2. Comes(r, t, NoKey, FirstStep(t)) /\ UNCHANGED <<upsets, codes, subscription, ledger, refunds>>
    BY <1>1, <2>1, BeginDoes
  <2>3. \A q : q.at = FirstStep(t) /\ q.task = t /\ q.key = NoKey => Belongs(q)
    BY <2>1, FirstStepIsOne DEF Belongs, FirstSteps
  <2> QED
    BY <1>2, <1>3, <2>1, <2>2, <2>3 DEF Tells
<1>5. ASSUME NEW t \in Task, NEW k \in Keys, CallWithKey(r, t, k)
      PROVE  /\ Keeps /\ Comes(r, t, k, "lookup")
             /\ asked[k] \in {NoTask, t} /\ asked' = [asked EXCEPT ![k] = t]
  <2>1. /\ Begin(r, t, k, "lookup") /\ "lookup" \in Steps
        /\ UNCHANGED <<rows, ran, link, orders, about, marked>>
    BY <1>3, <1>5 DEF CallWithKey, Arrive, links
  <2>2. /\ asked[k] \in {NoTask, t} /\ asked' = [asked EXCEPT ![k] = t]
        /\ asked' \in [Keys -> Task \cup {NoTask}]
    BY <1>3, <1>5 DEF CallWithKey
  <2>3. Comes(r, t, k, "lookup") /\ UNCHANGED <<upsets, codes, subscription, ledger, refunds>>
    BY <1>1, <2>1, BeginDoes
  <2>4. \A q : q.at = "lookup" /\ q.task = t /\ q.key = k => Belongs(q)
    BY DEF Belongs
  <2> QED
    BY <1>2, <2>1, <2>2, <2>3, <2>4 DEF Tells
<1>6. ASSUME NEW o \in Orders, NEW i \in Ids, Notify(r, o, i)
      PROVE  /\ Keeps /\ UNCHANGED asked
             /\ \E t \in Notice : Comes(r, t, NoKey, "seen") /\ about'[t.on] \in Orders
  <2> DEFINE t == [do |-> "notice", on |-> i]
  <2>1. t \in Notice /\ t.on = i
    BY DEF Notice
  <2>2. /\ Begin(r, t, NoKey, "seen") /\ UNCHANGED <<rows, asked, ran, link, orders, marked>>
        /\ about[i] \in {Nothing, o} /\ about' = [about EXCEPT ![i] = o]
    BY <1>6 DEF Notify, middleware
  <2> HIDE DEF t
  <2>3. Comes(r, t, NoKey, "seen") /\ UNCHANGED <<upsets, codes, subscription, ledger, refunds>>
    BY <1>1, <1>3, <2>1, <2>2, BeginDoes
  <2>4. \A q : q.at = "seen" /\ q.task = t /\ q.key = NoKey => Belongs(q)
    BY <2>1 DEF Belongs
  <2>5. Tells
    BY <2>2 DEF Tells
  <2>6. about'[t.on] = o
    BY <1>1, <2>1, <2>2 DEF RowsOK, LinksOK
  <2>7. Typed'
    BY <1>2, <1>3, <2>1, <2>2, <2>4, <2>5
  <2> QED
    BY <2>1, <2>2, <2>3, <2>5, <2>6, <2>7
<1> HIDE DEF Keeps
<1>7. FirstSteps \cap {"lookup", "seen"} = {}
  BY DEF FirstSteps
<1>8. CASE \E t \in Task : Call(r, t)
  <2>1. PICK t \in Task : Call(r, t)
    BY <1>8
  <2> QED
    BY <1>4, <1>7, <2>1 DEF Keeps
<1>9. CASE \E t \in Task, k \in Keys : CallWithKey(r, t, k)
  <2>1. PICK t \in Task, k \in Keys : CallWithKey(r, t, k)
    BY <1>9
  <2> QED
    BY <1>5, <1>7, <2>1 DEF Keeps
<1>10. CASE \E o \in Orders, i \in Ids : Notify(r, o, i)
  <2>1. PICK t \in Notice : Comes(r, t, NoKey, "seen") /\ about'[t.on] \in Orders
    BY <1>6, <1>10
  <2> QED
    BY <1>6, <1>7, <1>10, <2>1 DEF Keeps
<1> QED
  BY <1>8, <1>9, <1>10 DEF Arrives

(* What needs no request.                                                  *)
Aside ==
  \/ \E k \in Keys : Expire(k)
  \/ \E o \in Orders : Pay(o)
  \/ \E i \in Ids : Forget(i)
  \/ DeleteExpired \/ DeactivatePromo \/ DeactivateLink \/ NextDay

LEMMA AsideKeeps ==
  ASSUME Typed, Aside
  PROVE  Typed' /\ UNCHANGED requests
<1>1. RowsOK /\ requests \in [Requests -> Request]
  BY TypeParts DEF Typed
<1>2. UNCHANGED requests
  BY DEF Aside, Expire, Pay, Forget, DeleteExpired, DeactivatePromo, DeactivateLink, NextDay
<1>3. ASSUME \E k \in Keys : Expire(k) PROVE RowsOK'
  <2>1. PICK k \in Keys : Expire(k)
    BY <1>3
  <2>2. PaceOK'
    <3>1. {k} \subseteq Objects
      BY DEF Objects
    <3> QED
      BY <1>1, <2>1, <3>1, UpsetKeeps DEF Expire
  <2>3. MiddlewareOK'
    BY <1>1, <2>1 DEF Expire, RowsOK, MiddlewareOK
  <2> QED
    BY <1>1, <2>1, <2>2, <2>3, Kept DEF Expire, RowsOK
<1>4. ASSUME \E o \in Orders : Pay(o) PROVE RowsOK'
  <2>1. LinksOK'
    BY <1>1, <1>4 DEF Pay, RowsOK, LinksOK
  <2> QED
    BY <1>1, <1>4, <2>1, Kept DEF Pay, RowsOK
<1>5. ASSUME \E i \in Ids : Forget(i) PROVE RowsOK'
  <2>1. PICK i \in Ids : Forget(i)
    BY <1>5
  <2>2. PaceOK'
    <3>1. {i} \subseteq Objects
      BY DEF Objects
    <3> QED
      BY <1>1, <2>1, <3>1, UpsetKeeps DEF Forget
  <2>3. LinksOK'
    BY <1>1, <2>1 DEF Forget, RowsOK, LinksOK
  <2> QED
    BY <1>1, <2>1, <2>2, <2>3, Kept DEF Forget, RowsOK
<1>6. ASSUME Upset, UNCHANGED <<disturbed, started>>
      PROVE  PaceOK'
  BY <1>1, <1>6, SalesAssumption DEF RowsOK, PaceOK, Upset
<1>7. ASSUME DeleteExpired PROVE RowsOK'
  <2>1. MiddlewareOK'
    BY <1>1, <1>7 DEF DeleteExpired, RowsOK, MiddlewareOK
  <2> QED
    BY <1>1, <1>7, <2>1, Kept DEF DeleteExpired, RowsOK
<1>8. ASSUME DeactivatePromo PROVE RowsOK'
  <2>1. promo' \in [active : BOOLEAN, uses : Nat, granted : Nat]
    BY <1>1, <1>8 DEF DeactivatePromo, Deactivated, RowsOK, CodesOK
  <2>2. CodesOK'
    BY <1>1, <1>8, <2>1 DEF DeactivatePromo, RowsOK, CodesOK
  <2> QED
    BY <1>1, <1>6, <1>8, <2>2, Kept DEF DeactivatePromo, RowsOK
<1>9. ASSUME DeactivateLink PROVE RowsOK'
  <2>1. link' \in [active : BOOLEAN, uses : Nat]
    BY <1>1, <1>9 DEF DeactivateLink, Deactivated, RowsOK, LinksOK
  <2>2. LinksOK'
    BY <1>1, <1>9, <2>1 DEF DeactivateLink, RowsOK, LinksOK
  <2> QED
    BY <1>1, <1>6, <1>9, <2>2, Kept DEF DeactivateLink, RowsOK
<1>10. ASSUME NextDay PROVE RowsOK'
  <2>1. SubscriptionOK'
    BY <1>1, <1>10, SalesAssumption DEF NextDay, RowsOK, SubscriptionOK
  <2> QED
    BY <1>1, <1>6, <1>10, <2>1, Kept DEF NextDay, RowsOK
<1>11. RowsOK'
  BY <1>3, <1>4, <1>5, <1>7, <1>8, <1>9, <1>10 DEF Aside
<1>12. Where'
  BY <1>2 DEF Typed, Where
<1> QED
  BY <1>1, <1>2, <1>11, <1>12, TypeParts DEF Typed

LEMMA NextIs ==
  ASSUME Next
  PROVE  (\E r \in Requests : Arrives(r) \/ Step(r)) \/ Aside
BY DEF Next, Arrives, Aside

LEMMA NextKeeps ==
  ASSUME Typed, Next
  PROVE  Typed'
BY NextIs, ArrivalKeeps, StepKeeps, AsideKeeps

LEMMA InitTyped == Init => Typed
<1> SUFFICES ASSUME Init PROVE Typed
  OBVIOUS
<1>1. NewPromo \in [active : BOOLEAN, uses : Nat, granted : Nat] /\ NewLink \in [active : BOOLEAN, uses : Nat]
  BY DEF NewPromo, NewLink
<1>2. requests \in [Requests -> Request] /\ Where
  BY NoRequestIsOne DEF Init, Where
<1>3. Period \in Nat /\ MaxRequests \in Nat /\ MaxUpsets \in Nat
  BY SalesAssumption
<1>4. RowsOK
  BY <1>1, <1>3 DEF Init, RowsOK, MiddlewareOK, CodesOK, SubscriptionOK, LedgerOK, RefundsOK, LinksOK, PaceOK
<1> QED
  BY <1>2, <1>4, TypeParts DEF Typed

LEMMA TypedAlways == Spec => []Typed
<1>1. Typed /\ [Next]_vars => Typed'
  <2> SUFFICES ASSUME Typed, [Next]_vars PROVE Typed'
    OBVIOUS
  <2>1. CASE UNCHANGED vars
    BY <2>1 DEF Typed, TypeOK, Where, vars
  <2> QED
    BY <2>1, NextKeeps
<1> QED
  BY InitTyped, <1>1, PTL DEF Spec

(* The rows and the requests keep their types, and the ledger keeps one    *)
(* entry for each idempotency key (internal/ledger/service.go).            *)
THEOREM TypeCorrect == Spec => []TypeOK
<1>1. Typed => TypeOK
  BY DEF Typed
<1> QED
  BY TypedAlways, <1>1, PTL

-----------------------------------------------------------------------------
(* On what is not disturbed there is one request at most.                  *)

Works(r) == WorksOn(requests[r].task, requests[r].key)

Alone == \A q, r \in Requests : q # r => Works(q) \cap Works(r) \subseteq disturbed

LEMMA Disturbs ==
  ASSUME Next
  PROVE  disturbed \subseteq disturbed'
<1>1. ASSUME NEW r \in Requests, Arrives(r)
      PROVE  disturbed \subseteq disturbed'
  BY <1>1 DEF Arrives, Call, CallWithKey, Notify, Arrive, Begin
<1>2. ASSUME NEW r \in Requests, Step(r)
      PROVE  disturbed \subseteq disturbed'
  BY <1>2 DEF Step, Lookup, Store, Validate, Find, Create, CountUse, CountFails, ReadPlan, Book,
     Switch, Refund, RefundUnknown, BookRefund, ReadLink, Initiate, Seen, Mark, Use, Charge, Skip,
     Drop, Goto, Answer, Succeed, Refuse, Proceed
<1>3. CASE Aside
  BY <1>3 DEF Aside, Expire, Pay, Forget, DeleteExpired, DeactivatePromo, DeactivateLink, NextDay
<1> QED
  BY <1>1, <1>2, <1>3, NextIs

LEMMA AloneStep ==
  ASSUME Typed, Alone, Next
  PROVE  Alone'
<1>1. disturbed \subseteq disturbed'
  BY Disturbs
<1>2. ASSUME NEW r \in Requests, Others(r),
             \A q \in Requests : q # r => Works(r)' \cap Works(q) \subseteq disturbed'
      PROVE  Alone'
  <2>1. \A q \in Requests : q # r => Works(q)' = Works(q)
    BY <1>2 DEF Others, Works
  <2> QED
    BY <1>1, <1>2, <2>1 DEF Alone
<1>3. ASSUME NEW r \in Requests, Step(r)
      PROVE  Alone'
  <2>1. PICK from, to : Takes(r, from, to)
    BY <1>3, WalkingKeeps
  <2>2. Works(r)' = {} \/ Works(r)' = Works(r)
    BY <2>1, NoRequestIsOne DEF Takes, Works
  <2>3. Others(r)
    BY <2>1 DEF Takes
  <2> QED
    BY <1>1, <1>2, <2>2, <2>3 DEF Alone
<1>4. ASSUME NEW r \in Requests, Arrives(r)
      PROVE  Alone'
  <2>1. PICK t \in Task \cup Notice, k \in Keys \cup {NoKey}, at \in FirstSteps \cup {"lookup", "seen"} :
          Comes(r, t, k, at)
    BY <1>4, ArrivalKeeps
  <2>2. /\ Others(r) /\ Works(r)' = WorksOn(t, k)
        /\ disturbed' = disturbed \cup (WorksOn(t, k) \cap Busy)
    BY <2>1 DEF Comes, Works
  <2>3. \A q \in Requests : Works(q) \subseteq Busy
    BY DEF Busy, Works
  <2> QED
    BY <1>2, <2>2, <2>3
<1>5. CASE Aside
  BY <1>1, <1>5, AsideKeeps DEF Alone, Works
<1> QED
  BY <1>3, <1>4, <1>5, NextIs

LEMMA AloneAlways == Spec => []Alone
<1>1. Init => Alone
  BY NoRequestIsOne DEF Init, Alone, Works
<1>2. Typed /\ Alone /\ [Next]_vars => Alone'
  BY AloneStep DEF vars, Alone, Works
<1> QED
  BY TypedAlways, <1>1, <1>2, PTL DEF Spec

(* An idle request works on nothing.                                       *)
LEMMA WorkingIsBusy ==
  ASSUME Typed, NEW r \in Requests, NEW x \in Works(r)
  PROVE  requests[r].at # "idle"
BY NoRequestIsOne DEF Typed, Where, Belongs, Works

-----------------------------------------------------------------------------
(* Counting the requests at some steps, when one of them moves.            *)

LEMMA Counted ==
  ASSUME NEW r \in Requests, Others(r), NEW S
  PROVE  /\ Cardinality(At(S)) \in Nat /\ Cardinality(At(S))' \in Nat
         /\ requests[r].at \in S /\ requests'[r].at \in S =>
              Cardinality(At(S))' = Cardinality(At(S))
         /\ requests[r].at \notin S /\ requests'[r].at \notin S =>
              Cardinality(At(S))' = Cardinality(At(S))
         /\ requests[r].at \in S /\ requests'[r].at \notin S =>
              Cardinality(At(S))' = Cardinality(At(S)) - 1
         /\ requests[r].at \notin S /\ requests'[r].at \in S =>
              Cardinality(At(S))' = Cardinality(At(S)) + 1
<1> DEFINE rest == At(S) \ {r}
<1>1. IsFiniteSet(At(S)) /\ IsFiniteSet(At(S)') /\ IsFiniteSet(rest)
  <2>1. At(S) \subseteq Requests /\ At(S)' \subseteq Requests
    BY DEF At
  <2> QED
    BY <2>1, SalesAssumption, FS_Subset
<1>2. /\ Cardinality(At(S)) \in Nat /\ Cardinality(At(S)') \in Nat /\ Cardinality(rest) \in Nat
  BY <1>1, FS_CardinalityType
<1>3. r \notin rest
  OBVIOUS
<1>4. /\ requests[r].at \in S => At(S) = rest \cup {r}
      /\ requests[r].at \notin S => At(S) = rest
      /\ requests'[r].at \in S => At(S)' = rest \cup {r}
      /\ requests'[r].at \notin S => At(S)' = rest
  BY DEF At, Others
<1> HIDE DEF rest
<1>5. Cardinality(rest \cup {r}) = Cardinality(rest) + 1
  BY <1>1, <1>3, FS_AddElement
<1>6. /\ requests[r].at \in S => Cardinality(At(S)) = Cardinality(rest) + 1
      /\ requests[r].at \notin S => Cardinality(At(S)) = Cardinality(rest)
  BY <1>4, <1>5
<1>7. /\ requests'[r].at \in S => Cardinality(At(S)') = Cardinality(rest) + 1
      /\ requests'[r].at \notin S => Cardinality(At(S)') = Cardinality(rest)
  BY <1>4, <1>5
<1> QED
  BY <1>2, <1>6, <1>7

(* Where nobody moves, nothing is counted anew. *)
LEMMA Uncounted ==
  ASSUME UNCHANGED requests, NEW S
  PROVE  At(S)' = At(S)
BY DEF At

LEMMA AtNone ==
  ASSUME NEW S, \A r \in Requests : requests[r].at \notin S
  PROVE  Cardinality(At(S)) = 0
<1>1. At(S) = {}
  BY DEF At
<1> QED
  BY <1>1, FS_EmptySet

(* Requests at disjoint sets of steps are no more than the requests.       *)
LEMMA AtMostAll ==
  ASSUME NEW S, NEW T, S \cap T = {}
  PROVE  /\ Cardinality(Requests) \in Nat
         /\ Cardinality(At(S)) \in Nat /\ Cardinality(At(T)) \in Nat
         /\ Cardinality(At(S)) + Cardinality(At(T)) <= Cardinality(Requests)
         /\ Cardinality(At(S))' + Cardinality(At(T))' <= Cardinality(Requests)
<1>1. ASSUME NEW X, NEW Y, X \subseteq Requests, Y \subseteq Requests, X \cap Y = {}
      PROVE  /\ Cardinality(Requests) \in Nat /\ Cardinality(X) \in Nat /\ Cardinality(Y) \in Nat
             /\ Cardinality(X) + Cardinality(Y) <= Cardinality(Requests)
  <2>1. X \cup Y \subseteq Requests
    BY <1>1
  <2>2. IsFiniteSet(X) /\ IsFiniteSet(Y) /\ IsFiniteSet(Requests)
    BY <1>1, SalesAssumption, FS_Subset
  <2>3. /\ Cardinality(Requests) \in Nat
        /\ Cardinality(X) \in Nat /\ Cardinality(Y) \in Nat
    BY <2>2, FS_CardinalityType
  <2>4. Cardinality(X \cup Y) = Cardinality(X) + Cardinality(Y)
    <3>1. Cardinality(X \cup Y) = Cardinality(X) + Cardinality(Y) - Cardinality(X \cap Y)
      BY <2>2, FS_Union
    <3>2. Cardinality(X \cap Y) = 0
      BY <1>1, FS_EmptySet
    <3> QED
      BY <2>3, <3>1, <3>2
  <2>5. Cardinality(X \cup Y) <= Cardinality(Requests)
    BY <2>1, <2>2, FS_Subset
  <2> QED
    BY <2>3, <2>4, <2>5
<1>2. /\ At(S) \subseteq Requests /\ At(T) \subseteq Requests /\ At(S) \cap At(T) = {}
      /\ At(S)' \subseteq Requests /\ At(T)' \subseteq Requests /\ At(S)' \cap At(T)' = {}
  BY DEF At
<1> QED
  BY <1>1, <1>2

-----------------------------------------------------------------------------
(* Refunds.                                                                *)

RefundInv ==
  /\ Booked("refund", Nothing) => Refunded
  /\ At({"book_refund"}) # {} => Refunded
  /\ Refunded /\ "invoice" \notin disturbed /\ At({"book_refund"}) = {} =>
       Booked("refund", Nothing)

LEMMA RefundStep ==
  ASSUME Typed, RefundInv, Next
  PROVE  RefundInv'
<1>1. UNCHANGED refunds => (Refunded' <=> Refunded)
  BY DEF Refunded
<1>2. disturbed \subseteq disturbed'
  BY Disturbs
<1>3. ASSUME UNCHANGED refunds, At({"book_refund"})' = At({"book_refund"}),
             Booked("refund", Nothing)' <=> Booked("refund", Nothing)
      PROVE  RefundInv'
  BY <1>1, <1>2, <1>3 DEF RefundInv
<1>4. ASSUME NEW r \in Requests, Others(r), requests[r].at # "book_refund", requests'[r].at # "book_refund"
      PROVE  At({"book_refund"})' = At({"book_refund"})
  BY <1>4 DEF At, Others
<1>5. UNCHANGED ledger => (Booked("refund", Nothing)' <=> Booked("refund", Nothing))
  BY DEF Booked
<1>6. ASSUME NEW r \in Requests, Arrives(r)
      PROVE  RefundInv'
  <2>1. /\ UNCHANGED <<refunds, ledger>>
        /\ \E t, k : \E at \in FirstSteps \cup {"lookup", "seen"} : Comes(r, t, k, at)
    BY <1>6, ArrivalKeeps
  <2>2. Others(r) /\ requests[r].at # "book_refund" /\ requests'[r].at # "book_refund"
    BY <2>1 DEF Comes, FirstSteps
  <2> QED
    BY <1>3, <1>4, <1>5, <2>1, <2>2
<1>7. CASE Aside
  <2>1. UNCHANGED <<refunds, ledger, requests>>
    BY <1>7 DEF Aside, Expire, Pay, Forget, DeleteExpired, DeactivatePromo, DeactivateLink, NextDay,
       subscription, links
  <2> QED
    BY <1>3, <1>5, <2>1, Uncounted
<1>8. ASSUME NEW r \in Requests, Refund(r)
      PROVE  RefundInv'
  <2>1. Takes(r, {"refund"}, {"idle", "book_refund"}) /\ UNCHANGED ledger
    BY <1>8, Walks DEF Refund
  <2>2. CASE RefundMoves(r) /\ Proceed(r, "book_refund")
    <3>1. requests \in [Requests -> Request] /\ "book_refund" \in Steps
      BY TypeParts DEF Typed, Steps
    <3>2. requests'[r].at = "book_refund"
      BY <2>2, <3>1, GotoDoes DEF Proceed
    <3>3. r \in At({"book_refund"})' /\ Refunded'
      BY <2>2, <3>2, RefundMovesDoes DEF At
    <3> QED
      BY <3>3 DEF RefundInv
  <2>3. CASE UNCHANGED refunds /\ Refuse(r)
    <3>1. requests \in [Requests -> Request]
      BY TypeParts DEF Typed
    <3>2. requests'[r] = NoRequest
      BY <2>3, <3>1, EndDoes DEF Refuse, Answer
    <3>3. At({"book_refund"})' = At({"book_refund"})
      BY <1>4, <2>1, <3>2, NoRequestIsOne DEF Takes
    <3> QED
      BY <1>3, <1>5, <2>1, <2>3, <3>3
  <2> QED
    BY <1>8, <2>2, <2>3 DEF Refund
<1>9. ASSUME NEW r \in Requests, RefundUnknown(r)
      PROVE  RefundInv'
  <2>1. Takes(r, {"refund"}, {"idle"}) /\ UNCHANGED ledger /\ Refunded'
    BY <1>9, Walks, RefundMovesDoes DEF RefundUnknown
  <2>2. "invoice" \in disturbed'
    <3>1. requests[r].task.do = "refund"
      BY <2>1 DEF Takes, Typed, Where, Belongs
    <3> QED
      BY <1>9, <3>1 DEF RefundUnknown, WorksOn
  <2> QED
    BY <2>1, <2>2 DEF RefundInv
<1>10. ASSUME NEW r \in Requests, BookRefund(r)
       PROVE  RefundInv'
  <2>1. Takes(r, {"book_refund"}, {"idle", "store"}) /\ UNCHANGED refunds
    BY <1>10, Walks DEF BookRefund
  <2>2. Refunded
    BY <2>1 DEF RefundInv, At, Takes
  <2>3. Booked("refund", Nothing)'
    <3>1. CASE Booked("refund", Nothing)
      BY <1>10, <3>1 DEF BookRefund, Booked
    <3>2. CASE ~Booked("refund", Nothing)
      BY <1>10, <3>2, Appended DEF BookRefund
    <3> QED
      BY <3>1, <3>2
  <2> QED
    BY <1>1, <2>1, <2>2, <2>3 DEF RefundInv
<1>11. ASSUME NEW r \in Requests, Drop(r)
       PROVE  RefundInv'
  <2>1. Takes(r, Steps \ {"idle"}, {"idle"}) /\ UNCHANGED <<refunds, ledger>>
    BY <1>11, Walks DEF Drop
  <2>2. CASE requests[r].at = "book_refund"
    <3>1. "invoice" \in disturbed'
      <4>1. requests[r].task.do = "refund"
        BY <2>2 DEF Typed, Where, Belongs
      <4> QED
        BY <1>11, <4>1 DEF Drop, WorksOn
    <3>2. Refunded
      BY <2>2 DEF RefundInv, At
    <3> QED
      BY <1>1, <1>5, <2>1, <3>1, <3>2 DEF RefundInv
  <2>3. CASE requests[r].at # "book_refund"
    BY <1>3, <1>4, <1>5, <2>1, <2>3 DEF Takes
  <2> QED
    BY <2>2, <2>3
<1>12. ASSUME NEW r \in Requests, NEW from, NEW to, Takes(r, from, to),
              "book_refund" \notin from \cup to, UNCHANGED refunds,
              \/ UNCHANGED ledger
              \/ \E kind, on, amount : kind # "refund" /\ AppendEntry(kind, on, amount)
       PROVE  RefundInv'
  <2>1. Booked("refund", Nothing)' <=> Booked("refund", Nothing)
    BY <1>12 DEF Booked, AppendEntry
  <2> QED
    BY <1>3, <1>4, <1>12, <2>1 DEF Takes
<1>13. ASSUME NEW r \in Requests, Book(r) \/ Charge(r)
       PROVE  RefundInv'
  <2>1. /\ UNCHANGED refunds
        /\ \/ UNCHANGED ledger
           \/ \E kind, on, amount : kind # "refund" /\ AppendEntry(kind, on, amount)
    BY <1>13 DEF Book, Charge, Entry
  <2> QED
    BY <1>12, <1>13, <2>1, Walks
<1>14. ASSUME NEW r \in Requests,
              \/ Lookup(r) \/ Store(r) \/ Validate(r) \/ Find(r) \/ Create(r)
              \/ CountUse(r) \/ CountFails(r) \/ ReadPlan(r) \/ Switch(r)
              \/ ReadLink(r) \/ Initiate(r) \/ Seen(r) \/ Mark(r) \/ Use(r) \/ Skip(r)
       PROVE  RefundInv'
  <2>1. UNCHANGED <<refunds, ledger>>
    BY <1>14 DEF Lookup, Store, Validate, Find, Create, CountUse, CountFails, ReadPlan, Switch,
       ReadLink, Initiate, Seen, Mark, Use, Skip
  <2>2. \E from, to : Takes(r, from, to) /\ "book_refund" \notin from \cup to
    BY <1>14, Walks DEF FirstSteps
  <2> QED
    BY <1>12, <2>1, <2>2
<1> QED
  BY <1>6, <1>7, <1>8, <1>9, <1>10, <1>11, <1>13, <1>14, NextIs DEF Step

(* The entry of a refund stands for money that went, and the first refund  *)
(* of a payment whose money went has its entry, unless a request for one   *)
(* was cut off or a second one overlapped (refund.go:149).                 *)
THEOREM FirstRefundReachesTheLedger == Spec => []FirstRefundIsBooked
<1>1. Init => RefundInv
  BY NoRequestIsOne DEF Init, RefundInv, Refunded, At, Booked
<1>2. Typed /\ RefundInv /\ [Next]_vars => RefundInv'
  BY RefundStep DEF vars, RefundInv, Refunded, At, Booked
<1>3. RefundInv => FirstRefundIsBooked
  BY DEF RefundInv, FirstRefundIsBooked
<1> QED
  BY TypedAlways, <1>1, <1>2, <1>3, PTL DEF Spec

-----------------------------------------------------------------------------
(* Promo codes.  A discount that was given is counted, about to be, or     *)
(* lost; a request that passed the comparison is one of the requests.      *)

Comparing == {"find", "create"}

PromoInv ==
  /\ promo.granted = promo.uses + Cardinality(At({"count"})) + uncounted
  /\ promo.granted + Cardinality(At(Comparing)) < PromoLimit + Cardinality(Requests) + uncounted
  /\ "promo" \notin disturbed =>
       uncounted = 0 /\ promo.granted + Cardinality(At(Comparing)) <= PromoLimit

LEMMA PromoNumbers ==
  ASSUME Typed
  PROVE  /\ promo.granted \in Nat /\ promo.uses \in Nat /\ uncounted \in Nat
         /\ PromoLimit \in Nat \ {0} /\ Cardinality(Requests) \in Nat
         /\ Cardinality(At({"count"})) \in Nat /\ Cardinality(At(Comparing)) \in Nat
         /\ Cardinality(At({"count"})) + Cardinality(At(Comparing)) <= Cardinality(Requests)
         /\ Cardinality(At({"count"}))' + Cardinality(At(Comparing))' <= Cardinality(Requests)
<1>1. promo \in [active : BOOLEAN, uses : Nat, granted : Nat] /\ uncounted \in Nat
  BY DEF Typed, TypeOK
<1>2. {"count"} \cap Comparing = {}
  BY DEF Comparing
<1> QED
  BY <1>1, <1>2, AtMostAll, SalesAssumption

(* Who passed the comparison works on the promo code.                      *)
LEMMA PromoWorks ==
  ASSUME Typed, NEW r \in Requests,
         requests[r].at \in {"validate", "find", "create", "count"}
  PROVE  "promo" \in Works(r)
<1>1. requests[r].task.do \in {"checkout", "keyed_checkout"}
  BY DEF Typed, Where, Belongs
<1> QED
  BY <1>1 DEF Works, WorksOn

LEMMA PromoQuiet ==
  ASSUME Typed, PromoInv, Next, UNCHANGED uncounted,
         promo'.granted = promo.granted, promo'.uses = promo.uses,
         NEW r \in Requests, Others(r),
         requests[r].at # "count", requests'[r].at # "count",
         requests'[r].at \in Comparing => requests[r].at \in Comparing
  PROVE  PromoInv'
<1>1. Cardinality(At({"count"}))' = Cardinality(At({"count"}))
  BY Counted
<1>2. Cardinality(At(Comparing))' <= Cardinality(At(Comparing)) /\ Cardinality(At(Comparing))' \in Nat
  BY Counted, PromoNumbers
<1> QED
  BY <1>1, <1>2, PromoNumbers, Disturbs DEF PromoInv

LEMMA PromoStep ==
  ASSUME Typed, Alone, PromoInv, Next
  PROVE  PromoInv'
<1>1. disturbed \subseteq disturbed'
  BY Disturbs
<1>2. promo \in [active : BOOLEAN, uses : Nat, granted : Nat]
      /\ requests \in [Requests -> Request]
  BY TypeParts DEF Typed, TypeOK
<1>3. ASSUME NEW r \in Requests, Arrives(r)
      PROVE  PromoInv'
  <2>1. /\ UNCHANGED codes
        /\ \E t, k : \E at \in FirstSteps \cup {"lookup", "seen"} : Comes(r, t, k, at)
    BY <1>3, ArrivalKeeps
  <2>2. Others(r) /\ requests[r].at = "idle" /\ requests'[r].at \notin Comparing \cup {"count"}
    BY <2>1 DEF Comes, FirstSteps, Comparing
  <2> QED
    BY <2>1, <2>2, PromoQuiet DEF codes
<1>4. CASE Aside
  <2>1. UNCHANGED <<requests, uncounted>> /\ promo'.granted = promo.granted /\ promo'.uses = promo.uses
    BY <1>2, <1>4 DEF Aside, Expire, Pay, Forget, DeleteExpired, DeactivatePromo, Deactivated,
       DeactivateLink, NextDay, codes
  <2> QED
    BY <1>1, <2>1, Uncounted DEF PromoInv
<1>5. ASSUME NEW r \in Requests, Validate(r)
      PROVE  PromoInv'
  <2>1. Takes(r, {"validate"}, {"idle", "find", "create"}) /\ UNCHANGED <<promo, uncounted>>
    BY <1>5, Walks DEF Validate, codes
  <2>2. CASE ~Usable
    <3>1. requests'[r].at = "idle"
      BY <1>2, <1>5, <2>2, EndDoes, NoRequestIsOne DEF Validate, Refuse, Answer
    <3> QED
      BY <2>1, <3>1, PromoQuiet DEF Takes, Comparing
  <2>3. CASE Usable
    <3>1. promo.uses < PromoLimit
      BY <2>3 DEF Usable
    <3>2. /\ Cardinality(At({"count"}))' = Cardinality(At({"count"}))
          /\ Cardinality(At(Comparing))' <= Cardinality(At(Comparing)) + 1
          /\ Cardinality(At(Comparing))' \in Nat
      BY <2>1, Counted, PromoNumbers DEF Takes, Comparing
    <3>3. /\ promo'.granted = promo'.uses + Cardinality(At({"count"}))' + uncounted'
          /\ promo'.granted + Cardinality(At(Comparing))' <
               PromoLimit + Cardinality(Requests) + uncounted'
      BY <2>1, <3>1, <3>2, PromoNumbers DEF PromoInv
    <3>4. ASSUME "promo" \notin disturbed'
          PROVE  uncounted' = 0 /\ promo'.granted + Cardinality(At(Comparing))' <= PromoLimit
      <4>1. "promo" \notin disturbed /\ requests[r].at = "validate" /\ "promo" \in Works(r)
        BY <1>1, <2>1, <3>4, PromoWorks DEF Takes
      <4>2. \A q \in Requests : requests[q].at \notin {"find", "create", "count"}
        BY <4>1, PromoWorks DEF Alone
      <4>3. Cardinality(At({"count"})) = 0 /\ Cardinality(At(Comparing)) = 0
        BY <4>2, AtNone DEF Comparing
      <4> QED
        BY <2>1, <3>1, <3>2, <4>1, <4>3, PromoNumbers DEF PromoInv
    <3> QED
      BY <3>3, <3>4 DEF PromoInv
  <2> QED
    BY <2>2, <2>3
<1>6. ASSUME NEW r \in Requests, Create(r)
      PROVE  PromoInv'
  <2>1. Takes(r, {"create"}, {"idle", "count"}) /\ UNCHANGED uncounted
    BY <1>6, Walks DEF Create, codes
  <2>2. CASE Exists(r)
    <3>1. requests'[r].at = "idle" /\ UNCHANGED promo
      BY <1>2, <1>6, <2>2, EndDoes, NoRequestIsOne DEF Create, Refuse, Answer, codes
    <3> QED
      BY <2>1, <3>1, PromoQuiet DEF Takes, Comparing
  <2>3. CASE ~Exists(r)
    <3>1. "count" \in Steps
      BY DEF Steps
    <3>2. requests'[r].at = "count" /\ promo' = [promo EXCEPT !.granted = promo.granted + 1]
      BY <1>2, <1>6, <2>3, <3>1, GotoDoes DEF Create, Proceed
    <3>3. promo'.granted = promo.granted + 1 /\ promo'.uses = promo.uses
      BY <1>2, <3>2
    <3>4. /\ Cardinality(At({"count"}))' = Cardinality(At({"count"})) + 1
          /\ Cardinality(At(Comparing))' = Cardinality(At(Comparing)) - 1
          /\ Cardinality(At(Comparing))' \in Nat
      BY <2>1, <3>2, Counted DEF Takes, Comparing
    <3> QED
      BY <1>1, <2>1, <3>3, <3>4, PromoNumbers DEF PromoInv
  <2> QED
    BY <2>2, <2>3
<1>7. ASSUME NEW r \in Requests, CountUse(r)
      PROVE  PromoInv'
  <2>1. Takes(r, {"count"}, {"idle", "store"}) /\ UNCHANGED uncounted
    BY <1>7, Walks DEF CountUse
  <2>2. promo'.granted = promo.granted /\ promo'.uses = promo.uses + 1
    BY <1>2, <1>7 DEF CountUse
  <2>3. /\ Cardinality(At({"count"}))' = Cardinality(At({"count"})) - 1
        /\ Cardinality(At(Comparing))' = Cardinality(At(Comparing))
    BY <2>1, Counted DEF Takes, Comparing
  <2> QED
    BY <1>1, <2>1, <2>2, <2>3, PromoNumbers DEF PromoInv
<1>8. ASSUME NEW r \in Requests, Others(r), requests[r].at = "count", requests'[r].at \in {"idle", "store"},
             UNCHANGED promo, uncounted' = uncounted + 1, "promo" \in disturbed'
      PROVE  PromoInv'
  <2>1. /\ Cardinality(At({"count"}))' = Cardinality(At({"count"})) - 1
        /\ Cardinality(At(Comparing))' = Cardinality(At(Comparing))
    BY <1>8, Counted DEF Comparing
  <2> QED
    BY <1>8, <2>1, PromoNumbers DEF PromoInv
<1>9. ASSUME NEW r \in Requests, CountFails(r)
      PROVE  PromoInv'
  <2>1. /\ Takes(r, {"count"}, {"idle", "store"}) /\ UNCHANGED promo
        /\ uncounted' = uncounted + 1 /\ "promo" \in disturbed'
    BY <1>9, Walks DEF CountFails
  <2> QED
    BY <1>8, <2>1 DEF Takes
<1>10. ASSUME NEW r \in Requests, Drop(r)
       PROVE  PromoInv'
  <2>1. Takes(r, Steps \ {"idle"}, {"idle"}) /\ UNCHANGED promo
    BY <1>10, Walks DEF Drop
  <2>2. CASE requests[r].at = "count"
    <3>1. uncounted' = uncounted + 1 /\ "promo" \in disturbed'
      BY <1>10, <2>2, PromoWorks DEF Drop, Stands, Works
    <3> QED
      BY <1>8, <2>1, <2>2, <3>1 DEF Takes
  <2>3. CASE requests[r].at # "count"
    <3>1. UNCHANGED uncounted
      BY <1>10, <2>3 DEF Drop, Stands
    <3> QED
      BY <2>1, <2>3, <3>1, PromoQuiet DEF Takes, Comparing
  <2> QED
    BY <2>2, <2>3
<1>11. ASSUME NEW r \in Requests,
              \/ Lookup(r) \/ Store(r) \/ Find(r) \/ ReadPlan(r) \/ Book(r) \/ Switch(r)
              \/ Refund(r) \/ RefundUnknown(r) \/ BookRefund(r)
              \/ ReadLink(r) \/ Initiate(r) \/ Seen(r) \/ Mark(r) \/ Use(r) \/ Charge(r) \/ Skip(r)
       PROVE  PromoInv'
  <2>1. UNCHANGED <<promo, uncounted>>
    BY <1>11 DEF Lookup, Store, Find, ReadPlan, Book, Switch, Refund, RefundUnknown, BookRefund,
       ReadLink, Initiate, Seen, Mark, Use, Charge, Skip, codes
  <2>2. /\ Others(r) /\ requests[r].at # "count" /\ requests'[r].at # "count"
        /\ requests'[r].at \in Comparing => requests[r].at \in Comparing
    BY <1>11, Walks DEF Takes, FirstSteps, Comparing
  <2> QED
    BY <2>1, <2>2, PromoQuiet
<1> QED
  BY <1>3, <1>4, <1>5, <1>6, <1>7, <1>9, <1>10, <1>11, NextIs DEF Step

(* The limit of a promo code is compared in one statement and counted in   *)
(* another: it is passed by less than the requests served at a time, and   *)
(* not at all where they do not overlap                                    *)
(* (internal/api/handlers/checkout.go:144 and 299).                        *)
THEOREM PromoIsLimited == Spec => []PromoIsBounded
<1>1. Init => PromoInv
  <2> SUFFICES ASSUME Init PROVE PromoInv
    OBVIOUS
  <2>1. promo.granted = 0 /\ promo.uses = 0 /\ uncounted = 0
    BY DEF Init, NewPromo
  <2>2. Cardinality(At({"count"})) = 0 /\ Cardinality(At(Comparing)) = 0
    <3>1. \A r \in Requests : requests[r].at = "idle"
      BY NoRequestIsOne DEF Init
    <3> QED
      BY <3>1, AtNone DEF Comparing
  <2> QED
    BY <2>1, <2>2, InitTyped, PromoNumbers DEF PromoInv
<1>2. Typed /\ Alone /\ PromoInv /\ [Next]_vars => PromoInv'
  BY PromoStep DEF vars, PromoInv, At
<1>3. Typed /\ PromoInv => PromoIsBounded
  BY PromoNumbers DEF PromoInv, PromoIsBounded
<1> QED
  BY TypedAlways, AloneAlways, <1>1, <1>2, <1>3, PTL DEF Spec

-----------------------------------------------------------------------------
(* Idempotency keys.                                                       *)

Outside == {"idle", "lookup", "store"}

KeyInv ==
  \A k \in Keys \ disturbed :
    /\ ran[k] <= 1
    /\ rows[k] # "expired"
    /\ ran[k] # 0 =>
         rows[k] = "stored" \/ \E r \in Requests : requests[r].at = "store" /\ requests[r].key = k
    /\ \A r \in Requests : requests[r].at \notin Outside /\ requests[r].key = k => ran[k] = 0

LEMMA KeyWorks ==
  ASSUME Typed, NEW r \in Requests, requests[r].key \in Keys
  PROVE  requests[r].key \in Works(r)
BY DEF Works, WorksOn

(* Two requests with one key leave it disturbed. *)
LEMMA KeyAlone ==
  ASSUME Typed, Alone, NEW q \in Requests, NEW r \in Requests, q # r,
         requests[q].key \in Keys, requests[r].key = requests[q].key
  PROVE  requests[q].key \in disturbed
BY KeyWorks DEF Alone

(* A step inside of the handler of r. *)
LEMMA KeyQuiet ==
  ASSUME Typed, KeyInv, Next, UNCHANGED <<rows, ran>>, NEW r \in Requests, Others(r),
         requests[r].at # "store",
         requests'[r].at \notin Outside /\ requests'[r].key \in Keys =>
           requests[r].at \notin Outside /\ requests'[r].key = requests[r].key
  PROVE  KeyInv'
<1>1. disturbed \subseteq disturbed'
  BY Disturbs
<1> SUFFICES ASSUME NEW k \in Keys \ disturbed'
             PROVE  /\ ran[k] <= 1
                    /\ rows[k] # "expired"
                    /\ ran[k] # 0 =>
                         rows[k] = "stored" \/ \E q \in Requests : requests'[q].at = "store" /\ requests'[q].key = k
                    /\ \A q \in Requests : requests'[q].at \notin Outside /\ requests'[q].key = k => ran[k] = 0
  BY DEF KeyInv
<1>2. k \in Keys \ disturbed
  BY <1>1
<1>3. /\ ran[k] <= 1
      /\ rows[k] # "expired"
      /\ ran[k] # 0 =>
           rows[k] = "stored" \/ \E q \in Requests : requests[q].at = "store" /\ requests[q].key = k
      /\ \A q \in Requests : requests[q].at \notin Outside /\ requests[q].key = k => ran[k] = 0
  BY <1>2 DEF KeyInv
<1> QED
  BY <1>2, <1>3 DEF Others

(* The handler of r succeeds. *)
LEMMA KeyRuns ==
  ASSUME Typed, Alone, KeyInv, Next, UNCHANGED rows, NEW r \in Requests, Others(r),
         requests[r].at \notin Outside,
         \A j \in Keys : j # requests[r].key => ran'[j] = ran[j],
         requests[r].key \in Keys =>
           /\ ran'[requests[r].key] = ran[requests[r].key] + 1
           /\ requests'[r].at = "store" /\ requests'[r].key = requests[r].key,
         requests[r].key \notin Keys => requests'[r] = NoRequest
  PROVE  KeyInv'
<1>1. disturbed \subseteq disturbed'
  BY Disturbs
<1> SUFFICES ASSUME NEW k \in Keys \ disturbed'
             PROVE  /\ ran'[k] <= 1
                    /\ rows[k] # "expired"
                    /\ ran'[k] # 0 =>
                         rows[k] = "stored" \/ \E q \in Requests : requests'[q].at = "store" /\ requests'[q].key = k
                    /\ \A q \in Requests : requests'[q].at \notin Outside /\ requests'[q].key = k => ran'[k] = 0
  BY DEF KeyInv
<1>2. k \in Keys \ disturbed
  BY <1>1
<1>3. /\ ran[k] <= 1
      /\ rows[k] # "expired"
      /\ ran[k] # 0 =>
           rows[k] = "stored" \/ \E q \in Requests : requests[q].at = "store" /\ requests[q].key = k
      /\ \A q \in Requests : requests[q].at \notin Outside /\ requests[q].key = k => ran[k] = 0
  BY <1>2 DEF KeyInv
<1>4. CASE k = requests[r].key
  <2>1. ran[k] = 0 /\ ran'[k] = 1
    BY <1>2, <1>3, <1>4
  <2>2. requests'[r].at = "store" /\ requests'[r].key = k
    BY <1>2, <1>4
  <2>3. \A q \in Requests : q # r => requests'[q].key # k
    BY <1>2, <1>4, KeyAlone DEF Others
  <2> QED
    BY <1>3, <2>1, <2>2, <2>3 DEF Outside
<1>5. CASE k # requests[r].key
  <2>1. ran'[k] = ran[k]
    BY <1>2, <1>5
  <2>2. requests'[r].key # k
    BY <1>2, <1>5, NoRequestIsOne, SalesAssumption
  <2> QED
    BY <1>3, <1>5, <2>1, <2>2 DEF Others
<1> QED
  BY <1>4, <1>5

LEMMA KeyStep ==
  ASSUME Typed, Alone, KeyInv, Next
  PROVE  KeyInv'
<1>1. disturbed \subseteq disturbed'
  BY Disturbs
<1>2. /\ requests \in [Requests -> Request] /\ ran \in [Keys -> Nat]
      /\ rows \in [Keys -> {"none", "stored", "expired"}]
  BY TypeParts DEF Typed, TypeOK
<1>3. ASSUME NEW r \in Requests, Arrives(r)
      PROVE  KeyInv'
  <2>1. UNCHANGED <<rows, ran>>
    BY <1>3, ArrivalKeeps
  <2>2. PICK t \in Task \cup Notice, k \in Keys \cup {NoKey}, at \in FirstSteps \cup {"lookup", "seen"} :
          Comes(r, t, k, at) /\ (at \in FirstSteps => k = NoKey) /\ (at = "seen" => t \in Notice)
    BY <1>3, ArrivalKeeps
  <2>3. Typed'
    BY <1>3, ArrivalKeeps
  <2>4. Belongs(requests'[r]) /\ requests'[r].at = at /\ requests'[r].key = k
        /\ requests[r].at = "idle" /\ Others(r)
    BY <2>2, <2>3 DEF Typed, Where, Comes
  <2>5. requests'[r].at \notin Outside => requests'[r].key \notin Keys
    BY <2>2, <2>4, SalesAssumption DEF Outside, FirstSteps, Belongs
  <2> QED
    BY <2>1, <2>4, <2>5, KeyQuiet
<1>4. CASE \E k \in Keys : Expire(k)
  <2>1. PICK k \in Keys : Expire(k)
    BY <1>4
  <2>2. /\ UNCHANGED <<ran, requests>> /\ k \in disturbed'
        /\ \A j \in Keys : j # k => rows'[j] = rows[j]
    BY <1>2, <2>1 DEF Expire
  <2> QED
    BY <1>1, <2>2 DEF KeyInv
<1>5. CASE DeleteExpired
  <2>1. UNCHANGED <<ran, requests>> /\ \A j \in Keys : rows[j] # "expired" => rows'[j] = rows[j]
    BY <1>2, <1>5 DEF DeleteExpired
  <2> QED
    BY <1>1, <2>1 DEF KeyInv
<1>6. CASE Aside /\ ~DeleteExpired /\ ~\E k \in Keys : Expire(k)
  <2>1. UNCHANGED <<rows, ran, requests>>
    BY <1>6 DEF Aside, Pay, Forget, DeactivatePromo, DeactivateLink, NextDay, middleware
  <2> QED
    BY <1>1, <2>1 DEF KeyInv
<1>7. ASSUME NEW r \in Requests, Lookup(r)
      PROVE  KeyInv'
  <2>1. Takes(r, {"lookup"}, FirstSteps \cup {"idle"}) /\ UNCHANGED <<rows, ran>>
    BY <1>7, Walks DEF Lookup, middleware
  <2> DEFINE k == requests[r].key
  <2>2. CASE Replayed(k)
    <3>1. requests'[r].at = "idle"
      BY <1>2, <1>7, <2>2, EndDoes, NoRequestIsOne DEF Lookup, Answer
    <3> QED
      BY <2>1, <3>1, KeyQuiet DEF Takes, Outside
  <2>3. CASE ~Replayed(k) /\ k \notin disturbed'
    <3>1. k \in Keys /\ k \notin disturbed /\ requests[r].at = "lookup"
      BY <1>1, <2>1, <2>3 DEF Takes, Typed, Where, Belongs
    <3>2. \A q \in Requests : q # r => requests[q].key # k
      BY <3>1, KeyAlone
    <3>3. ran[k] = 0
      BY <2>3, <3>1, <3>2 DEF KeyInv, Replayed
    <3>4. /\ requests'[r] = NoRequest \/ requests'[r].key = k
          /\ requests'[r].at # "store" /\ Others(r)
      BY <2>1 DEF Takes, FirstSteps
    <3> QED
      BY <1>1, <2>1, <3>1, <3>3, <3>4, NoRequestIsOne, SalesAssumption DEF KeyInv, Others
  <2>4. CASE k \in disturbed'
    <3>1. /\ requests'[r] = NoRequest \/ requests'[r].key = k
          /\ Others(r) /\ requests[r].at # "store"
      BY <2>1 DEF Takes
    <3> QED
      BY <1>1, <2>1, <2>4, <3>1, NoRequestIsOne, SalesAssumption DEF KeyInv, Others
  <2> QED
    BY <2>2, <2>3, <2>4
<1>8. ASSUME NEW r \in Requests, Store(r)
      PROVE  KeyInv'
  <2> DEFINE k == requests[r].key
  <2>1. Takes(r, {"store"}, {"idle"}) /\ UNCHANGED ran
    BY <1>8, Walks DEF Store
  <2>2. k \in Keys /\ requests'[r].at = "idle" /\ Others(r)
    BY <2>1 DEF Takes, Typed, Where, Belongs
  <2>3. /\ rows[k] # "expired" => rows'[k] = "stored"
        /\ \A j \in Keys : j # k => rows'[j] = rows[j]
    BY <1>2, <1>8, <2>2 DEF Store
  <2> QED
    BY <1>1, <2>1, <2>2, <2>3 DEF KeyInv, Others, Outside
<1>9. ASSUME NEW r \in Requests, Drop(r)
      PROVE  KeyInv'
  <2>1. Takes(r, Steps \ {"idle"}, {"idle"}) /\ UNCHANGED <<rows, ran>>
    BY <1>9, Walks DEF Drop, middleware
  <2>2. requests[r].key \in Keys => requests[r].key \in disturbed'
    BY <1>9, KeyWorks DEF Drop, Works
  <2>3. Others(r) /\ requests'[r].at = "idle"
    BY <2>1 DEF Takes
  <2> QED
    BY <1>1, <2>1, <2>2, <2>3 DEF KeyInv, Others, Outside
<1>10. ASSUME NEW r \in Requests, Succeed(r), requests[r].at \notin Outside
       PROVE  KeyInv'
  <2>1. /\ Others(r) /\ UNCHANGED rows
        /\ \/ /\ requests[r].key \in Keys /\ ran' = [ran EXCEPT ![requests[r].key] = ran[requests[r].key] + 1]
              /\ requests'[r].at = "store" /\ requests'[r].key = requests[r].key
           \/ requests[r].key \notin Keys /\ UNCHANGED ran /\ requests'[r] = NoRequest
    BY <1>2, <1>10, SucceedDoes
  <2>2. /\ \A j \in Keys : j # requests[r].key => ran'[j] = ran[j]
        /\ requests[r].key \in Keys => ran'[requests[r].key] = ran[requests[r].key] + 1
    BY <1>2, <2>1
  <2> QED
    BY <1>10, <2>1, <2>2, KeyRuns
<1>11. ASSUME NEW r \in Requests, CountFails(r)
       PROVE  KeyInv'
  <2>1. Takes(r, {"count"}, {"idle", "store"}) /\ UNCHANGED rows
    BY <1>11, Walks DEF CountFails
  <2>2. /\ \A j \in Keys : j # requests[r].key => ran'[j] = ran[j]
        /\ requests[r].key \in Keys => ran'[requests[r].key] = ran[requests[r].key] + 1
    BY <1>11 DEF CountFails
  <2>3. IF requests[r].key \in Keys THEN requests'[r] # NoRequest ELSE requests'[r] = NoRequest
    <3> DEFINE q == [requests[r] EXCEPT !.at = "store"]
    <3>1. q # NoRequest
      <4>1. q.at = "store"
        BY <1>2 DEF Request
      <4> QED
        BY <4>1, NoRequestIsOne
    <3>2. requests' = [requests EXCEPT ![r] = IF requests[r].key \in Keys THEN q ELSE NoRequest]
      BY <1>11 DEF CountFails
    <3> HIDE DEF q
    <3> QED
      BY <1>2, <3>1, <3>2
  <2>4. Others(r) /\ requests[r].at \notin Outside
    BY <2>1 DEF Takes, Outside
  <2>5. requests[r].key \in Keys => requests'[r].at = "store" /\ requests'[r].key = requests[r].key
    BY <2>1, <2>3 DEF Takes
  <2> QED
    BY <2>1, <2>2, <2>3, <2>4, <2>5, KeyRuns
<1>12. ASSUME NEW r \in Requests, NEW from, NEW to, Takes(r, from, to), UNCHANGED <<rows, ran>>,
              from \cap Outside = {}
       PROVE  KeyInv'
  <2>1. /\ Others(r) /\ requests[r].at \notin Outside
        /\ requests'[r] = NoRequest \/ requests'[r].key = requests[r].key
    BY <1>12 DEF Takes
  <2> QED
    BY <1>12, <2>1, KeyQuiet, NoRequestIsOne, SalesAssumption DEF Outside
<1>13. ASSUME NEW r \in Requests, Find(r) \/ CountUse(r) \/ Switch(r) \/ BookRefund(r) \/ Initiate(r)
       PROVE  KeyInv'
  <2>1. Succeed(r) \/ UNCHANGED <<rows, ran>>
    BY <1>13 DEF Find, CountUse, Switch, BookRefund, Initiate, Proceed, Refuse, middleware
  <2>2. \E from, to : Takes(r, from, to) /\ from \cap Outside = {}
    BY <1>13, Walks DEF Outside
  <2>3. requests[r].at \notin Outside
    BY <2>2 DEF Takes
  <2> QED
    BY <1>10, <1>12, <2>1, <2>2, <2>3
<1>14. ASSUME NEW r \in Requests,
              \/ Validate(r) \/ Create(r) \/ ReadPlan(r) \/ Book(r) \/ Refund(r) \/ RefundUnknown(r)
              \/ ReadLink(r) \/ Seen(r) \/ Mark(r) \/ Use(r) \/ Charge(r) \/ Skip(r)
       PROVE  KeyInv'
  <2>1. UNCHANGED <<rows, ran>>
    BY <1>14 DEF Validate, Create, ReadPlan, Book, Refund, RefundUnknown, ReadLink, Seen, Mark, Use,
       Charge, Skip, Proceed, Refuse, middleware
  <2>2. \E from, to : Takes(r, from, to) /\ from \cap Outside = {}
    BY <1>14, Walks DEF Outside
  <2> QED
    BY <1>12, <2>1, <2>2
<1> QED
  BY <1>3, <1>4, <1>5, <1>6, <1>7, <1>8, <1>9, <1>11, <1>13, <1>14, NextIs DEF Step

(* Under an idempotency key a handler succeeds once, and its answer is     *)
(* kept (internal/api/middleware/idempotency.go:65), unless two requests   *)
(* with the key overlapped, one was cut off, or a day passed.              *)
THEOREM KeysAreHonoured == Spec => []RunsOncePerKey
<1>1. Init => KeyInv
  BY NoRequestIsOne DEF Init, KeyInv, Outside
<1>2. Typed /\ Alone /\ KeyInv /\ [Next]_vars => KeyInv'
  BY KeyStep DEF vars, KeyInv
<1>3. Typed /\ KeyInv => RunsOncePerKey
  BY DEF Typed, TypeOK, KeyInv, RunsOncePerKey, At
<1> QED
  BY TypedAlways, AloneAlways, <1>1, <1>2, <1>3, PTL DEF Spec

-----------------------------------------------------------------------------
(* Refunds under a key.  Until a payment's refund is in the ledger, what   *)
(* moved under a key whose refund was not yet issued is in the hands of a  *)
(* request; afterwards no refund is issued any more.                       *)

(* The requests with a key ask what it was first sent with. *)
Asks == \A r \in Requests : requests[r].key \in Keys => requests[r].task = asked[requests[r].key]

Paying(k) == \E r \in Requests : requests[r].key = k /\ requests[r].at = "book_refund"

Moved(k) ==
  /\ asked[k] = NoTask => ran[k] = 0
  /\ asked[k].do # "refund" => refunds[k] = 0
  /\ ~Booked("refund", Nothing) /\ ran[k] = 0 => refunds[k] = IF Paying(k) THEN 1 ELSE 0
  /\ asked[k].do = "refund" /\ ran[k] # 0 => refunds[k] = 1

MoneyInv == Asks /\ \A k \in Keys \ disturbed : Moved(k)

(* A request with a key is busy with a task.                               *)
LEMMA KeyedTask ==
  ASSUME Typed, NEW r \in Requests, requests[r].key \in Keys
  PROVE  requests[r].at # "idle" /\ requests[r].task \in Task
BY NoRequestIsOne, SalesAssumption, TypeParts DEF Typed, Where, Belongs, Request, Steps

(* A step of r that issues no refund and moves no money.                   *)
LEMMA MoneyQuiet ==
  ASSUME Typed, MoneyInv, Next, UNCHANGED <<refunds, asked>>,
         Booked("refund", Nothing) => Booked("refund", Nothing)',
         NEW r \in Requests, Others(r),
         \/ requests'[r] = NoRequest
         \/ requests'[r].task = requests[r].task /\ requests'[r].key = requests[r].key,
         requests'[r].at # "book_refund",
         requests[r].at = "book_refund" /\ requests[r].key \in Keys =>
           requests[r].key \in disturbed' \/ Booked("refund", Nothing)',
         \A k \in Keys : ran'[k] # ran[k] =>
           k = requests[r].key /\ requests[r].task.do # "refund"
  PROVE  MoneyInv'
<1>1. disturbed \subseteq disturbed'
  BY Disturbs
<1>2. Asks'
  BY NoRequestIsOne, SalesAssumption DEF MoneyInv, Asks, Others
<1>3. ASSUME NEW k \in Keys \ disturbed'
      PROVE  Moved(k)'
  <2>1. Moved(k) /\ k \in Keys \ disturbed
    BY <1>1 DEF MoneyInv
  <2>2. CASE ran'[k] # ran[k]
    <3>1. requests[r].key = k /\ requests[r].task = asked[k] /\ requests[r].task \in Task
          /\ asked[k].do # "refund"
      BY <2>1, <2>2, KeyedTask DEF MoneyInv, Asks
    <3>2. asked[k] # NoTask
      BY <3>1, Tasks
    <3>3. \A q \in Requests : requests'[q].key = k => requests'[q].at # "book_refund"
      <4> SUFFICES ASSUME NEW q \in Requests, requests'[q].key = k, requests'[q].at = "book_refund"
                   PROVE  FALSE
        OBVIOUS
      <4>1. q # r /\ requests[q].key = k /\ requests[q].at = "book_refund"
        BY DEF Others
      <4>2. requests[q].task = asked[k]
        BY <2>1, <4>1 DEF MoneyInv, Asks
      <4> QED
        BY <3>1, <4>1, <4>2 DEF Typed, Where, Belongs
    <3> QED
      BY <2>1, <3>1, <3>2, <3>3 DEF Moved, Paying
  <2>3. CASE ran'[k] = ran[k]
    <3>1. Booked("refund", Nothing)' \/ (Paying(k)' <=> Paying(k))
      BY <2>1 DEF Paying, Others
    <3> QED
      BY <2>1, <2>3, <3>1 DEF Moved
  <2> QED
    BY <2>2, <2>3
<1> QED
  BY <1>2, <1>3 DEF MoneyInv

LEMMA MoneyComes ==
  ASSUME Typed, MoneyInv, Next, NEW r \in Requests, Arrives(r)
  PROVE  MoneyInv'
<1>1. disturbed \subseteq disturbed' /\ asked \in [Keys -> Task \cup {NoTask}]
  BY Disturbs DEF Typed, TypeOK
<1>2. UNCHANGED <<ran, refunds>> /\ (Booked("refund", Nothing)' <=> Booked("refund", Nothing))
  BY ArrivalKeeps DEF Booked
<1>3. PICK t \in Task \cup Notice, k \in Keys \cup {NoKey}, at \in FirstSteps \cup {"lookup", "seen"} :
        /\ Comes(r, t, k, at)
        /\ at \in FirstSteps => k = NoKey
        /\ at = "lookup" => /\ t \in Task /\ k \in Keys /\ asked[k] \in {NoTask, t}
                            /\ asked' = [asked EXCEPT ![k] = t]
        /\ at # "lookup" => UNCHANGED asked
        /\ at = "seen" => k = NoKey
  BY ArrivalKeeps
<1>4. /\ Others(r) /\ requests[r].at = "idle" /\ requests'[r].at = at /\ requests'[r].task = t
      /\ requests'[r].key = k /\ at # "book_refund"
  BY <1>3 DEF Comes, FirstSteps
<1>5. \A j \in Keys : Paying(j)' <=> Paying(j)
  BY <1>4 DEF Paying, Others
<1>6. CASE at # "lookup"
  <2>1. UNCHANGED asked /\ k = NoKey
    BY <1>3, <1>6
  <2>2. Asks'
    BY <1>4, <2>1, SalesAssumption DEF MoneyInv, Asks, Others
  <2> QED
    BY <1>1, <1>2, <1>5, <2>1, <2>2 DEF MoneyInv, Moved
<1>7. CASE at = "lookup"
  <2>1. /\ t \in Task /\ k \in Keys /\ asked[k] \in {NoTask, t} /\ t # NoTask
        /\ asked'[k] = t /\ \A j \in Keys : j # k => asked'[j] = asked[j]
    BY <1>1, <1>3, <1>7, Tasks
  <2>2. ASSUME NEW q \in Requests, requests'[q].key \in Keys
        PROVE  requests'[q].task = asked'[requests'[q].key]
    <3>1. CASE q = r
      BY <1>4, <2>1, <3>1
    <3>2. CASE q # r
      <4>1. requests'[q] = requests[q] /\ requests[q].task = asked[requests[q].key]
            /\ requests[q].task \in Task
        BY <1>4, <2>2, <3>2, KeyedTask DEF MoneyInv, Asks, Others
      <4>2. requests[q].key = k => requests[q].task = t
        BY <2>1, <4>1, Tasks
      <4> QED
        BY <2>1, <2>2, <4>1, <4>2
    <3> QED
      BY <3>1, <3>2
  <2>3. ASSUME NEW j \in Keys \ disturbed'
        PROVE  Moved(j)'
    <3>1. Moved(j)
      BY <1>1 DEF MoneyInv
    <3>2. CASE asked'[j] = asked[j]
      BY <1>2, <1>5, <3>1, <3>2 DEF Moved
    <3>3. CASE asked'[j] # asked[j]
      <4>1. j = k /\ asked[j] = NoTask /\ asked'[j] = t
        BY <2>1, <3>3
      <4>2. ran[j] = 0 /\ refunds[j] = 0
        BY <3>1, <4>1, Tasks DEF Moved
      <4> QED
        BY <1>2, <1>5, <2>1, <3>1, <4>1, <4>2 DEF Moved
    <3> QED
      BY <3>2, <3>3
  <2> QED
    BY <2>2, <2>3 DEF MoneyInv, Asks
<1> QED
  BY <1>6, <1>7

(* Nomba pays, and the request goes on or is lost.                         *)
LEMMA MoneyMoves ==
  ASSUME Typed, Alone, KeyInv, MoneyInv, Next, NEW r \in Requests, requests[r].at = "refund",
         RefundMoves(r), UNCHANGED <<asked, ran, ledger>>, Others(r),
         \/ /\ requests'[r].at = "book_refund" /\ requests'[r].task = requests[r].task
            /\ requests'[r].key = requests[r].key
         \/ /\ requests'[r] = NoRequest
            /\ requests[r].key \in Keys => requests[r].key \in disturbed'
  PROVE  MoneyInv'
<1>1. disturbed \subseteq disturbed' /\ (Booked("refund", Nothing)' <=> Booked("refund", Nothing))
  BY Disturbs DEF Booked
<1>2. Asks'
  BY NoRequestIsOne, SalesAssumption DEF MoneyInv, Asks, Others
<1>3. ASSUME NEW k \in Keys \ disturbed'
      PROVE  Moved(k)'
  <2>1. Moved(k) /\ k \in Keys \ disturbed
    BY <1>1 DEF MoneyInv
  <2>2. CASE k # requests[r].key
    <3>1. refunds'[k] = refunds[k]
      BY <2>2, RefundMovesDoes
    <3>2. Paying(k)' <=> Paying(k)
      BY <2>1, <2>2, NoRequestIsOne, SalesAssumption DEF Paying, Others
    <3> QED
      BY <1>1, <2>1, <3>1, <3>2 DEF Moved
  <2>3. CASE k = requests[r].key
    <3>1. /\ requests'[r].at = "book_refund" /\ requests'[r].key = k
          /\ refunds'[k] = refunds[k] + 1
      BY <2>3, RefundMovesDoes
    <3>2. ran[k] = 0
      BY <2>1, <2>3 DEF KeyInv, Outside
    <3>3. asked[k].do = "refund"
      BY <2>1, <2>3 DEF MoneyInv, Asks, Typed, Where, Belongs
    <3>4. ~Paying(k) /\ Paying(k)'
      BY <2>1, <2>3, <3>1, KeyAlone DEF Paying
    <3> QED
      BY <1>1, <2>1, <3>1, <3>2, <3>3, <3>4, Tasks DEF Moved
  <2> QED
    BY <2>2, <2>3
<1> QED
  BY <1>2, <1>3 DEF MoneyInv

(* The first refund of the payment is booked and answered.                 *)
LEMMA MoneyBooked ==
  ASSUME Typed, Alone, MoneyInv, KeyInv, Next, NEW r \in Requests, requests[r].at = "book_refund",
         ~Booked("refund", Nothing), Booked("refund", Nothing)', UNCHANGED <<asked, refunds>>, Succeed(r)
  PROVE  MoneyInv'
<1>1. disturbed \subseteq disturbed' /\ requests \in [Requests -> Request] /\ ran \in [Keys -> Nat]
  BY Disturbs, TypeParts DEF Typed, TypeOK
<1>2. /\ Others(r)
      /\ \/ /\ requests[r].key \in Keys
            /\ ran' = [ran EXCEPT ![requests[r].key] = ran[requests[r].key] + 1]
            /\ requests'[r].task = requests[r].task /\ requests'[r].key = requests[r].key
         \/ requests[r].key \notin Keys /\ UNCHANGED ran /\ requests'[r] = NoRequest
  BY <1>1, SucceedDoes
<1>3. Asks'
  BY <1>2, NoRequestIsOne, SalesAssumption DEF MoneyInv, Asks, Others
<1>4. ASSUME NEW k \in Keys \ disturbed'
      PROVE  Moved(k)'
  <2>1. Moved(k) /\ k \in Keys \ disturbed
    BY <1>1 DEF MoneyInv
  <2>2. CASE k # requests[r].key
    <3>1. ran'[k] = ran[k]
      BY <1>1, <1>2, <2>2
    <3> QED
      BY <2>1, <3>1 DEF Moved
  <2>3. CASE k = requests[r].key
    <3>1. ran[k] = 0 /\ Paying(k)
      BY <2>1, <2>3 DEF KeyInv, Outside, Paying
    <3>2. asked[k].do = "refund" /\ asked[k] # NoTask
      BY <2>1, <2>3, Tasks DEF MoneyInv, Asks, Typed, Where, Belongs
    <3>3. refunds[k] = 1
      BY <2>1, <3>1 DEF Moved
    <3> QED
      BY <3>2, <3>3 DEF Moved
  <2> QED
    BY <2>2, <2>3
<1> QED
  BY <1>3, <1>4 DEF MoneyInv

LEMMA MoneyStep ==
  ASSUME Typed, Alone, KeyInv, MoneyInv, Next
  PROVE  MoneyInv'
<1>1. disturbed \subseteq disturbed' /\ requests \in [Requests -> Request] /\ ran \in [Keys -> Nat]
  BY Disturbs, TypeParts DEF Typed, TypeOK
<1>2. ASSUME \/ UNCHANGED ledger
             \/ \E kind, on, amount : AppendEntry(kind, on, amount)
      PROVE  Booked("refund", Nothing) => Booked("refund", Nothing)'
  BY <1>2 DEF Booked, AppendEntry
<1>3. CASE Aside
  <2>1. UNCHANGED <<asked, ran, refunds, ledger, requests>>
    BY <1>3 DEF Aside, Expire, Pay, Forget, DeleteExpired, DeactivatePromo, DeactivateLink, NextDay,
       middleware
  <2>2. Asks' /\ \A k \in Keys \ disturbed : Moved(k)'
    BY <2>1 DEF MoneyInv, Asks, Moved, Paying, Booked
  <2> QED
    BY <1>1, <2>2 DEF MoneyInv
<1>4. ASSUME NEW r \in Requests, Refund(r)
      PROVE  MoneyInv'
  <2>1. Takes(r, {"refund"}, {"idle", "book_refund"}) /\ UNCHANGED <<asked, ran, ledger>>
    BY <1>4, Walks DEF Refund, Proceed, Refuse, middleware
  <2>2. requests[r].at = "refund" /\ Others(r)
    BY <2>1 DEF Takes
  <2>3. CASE RefundMoves(r) /\ Proceed(r, "book_refund")
    <3>1. "book_refund" \in Steps
      BY DEF Steps
    <3>2. /\ requests'[r].at = "book_refund" /\ requests'[r].task = requests[r].task
          /\ requests'[r].key = requests[r].key
      BY <1>1, <2>3, <3>1, GotoDoes DEF Proceed
    <3> QED
      BY <2>1, <2>2, <2>3, <3>2, MoneyMoves
  <2>4. CASE Refuse(r) /\ UNCHANGED refunds
    <3>1. requests'[r] = NoRequest
      BY <1>1, <2>4, EndDoes DEF Refuse, Answer
    <3> QED
      BY <1>2, <2>1, <2>2, <2>4, <3>1, MoneyQuiet, NoRequestIsOne
  <2> QED
    BY <1>4, <2>3, <2>4 DEF Refund
<1>5. ASSUME NEW r \in Requests, RefundUnknown(r)
      PROVE  MoneyInv'
  <2>1. /\ Takes(r, {"refund"}, {"idle"}) /\ UNCHANGED <<asked, ran, ledger>> /\ RefundMoves(r)
        /\ requests' = [requests EXCEPT ![r] = NoRequest]
    BY <1>5, Walks DEF RefundUnknown, middleware
  <2>2. /\ requests[r].at = "refund" /\ Others(r) /\ requests'[r] = NoRequest
        /\ requests[r].key \in Keys => requests[r].key \in disturbed'
    BY <1>1, <1>5, <2>1, EndDoes, KeyWorks DEF Takes, RefundUnknown, Works
  <2> QED
    BY <2>1, <2>2, MoneyMoves
<1>6. ASSUME NEW r \in Requests, BookRefund(r)
      PROVE  MoneyInv'
  <2>1. requests[r].at = "book_refund" /\ UNCHANGED <<asked, refunds>>
    BY <1>6 DEF BookRefund, Stands, Refuse, Succeed, middleware
  <2>2. CASE Booked("refund", Nothing)
    <3>1. Refuse(r) /\ UNCHANGED <<ledger, ran>>
      BY <1>6, <2>2 DEF BookRefund, Refuse, middleware
    <3>2. requests'[r] = NoRequest /\ Others(r)
      BY <1>1, <3>1, EndDoes DEF Refuse, Answer
    <3> QED
      BY <1>2, <2>1, <2>2, <3>1, <3>2, MoneyQuiet, NoRequestIsOne
  <2>3. CASE ~Booked("refund", Nothing)
    <3>1. Succeed(r) /\ Booked("refund", Nothing)'
      BY <1>6, <2>3, Appended DEF BookRefund
    <3> QED
      BY <2>1, <2>3, <3>1, MoneyBooked
  <2> QED
    BY <2>2, <2>3
<1>7. ASSUME NEW r \in Requests, Drop(r)
      PROVE  MoneyInv'
  <2>1. /\ Takes(r, Steps \ {"idle"}, {"idle"}) /\ UNCHANGED <<asked, ran, refunds, ledger>>
        /\ requests' = [requests EXCEPT ![r] = NoRequest]
    BY <1>7, Walks DEF Drop, middleware
  <2>2. /\ Others(r) /\ requests'[r] = NoRequest
        /\ requests[r].key \in Keys => requests[r].key \in disturbed'
    BY <1>1, <1>7, <2>1, EndDoes, KeyWorks DEF Drop, Works
  <2> QED
    BY <1>2, <2>1, <2>2, MoneyQuiet, NoRequestIsOne
<1>8. ASSUME NEW r \in Requests, NEW from, NEW to, Takes(r, from, to),
             "book_refund" \notin from \cup to, UNCHANGED <<asked, refunds>>,
             \/ UNCHANGED ledger
             \/ \E kind, on, amount : AppendEntry(kind, on, amount),
             \A k \in Keys : ran'[k] # ran[k] => k = requests[r].key /\ requests[r].task.do # "refund"
      PROVE  MoneyInv'
  <2>1. /\ Others(r) /\ requests[r].at # "book_refund" /\ requests'[r].at # "book_refund"
        /\ \/ requests'[r] = NoRequest
           \/ requests'[r].task = requests[r].task /\ requests'[r].key = requests[r].key
    BY <1>8 DEF Takes
  <2> QED
    BY <1>2, <1>8, <2>1, MoneyQuiet
<1>9. ASSUME NEW r \in Requests,
             Find(r) \/ CountUse(r) \/ CountFails(r) \/ Switch(r) \/ Initiate(r)
      PROVE  MoneyInv'
  <2>1. UNCHANGED <<asked, refunds, ledger>>
    BY <1>9 DEF Find, CountUse, CountFails, Switch, Initiate, Succeed, Proceed, Refuse, middleware
  <2>2. \E from, to : Takes(r, from, to) /\ "book_refund" \notin from \cup to
    BY <1>9, Walks
  <2>3. requests[r].task.do # "refund"
    BY <1>9 DEF Find, CountUse, CountFails, Switch, Initiate, Stands, Typed, Where, Belongs
  <2>4. ASSUME NEW k \in Keys, ran'[k] # ran[k]
        PROVE  k = requests[r].key
    <3>1. CASE CountFails(r)
      BY <2>4, <3>1 DEF CountFails
    <3>2. CASE Succeed(r)
      BY <1>1, <2>4, <3>2, SucceedDoes
    <3> QED
      BY <1>9, <2>4, <3>1, <3>2 DEF Find, CountUse, Switch, Initiate, Proceed, Refuse, middleware
  <2> QED
    BY <1>8, <2>1, <2>2, <2>3, <2>4
<1>10. ASSUME NEW r \in Requests,
              \/ Lookup(r) \/ Store(r) \/ Validate(r) \/ Create(r) \/ ReadPlan(r) \/ Book(r)
              \/ ReadLink(r) \/ Seen(r) \/ Mark(r) \/ Use(r) \/ Charge(r) \/ Skip(r)
       PROVE  MoneyInv'
  <2>1. /\ UNCHANGED <<asked, ran, refunds>>
        /\ \/ UNCHANGED ledger
           \/ \E kind, on, amount : AppendEntry(kind, on, amount)
    BY <1>10 DEF Lookup, Store, Validate, Create, ReadPlan, Book, ReadLink, Seen, Mark, Use, Charge,
       Skip, Proceed, Refuse, middleware
  <2>2. \E from, to : Takes(r, from, to) /\ "book_refund" \notin from \cup to
    BY <1>10, Walks DEF FirstSteps
  <2> QED
    BY <1>8, <2>1, <2>2
<1> QED
  BY <1>3, <1>4, <1>5, <1>6, <1>7, <1>9, <1>10, MoneyComes, NextIs DEF Step

(* A refund that was answered as issued moved its money once, however      *)
(* often the call is repeated under its key                                *)
(* (internal/api/handlers/refund.go:158 behind                             *)
(* internal/api/middleware/idempotency.go:65), unless two requests with    *)
(* the key overlapped, one was cut off, or a day passed.                   *)
THEOREM IssuedRefundsAreMovedOnce == Spec => []IssuedRefundsMoveOnce
<1>1. Init => KeyInv /\ MoneyInv
  BY NoRequestIsOne, SalesAssumption, Tasks
     DEF Init, KeyInv, Outside, MoneyInv, Asks, Moved, Paying
<1>2. Typed /\ Alone /\ KeyInv /\ MoneyInv /\ [Next]_vars => KeyInv' /\ MoneyInv'
  <2> SUFFICES ASSUME Typed, Alone, KeyInv, MoneyInv, [Next]_vars PROVE KeyInv' /\ MoneyInv'
    OBVIOUS
  <2>1. CASE UNCHANGED vars
    BY <2>1 DEF vars, KeyInv, MoneyInv, Asks, Moved, Paying, Booked
  <2> QED
    BY <2>1, KeyStep, MoneyStep
<1>3. MoneyInv => IssuedRefundsMoveOnce
  BY DEF MoneyInv, Moved, IssuedRefundsMoveOnce
<1> QED
  BY TypedAlways, AloneAlways, <1>1, <1>2, <1>3, PTL DEF Spec

-----------------------------------------------------------------------------
(* Payment links.  A notice is marked, then used, then charged; while the  *)
(* request ids are undisturbed each of them is in one request, so every    *)
(* mark is a use or about to be one, and the orders of the marked ids are  *)
(* charged or about to be.                                                 *)

Charged(o) == Booked("charge", o)
Noticed == {"seen", "mark", "use", "charge"}

(* What the steps of a notice know of their request id. *)
Knows(q) ==
  /\ q.at \in Noticed => about[q.task.on] \in Orders
  /\ q.at = "mark" => q.task.on \notin marked
  /\ q.at \in {"use", "charge"} => q.task.on \in marked

InHand(i) == \E r \in At({"use", "charge"}) : requests[r].task.on = i

Paid(o) == \E i \in marked : about[i] = o /\ ~InHand(i)

LinkSums ==
  /\ Cardinality(marked) = link.uses + Cardinality(At({"use"}))
  /\ \A i \in marked : about[i] \in Orders
  /\ \A o \in Orders : Charged(o) <=> Paid(o)

LinkInv ==
  /\ IsFiniteSet(marked)
  /\ disturbed \cap Ids = {} => LinkSums /\ \A r \in Requests : Knows(requests[r])

LEMMA LinkNumbers ==
  ASSUME Typed, LinkInv
  PROVE  /\ link.uses \in Nat /\ Cardinality(marked) \in Nat /\ Cardinality(At({"use"})) \in Nat
<1>1. link \in [active : BOOLEAN, uses : Nat]
  BY DEF Typed, TypeOK
<1>2. Cardinality(marked) \in Nat
  BY FS_CardinalityType DEF LinkInv
<1>3. {"charge"} \cap {"use"} = {}
  OBVIOUS
<1> QED
  BY <1>1, <1>2, <1>3, AtMostAll

LEMMA LinkWorks ==
  ASSUME Typed, NEW r \in Requests, requests[r].at \in Noticed
  PROVE  requests[r].task.on \in Works(r) /\ requests[r].task.on \in Ids
<1>1. requests[r].task \in Notice
  BY DEF Noticed, Typed, Where, Belongs
<1> QED
  BY <1>1, Tasks DEF Works, WorksOn

(* Two requests with notices of one request id leave it disturbed. *)
LEMMA LinkAlone ==
  ASSUME Typed, Alone, disturbed \cap Ids = {}, NEW q \in Requests, NEW r \in Requests, q # r,
         requests[q].at \in Noticed, requests[r].at \in Noticed
  PROVE  requests[q].task.on # requests[r].task.on
BY LinkWorks DEF Alone

(* No use or charge comes into the hands of a request, or leaves them.     *)
LEMMA HandsKept ==
  ASSUME NEW r \in Requests, Others(r),
         \/ requests[r].at \notin {"use", "charge"} /\ requests'[r].at \notin {"use", "charge"}
         \/ /\ requests[r].at \in {"use", "charge"} /\ requests'[r].at \in {"use", "charge"}
            /\ requests'[r].task = requests[r].task
  PROVE  \A i : InHand(i)' <=> InHand(i)
BY DEF InHand, At, Others

LEMMA PaidKept ==
  ASSUME UNCHANGED marked, \A i \in marked : about'[i] = about[i] /\ (InHand(i)' <=> InHand(i))
  PROVE  \A o : Paid(o)' <=> Paid(o)
BY DEF Paid

(* Nothing of the links is written, and r does not touch the counts.       *)
LEMMA LinkQuiet ==
  ASSUME Typed, LinkInv, Next, UNCHANGED <<about, marked>>, link'.uses = link.uses,
         \A o \in Orders : Charged(o)' <=> Charged(o),
         NEW r \in Requests, Others(r),
         requests[r].at \notin {"use", "charge"}, requests'[r].at \notin {"use", "charge"},
         requests'[r].at \in Noticed => requests[r].at \in Noticed /\ requests'[r].task = requests[r].task,
         requests'[r].at = "mark" => requests'[r].task.on \notin marked
  PROVE  LinkInv'
<1>1. disturbed \subseteq disturbed'
  BY Disturbs
<1>2. Cardinality(At({"use"}))' = Cardinality(At({"use"}))
  BY Counted
<1>3. \A o : Paid(o)' <=> Paid(o)
  BY HandsKept, PaidKept
<1>4. LinkSums => LinkSums'
  BY <1>2, <1>3 DEF LinkSums
<1>5. (\A q \in Requests : Knows(requests[q])) => (\A q \in Requests : Knows(requests[q]))'
  BY DEF Knows, Others
<1> QED
  BY <1>1, <1>4, <1>5 DEF LinkInv

(* A request id is disturbed: nothing more is claimed. *)
LEMMA LinkDisturbed ==
  ASSUME LinkInv, NEW i \in Ids, i \in disturbed', IsFiniteSet(marked')
  PROVE  LinkInv'
BY DEF LinkInv

(* A request arrives, with a notice or without. *)
LEMMA LinkComes ==
  ASSUME Typed, LinkInv, Next, NEW r \in Requests, Arrives(r)
  PROVE  LinkInv'
<1>1. disturbed \subseteq disturbed' /\ about \in [Ids -> Orders \cup {Nothing}] /\ marked \subseteq Ids
  BY Disturbs DEF Typed, TypeOK
<1>2. UNCHANGED <<ledger, link, marked>> /\ Tells
  BY ArrivalKeeps
<1>3. PICK t \in Task \cup Notice, k \in Keys \cup {NoKey}, at \in FirstSteps \cup {"lookup", "seen"} :
        Comes(r, t, k, at) /\ (at = "seen" => about'[t.on] \in Orders)
  BY ArrivalKeeps
<1>4. /\ Others(r) /\ requests[r].at = "idle" /\ requests'[r].at = at /\ requests'[r].task = t
      /\ at \notin {"mark", "use", "charge"}
  BY <1>3 DEF Comes, FirstSteps
<1>5. \A i \in Ids : about[i] \in Orders => about'[i] = about[i]
  BY <1>1, <1>2, SalesAssumption DEF Tells
<1>6. ASSUME LinkSums, \A q \in Requests : Knows(requests[q])
      PROVE  LinkSums' /\ (\A q \in Requests : Knows(requests[q]))'
  <2>1. Cardinality(At({"use"}))' = Cardinality(At({"use"}))
    BY <1>4, Counted
  <2>2. \A i \in marked : about'[i] = about[i]
    BY <1>1, <1>5, <1>6 DEF LinkSums
  <2>3. \A o : Paid(o)' <=> Paid(o)
    BY <1>2, <1>4, <2>2, HandsKept, PaidKept
  <2>4. LinkSums'
    BY <1>2, <1>6, <2>1, <2>2, <2>3 DEF LinkSums, Charged, Booked
  <2>5. Knows(requests[r])'
    BY <1>3, <1>4 DEF Knows, Noticed, FirstSteps
  <2>6. ASSUME NEW q \in Requests, q # r
        PROVE  Knows(requests[q])'
    <3>1. requests'[q] = requests[q] /\ Knows(requests[q])
      BY <1>4, <1>6, <2>6 DEF Others
    <3>2. requests[q].at \in Noticed => requests[q].task.on \in Ids
      BY LinkWorks
    <3> QED
      BY <1>2, <1>5, <3>1, <3>2 DEF Knows
  <2> QED
    BY <2>4, <2>5, <2>6
<1> QED
  BY <1>1, <1>2, <1>6 DEF LinkInv

LEMMA LinkStep ==
  ASSUME Typed, Alone, LinkInv, Next
  PROVE  LinkInv'
<1>1. disturbed \subseteq disturbed'
  BY Disturbs
<1>2. /\ requests \in [Requests -> Request] /\ link \in [active : BOOLEAN, uses : Nat]
  BY TypeParts DEF Typed, TypeOK
<1>3. UNCHANGED ledger => \A o \in Orders : Charged(o)' <=> Charged(o)
  BY DEF Charged, Booked
<1>4. CASE \E i \in Ids : Forget(i)
  <2>1. PICK i \in Ids : Forget(i)
    BY <1>4
  <2>2. i \in disturbed' /\ marked' = marked \ {i}
    BY <2>1 DEF Forget
  <2>3. IsFiniteSet(marked')
    BY <2>2, FS_Subset DEF LinkInv
  <2> QED
    BY <2>2, <2>3, LinkDisturbed
<1>5. CASE Aside /\ ~\E i \in Ids : Forget(i)
  <2>1. UNCHANGED <<requests, ledger, about, marked>> /\ link'.uses = link.uses
    BY <1>2, <1>5 DEF Aside, Expire, Pay, DeleteExpired, DeactivatePromo, DeactivateLink,
       Deactivated, NextDay, links
  <2>2. At({"use"})' = At({"use"}) /\ \A o : Paid(o)' <=> Paid(o)
    BY <2>1 DEF At, Paid, InHand
  <2>3. LinkSums => LinkSums'
    BY <1>3, <2>1, <2>2 DEF LinkSums
  <2>4. (\A q \in Requests : Knows(requests[q])) => (\A q \in Requests : Knows(requests[q]))'
    BY <2>1 DEF Knows
  <2> QED
    BY <1>1, <2>1, <2>3, <2>4 DEF LinkInv
<1>6. ASSUME NEW r \in Requests, Seen(r)
      PROVE  LinkInv'
  <2>1. Takes(r, {"seen"}, {"idle", "mark"}) /\ UNCHANGED <<ledger, link, about, marked>>
    BY <1>6, Walks DEF Seen, links
  <2>2. requests'[r].at = "mark" => requests'[r].task.on \notin marked
    <3>1. CASE requests[r].task.on \in marked
      BY <1>2, <1>6, <3>1, EndDoes, NoRequestIsOne DEF Seen, Answer
    <3>2. CASE requests[r].task.on \notin marked
      BY <2>1, <3>2, NoRequestIsOne DEF Takes
    <3> QED
      BY <3>1, <3>2
  <2>3. /\ Others(r) /\ requests[r].at = "seen" /\ requests'[r].at \notin {"use", "charge"}
        /\ requests'[r].at \in Noticed => requests'[r].task = requests[r].task
    BY <2>1, NoRequestIsOne DEF Takes, Noticed
  <2> QED
    BY <1>3, <2>1, <2>2, <2>3, LinkQuiet DEF Noticed
<1>7. ASSUME NEW r \in Requests, Mark(r)
      PROVE  LinkInv'
  <2>0. PICK i : i = requests[r].task.on
    OBVIOUS
  <2>1. /\ Takes(r, {"mark"}, {"use"}) /\ UNCHANGED <<ledger, link, about, disturbed>>
        /\ marked' = marked \cup {i}
    BY <1>7, <2>0, Walks DEF Mark, Goto
  <2>2. requests[r].at = "mark" /\ requests'[r].at = "use" /\ requests'[r].task.on = i /\ Others(r)
    BY <2>0, <2>1, NoRequestIsOne DEF Takes
  <2>3. IsFiniteSet(marked') /\ (i \notin marked => Cardinality(marked') = Cardinality(marked) + 1)
    BY <2>1, FS_AddElement DEF LinkInv
  <2>4. ASSUME disturbed \cap Ids = {}
        PROVE  LinkSums' /\ (\A q \in Requests : Knows(requests[q]))'
    <3>1. LinkSums /\ \A q \in Requests : Knows(requests[q])
      BY <2>4 DEF LinkInv
    <3>2. i \notin marked /\ about[i] \in Orders
      BY <2>0, <2>2, <3>1 DEF Knows, Noticed
    <3>3. Cardinality(At({"use"}))' = Cardinality(At({"use"})) + 1
      BY <2>2, Counted
    <3>4. ASSUME NEW o
          PROVE  Paid(o)' <=> Paid(o)
      <4>1. InHand(i)'
        BY <2>2 DEF InHand, At
      <4>2. \A j : j # i => (InHand(j)' <=> InHand(j))
        BY <2>2 DEF InHand, At, Others
      <4> QED
        BY <2>1, <3>2, <4>1, <4>2 DEF Paid
    <3>5. LinkSums'
      BY <1>3, <2>1, <2>3, <3>1, <3>2, <3>3, <3>4, LinkNumbers DEF LinkSums
    <3>6. Knows(requests[r])'
      BY <2>1, <2>2, <3>2 DEF Knows
    <3>7. ASSUME NEW q \in Requests, q # r
          PROVE  Knows(requests[q])'
      <4>1. requests'[q] = requests[q] /\ Knows(requests[q])
        BY <2>2, <3>1, <3>7 DEF Others
      <4>2. requests[q].at \in Noticed => requests[q].task.on # i
        BY <2>0, <2>2, <2>4, <3>7, LinkAlone DEF Noticed
      <4> QED
        BY <2>1, <4>1, <4>2 DEF Knows, Noticed
    <3> QED
      BY <3>5, <3>6, <3>7
  <2> QED
    BY <2>1, <2>3, <2>4 DEF LinkInv
<1>8. ASSUME NEW r \in Requests, Use(r)
      PROVE  LinkInv'
  <2>1. Takes(r, {"use"}, {"charge"}) /\ UNCHANGED <<ledger, about, marked, disturbed>>
    BY <1>8, Walks DEF Use, Goto
  <2>2. /\ requests[r].at = "use" /\ requests'[r].at = "charge"
        /\ requests'[r].task = requests[r].task /\ Others(r)
    BY <2>1, NoRequestIsOne DEF Takes
  <2>3. link'.uses = link.uses + 1
    BY <1>2, <1>8 DEF Use
  <2>4. Cardinality(At({"use"}))' = Cardinality(At({"use"})) - 1
    BY <2>2, Counted
  <2>5. \A o : Paid(o)' <=> Paid(o)
    BY <2>1, <2>2, HandsKept, PaidKept
  <2>6. LinkSums => LinkSums'
    BY <1>3, <2>1, <2>3, <2>4, <2>5, LinkNumbers DEF LinkSums
  <2>7. (\A q \in Requests : Knows(requests[q])) => (\A q \in Requests : Knows(requests[q]))'
    BY <2>1, <2>2 DEF Knows, Noticed, Others
  <2> QED
    BY <2>1, <2>6, <2>7 DEF LinkInv
<1>9. ASSUME NEW r \in Requests, Charge(r)
      PROVE  LinkInv'
  <2>0. PICK i : i = requests[r].task.on
    OBVIOUS
  <2>1. Takes(r, {"charge"}, {"idle"}) /\ UNCHANGED <<link, about, marked, disturbed>>
    BY <1>9, Walks DEF Charge, Answer, links
  <2>2. requests[r].at = "charge" /\ requests'[r].at = "idle" /\ Others(r)
    BY <2>1 DEF Takes
  <2>3. Charged(about[i])' /\ \A o : o # about[i] => (Charged(o)' <=> Charged(o))
    <3>1. CASE Booked("charge", about[i])
      BY <1>9, <2>0, <2>1, <3>1 DEF Charge, Charged, Booked
    <3>2. CASE ~Booked("charge", about[i])
      <4>1. AppendEntry("charge", about[i], 0)
        BY <1>9, <2>0, <3>2 DEF Charge
      <4>2. PICK e : e.kind = "charge" /\ e.on = about[i] /\ ledger' = ledger \cup {e}
        BY <4>1, Appended
      <4> QED
        BY <2>1, <4>2 DEF Charged, Booked
    <3> QED
      BY <3>1, <3>2
  <2>4. ASSUME disturbed \cap Ids = {}
        PROVE  LinkSums' /\ (\A q \in Requests : Knows(requests[q]))'
    <3>1. LinkSums /\ \A q \in Requests : Knows(requests[q])
      BY <2>4 DEF LinkInv
    <3>2. i \in marked /\ about[i] \in Orders
      BY <2>0, <2>2, <3>1 DEF Knows, Noticed
    <3>3. Cardinality(At({"use"}))' = Cardinality(At({"use"}))
      BY <2>2, Counted
    <3>4. ~InHand(i)' /\ \A j : j # i => (InHand(j)' <=> InHand(j))
      <4>1. \A q \in Requests : q # r /\ requests[q].at \in {"use", "charge"} => requests[q].task.on # i
        BY <2>0, <2>2, <2>4, LinkAlone DEF Noticed
      <4> QED
        BY <2>0, <2>2, <4>1 DEF InHand, At, Others
    <3>5. Paid(about[i])' /\ \A o : o # about[i] => (Paid(o)' <=> Paid(o))
      BY <2>1, <3>2, <3>4 DEF Paid
    <3>6. LinkSums'
      BY <2>1, <2>3, <3>1, <3>2, <3>3, <3>5 DEF LinkSums
    <3>7. \A q \in Requests : Knows(requests[q])'
      BY <2>1, <2>2, <3>1 DEF Knows, Noticed, Others
    <3> QED
      BY <3>6, <3>7
  <2> QED
    BY <2>1, <2>4 DEF LinkInv
<1>10. ASSUME NEW r \in Requests, Skip(r)
       PROVE  LinkInv'
  <2>1. requests[r].at \in Noticed /\ requests[r].task.on \in disturbed' /\ UNCHANGED marked
    BY <1>10 DEF Skip, Noticed, links
  <2> QED
    BY <2>1, LinkWorks, LinkDisturbed DEF LinkInv
<1>11. ASSUME NEW r \in Requests, Drop(r)
       PROVE  LinkInv'
  <2>1. Takes(r, Steps \ {"idle"}, {"idle"}) /\ UNCHANGED <<ledger, link, about, marked>>
    BY <1>11, Walks DEF Drop, links
  <2>2. CASE requests[r].at \in Noticed
    <3>1. requests[r].task.on \in disturbed' /\ requests[r].task.on \in Ids
      BY <1>11, <2>2, LinkWorks DEF Drop, Works
    <3> QED
      BY <2>1, <3>1, LinkDisturbed DEF LinkInv
  <2>3. CASE requests[r].at \notin Noticed
    BY <1>3, <2>1, <2>3, LinkQuiet DEF Takes, Noticed
  <2> QED
    BY <2>2, <2>3
<1>12. ASSUME NEW r \in Requests, Book(r) \/ BookRefund(r)
       PROVE  LinkInv'
  <2>1. UNCHANGED <<link, about, marked>>
    BY <1>12 DEF Book, BookRefund, links
  <2>2. \/ UNCHANGED ledger
        \/ \E kind, on, amount : kind # "charge" /\ AppendEntry(kind, on, amount)
    BY <1>12 DEF Book, BookRefund, Entry
  <2>3. \A o \in Orders : Charged(o)' <=> Charged(o)
    BY <2>2 DEF Charged, Booked, AppendEntry
  <2>4. /\ Others(r) /\ requests[r].at \notin {"use", "charge"}
        /\ requests'[r].at \notin Noticed
    BY <1>12, Walks DEF Takes, Noticed
  <2> QED
    BY <2>1, <2>3, <2>4, LinkQuiet DEF Noticed
<1>13. ASSUME NEW r \in Requests,
              \/ Lookup(r) \/ Store(r) \/ Validate(r) \/ Find(r) \/ Create(r)
              \/ CountUse(r) \/ CountFails(r) \/ ReadPlan(r) \/ Switch(r)
              \/ Refund(r) \/ RefundUnknown(r) \/ ReadLink(r) \/ Initiate(r)
       PROVE  LinkInv'
  <2>1. UNCHANGED <<ledger, link, about, marked>>
    BY <1>13 DEF Lookup, Store, Validate, Find, Create, CountUse, CountFails, ReadPlan, Switch,
       Refund, RefundUnknown, ReadLink, Initiate, links
  <2>2. /\ Others(r) /\ requests[r].at \notin {"use", "charge"}
        /\ requests'[r].at \notin Noticed
    BY <1>13, Walks DEF Takes, FirstSteps, Noticed
  <2> QED
    BY <1>3, <2>1, <2>2, LinkQuiet DEF Noticed
<1> QED
  BY <1>4, <1>5, <1>6, <1>7, <1>8, <1>9, <1>10, <1>11, <1>12, <1>13, LinkComes, NextIs DEF Step

(* A payment link has one use for each request id that is marked, but for  *)
(* those about to be used, and its ledger has a charge for the orders of   *)
(* these ids and for no other                                              *)
(* (internal/api/handlers/nomba_webhook.go, handlePaymentLinkSuccess),     *)
(* while no two notices of an id overlapped, none failed halfway and none  *)
(* came a day late.                                                        *)
THEOREM LinkUsesAreKept == Spec => []LinkUsesAreCharged
<1>1. Init => LinkInv
  <2> SUFFICES ASSUME Init PROVE LinkInv
    OBVIOUS
  <2>1. link.uses = 0 /\ marked = {} /\ ledger = {}
    BY DEF Init, NewLink
  <2>2. \A r \in Requests : requests[r].at = "idle"
    BY NoRequestIsOne DEF Init
  <2>3. Cardinality(At({"use"})) = 0
    BY <2>2, AtNone
  <2>4. IsFiniteSet(marked) /\ Cardinality(marked) = 0
    BY <2>1, FS_EmptySet
  <2> QED
    BY <2>1, <2>2, <2>3, <2>4 DEF LinkInv, LinkSums, Knows, Noticed, Charged, Booked, Paid
<1>2. Typed /\ Alone /\ LinkInv /\ [Next]_vars => LinkInv'
  <2> SUFFICES ASSUME Typed, Alone, LinkInv, [Next]_vars PROVE LinkInv'
    OBVIOUS
  <2>1. CASE UNCHANGED vars
    BY <2>1 DEF vars, LinkInv, LinkSums, Knows, Charged, Booked, Paid, InHand, At
  <2> QED
    BY <2>1, LinkStep
<1>3. LinkInv => LinkUsesAreCharged
  BY DEF LinkInv, LinkSums, Charged, Paid, InHand, LinkUsesAreCharged
<1> QED
  BY TypedAlways, AloneAlways, <1>1, <1>2, <1>3, PTL DEF Spec

-----------------------------------------------------------------------------
(* Plan changes.  What is booked and not yet switched is the difference    *)
(* between the entries and what the changes cost.                          *)

Prorated == {e \in ledger : e.kind \in {"proration", "credit"}}

PlanInv ==
  /\ IsFiniteSet(ledger)
  /\ "subscription" \notin disturbed =>
       /\ At({"switch"}) = {} => owed = Total(Prorated)
       /\ \A r \in At({"switch"}) : requests[r].plan = plan /\ owed + Net(r) = Total(Prorated)
       /\ \A r \in At({"book"}) : requests[r].plan = plan

(* Who changes the plan is alone.                                          *)
LEMMA PlanAlone ==
  ASSUME Typed, Alone, "subscription" \notin disturbed, NEW r \in Requests,
         requests[r].at \in {"read_plan", "book", "switch"}
  PROVE  \A q \in Requests : q # r => requests[q].at \notin {"read_plan", "book", "switch"}
<1>1. ASSUME NEW q \in Requests, requests[q].at \in {"read_plan", "book", "switch"}
      PROVE  "subscription" \in Works(q)
  <2>1. requests[q].task.do = "change"
    BY <1>1 DEF Typed, Where, Belongs
  <2> QED
    BY <2>1 DEF Works, WorksOn
<1> QED
  BY <1>1 DEF Alone

(* A step that neither reads, books nor switches a plan.                   *)
LEMMA PlanQuiet ==
  ASSUME Typed, PlanInv, disturbed \subseteq disturbed', UNCHANGED <<plan, owed>>,
         IsFiniteSet(ledger'), Prorated' = Prorated, NEW r \in Requests, Others(r),
         requests'[r].at \notin {"book", "switch"},
         requests[r].at = "switch" => "subscription" \in disturbed'
  PROVE  PlanInv'
<1> SUFFICES ASSUME "subscription" \notin disturbed'
             PROVE  /\ At({"switch"})' = {} => owed' = Total(Prorated)'
                    /\ \A q \in At({"switch"})' :
                         requests'[q].plan = plan' /\ owed' + Net(q)' = Total(Prorated)'
                    /\ \A q \in At({"book"})' : requests'[q].plan = plan'
  BY DEF PlanInv
<1>1. "subscription" \notin disturbed /\ requests[r].at # "switch"
  OBVIOUS
<1>2. At({"switch"})' = At({"switch"}) /\ At({"book"})' \subseteq At({"book"}) \ {r}
  BY <1>1 DEF At, Others
<1>3. \A q \in At({"switch"}) \cup (At({"book"}) \ {r}) : requests'[q] = requests[q] /\ Net(q)' = Net(q)
  BY <1>1 DEF At, Others, Net
<1>4. Total(Prorated)' = Total(Prorated)
  OBVIOUS
<1> QED
  BY <1>1, <1>2, <1>3, <1>4 DEF PlanInv

LEMMA ProratedKept ==
  ASSUME IsFiniteSet(ledger),
         \/ UNCHANGED ledger
         \/ \E kind, on, amount : /\ kind \notin {"proration", "credit"}
                                  /\ AppendEntry(kind, on, amount)
  PROVE  IsFiniteSet(ledger') /\ Prorated' = Prorated
<1>1. CASE UNCHANGED ledger
  BY <1>1 DEF Prorated
<1>2. CASE ~ UNCHANGED ledger
  <2>1. PICK kind, on, amount : kind \notin {"proration", "credit"} /\ AppendEntry(kind, on, amount)
    BY <1>2
  <2> DEFINE e == [kind |-> kind, on |-> on, amount |-> amount]
  <2>2. e.kind \notin {"proration", "credit"} /\ ledger' = ledger \cup {e}
    BY <2>1 DEF AppendEntry
  <2> HIDE DEF e
  <2>3. IsFiniteSet(ledger')
    BY <2>2, FS_AddElement
  <2> QED
    BY <2>2, <2>3 DEF Prorated
<1> QED
  BY <1>1, <1>2

LEMMA PlanStep ==
  ASSUME Typed, Alone, PlanInv, Next
  PROVE  PlanInv'
<1>1. disturbed \subseteq disturbed' /\ requests \in [Requests -> Request]
  BY Disturbs, TypeParts DEF Typed
<1>2. IsFiniteSet(ledger)
  BY DEF PlanInv
<1>3. ASSUME NEW r \in Requests, Arrives(r)
      PROVE  PlanInv'
  <2>1. /\ UNCHANGED <<subscription, ledger>>
        /\ \E t, k : \E at \in FirstSteps \cup {"lookup", "seen"} : Comes(r, t, k, at)
    BY <1>3, ArrivalKeeps
  <2>2. Others(r) /\ requests[r].at = "idle" /\ requests'[r].at \notin {"book", "switch"}
    BY <2>1 DEF Comes, FirstSteps
  <2> QED
    BY <1>1, <1>2, <2>1, <2>2, ProratedKept, PlanQuiet DEF subscription
<1>4. CASE Aside
  <2>1. UNCHANGED <<plan, owed, ledger, requests>>
    BY <1>4 DEF Aside, Expire, Pay, Forget, DeleteExpired, DeactivatePromo, DeactivateLink, NextDay,
       subscription, links
  <2>2. \A q \in Requests : Net(q)' = Net(q)
    BY <2>1 DEF Net
  <2>3. At({"switch"})' = At({"switch"}) /\ At({"book"})' = At({"book"}) /\ Prorated' = Prorated
    BY <2>1 DEF At, Prorated
  <2> QED
    BY <1>1, <2>1, <2>2, <2>3 DEF PlanInv, At
<1>5. ASSUME NEW r \in Requests, ReadPlan(r)
      PROVE  PlanInv'
  <2>1. Takes(r, {"read_plan"}, {"idle", "book", "switch"}) /\ UNCHANGED <<plan, owed, ledger>>
    BY <1>5, Walks DEF ReadPlan, subscription
  <2>2. IsFiniteSet(ledger') /\ Prorated' = Prorated /\ Others(r) /\ requests[r].at = "read_plan"
    BY <1>2, <2>1, ProratedKept DEF Takes
  <2>3. CASE requests'[r].at \notin {"book", "switch"}
    BY <1>1, <2>1, <2>2, <2>3, PlanQuiet
  <2>4. CASE requests'[r].at \in {"book", "switch"}
    <3> DEFINE at == IF NetAdjustment(plan, requests[r].task.on, left) = 0 THEN "switch" ELSE "book"
               q == [requests[r] EXCEPT !.plan = plan, !.left = left, !.at = at]
    <3>1. requests' = [requests EXCEPT ![r] = q] /\ UNCHANGED disturbed
      <4>1. CASE requests[r].task.on = plan
        <5>1. Answer(r)
          BY <1>5, <4>1 DEF ReadPlan
        <5>2. requests'[r] = NoRequest
          BY <1>1, <5>1, EndDoes DEF Answer
        <5> QED
          BY <2>4, <5>2, NoRequestIsOne
      <4> QED
        BY <1>5, <4>1 DEF ReadPlan
    <3>2. q.plan = plan /\ q.left = left /\ q.at = at /\ q.task = requests[r].task
      <4> HIDE DEF at
      <4> QED
        BY <1>1 DEF Request
    <3> HIDE DEF q
    <3>3. requests'[r] = q
      BY <1>1, <3>1
    <3>4. Net(r)' = NetAdjustment(plan, requests[r].task.on, left)
      BY <2>1, <3>2, <3>3 DEF Net
    <3> SUFFICES ASSUME "subscription" \notin disturbed
                 PROVE  PlanInv'
      BY <2>2, <3>1 DEF PlanInv
    <3>5. \A p \in Requests : p # r => requests[p].at \notin {"book", "switch"}
      BY <2>2, PlanAlone
    <3>6. At({"switch"}) = {} /\ At({"switch"})' \subseteq {r} /\ At({"book"})' \subseteq {r}
      BY <2>2, <3>5 DEF At, Others
    <3>7. owed = Total(Prorated) /\ owed \in Int
      BY <3>6 DEF PlanInv, Typed, TypeOK
    <3>8. Total(Prorated)' = Total(Prorated)
      BY <2>2
    <3>9. requests'[r].at = "switch" => Net(r)' = 0
      BY <3>2, <3>3, <3>4
    <3> HIDE DEF at
    <3> QED
      BY <2>1, <2>2, <3>2, <3>3, <3>6, <3>7, <3>8, <3>9 DEF PlanInv, At
  <2> QED
    BY <2>3, <2>4
<1>6. ASSUME NEW r \in Requests, Book(r)
      PROVE  PlanInv'
  <2>1. Takes(r, {"book"}, {"idle", "switch"}) /\ UNCHANGED <<plan, owed>>
    BY <1>6, Walks DEF Book, subscription
  <2>2. Others(r) /\ requests[r].at = "book"
    BY <2>1 DEF Takes
  <2>3. CASE Refuse(r) /\ UNCHANGED ledger
    <3>1. requests'[r].at = "idle"
      BY <1>1, <2>3, EndDoes, NoRequestIsOne DEF Refuse, Answer
    <3> QED
      BY <1>1, <1>2, <2>1, <2>2, <2>3, <3>1, ProratedKept, PlanQuiet
  <2>4. CASE /\ Proceed(r, "switch") /\ ~Booked(Entry(r), requests[r].task.on)
             /\ AppendEntry(Entry(r), requests[r].task.on, Net(r))
    <3> DEFINE e == [kind |-> Entry(r), on |-> requests[r].task.on, amount |-> Net(r)]
    <3>1. e.kind \in {"proration", "credit"} /\ e.amount = Net(r) /\ e \notin ledger /\ ledger' = ledger \cup {e}
      BY <2>4 DEF AppendEntry, Booked, Entry
    <3>2. Net(r) \in Int
      BY <2>2, Reads, NetIsInt DEF Net
    <3> HIDE DEF e
    <3>3. IsFiniteSet(Prorated) /\ Prorated' = Prorated \cup {e} /\ e \notin Prorated
      <4>1. Prorated \subseteq ledger
        BY DEF Prorated
      <4> QED
        BY <1>2, <3>1, <4>1, FS_Subset DEF Prorated
    <3>4. Total(Prorated)' = Net(r) + Total(Prorated)
      <4>1. \A x \in Prorated \cup {e} : x.amount \in Int
        BY <3>1, <3>2 DEF Prorated, Typed, TypeOK
      <4>2. Total(Prorated \cup {e}) = e.amount + Total(Prorated)
        BY <3>3, <4>1, TotalWith
      <4> QED
        BY <3>1, <3>3, <4>2
    <3>5. IsFiniteSet(ledger')
      BY <1>2, <3>1, FS_AddElement
    <3> DEFINE q == [requests[r] EXCEPT !.at = "switch"]
    <3>6. requests' = [requests EXCEPT ![r] = q] /\ UNCHANGED disturbed
      BY <2>4 DEF Proceed, Goto
    <3>7. q.plan = requests[r].plan /\ q.left = requests[r].left /\ q.at = "switch" /\ q.task = requests[r].task
      BY <1>1 DEF Request
    <3> HIDE DEF q
    <3>8. requests'[r] = q /\ Net(r)' = Net(r)
      <4>1. requests'[r] = q
        BY <1>1, <3>6
      <4> QED
        BY <3>7, <4>1 DEF Net
    <3> SUFFICES ASSUME "subscription" \notin disturbed
                 PROVE  PlanInv'
      BY <3>5, <3>6 DEF PlanInv
    <3>9. \A p \in Requests : p # r => requests[p].at \notin {"book", "switch"}
      BY <2>2, PlanAlone
    <3>10. At({"switch"}) = {} /\ At({"switch"})' = {r} /\ At({"book"})' = {}
      BY <2>2, <3>7, <3>8, <3>9 DEF At, Others
    <3>11. owed = Total(Prorated) /\ owed \in Int /\ requests[r].plan = plan
      BY <2>2, <3>10 DEF PlanInv, At, Typed, TypeOK
    <3> QED
      BY <2>1, <3>2, <3>4, <3>5, <3>7, <3>8, <3>10, <3>11 DEF PlanInv
  <2> QED
    BY <1>6, <2>3, <2>4 DEF Book
<1>7. ASSUME NEW r \in Requests, Switch(r)
      PROVE  PlanInv'
  <2>1. /\ Takes(r, {"switch"}, {"idle", "store"}) /\ UNCHANGED <<ledger, disturbed>>
        /\ owed' = owed + NetAdjustment(plan, requests[r].task.on, requests[r].left)
    BY <1>1, <1>7, Walks, SucceedDoes DEF Switch
  <2>2. Others(r) /\ requests[r].at = "switch" /\ requests'[r].at \in {"idle", "store"}
    BY <2>1 DEF Takes
  <2>3. IsFiniteSet(ledger') /\ Prorated' = Prorated
    BY <1>2, <2>1, ProratedKept
  <2> SUFFICES ASSUME "subscription" \notin disturbed
               PROVE  PlanInv'
    BY <2>1, <2>3 DEF PlanInv
  <2>4. \A p \in Requests : p # r => requests[p].at \notin {"book", "switch"}
    BY <2>2, PlanAlone
  <2>5. At({"switch"})' = {} /\ At({"book"})' = {}
    BY <2>2, <2>4 DEF At, Others
  <2>6. requests[r].plan = plan /\ owed + Net(r) = Total(Prorated)
    BY <2>2 DEF PlanInv, At
  <2>7. owed' = Total(Prorated)
    BY <2>1, <2>6 DEF Net
  <2> QED
    BY <2>3, <2>5, <2>7 DEF PlanInv
<1>8. ASSUME NEW r \in Requests, Drop(r)
      PROVE  PlanInv'
  <2>1. Takes(r, Steps \ {"idle"}, {"idle"}) /\ UNCHANGED <<plan, owed, ledger>>
    BY <1>8, Walks DEF Drop, subscription
  <2>2. requests[r].at = "switch" => "subscription" \in disturbed'
    <3> SUFFICES ASSUME requests[r].at = "switch" PROVE "subscription" \in disturbed'
      OBVIOUS
    <3>1. requests[r].task.do = "change"
      BY DEF Typed, Where, Belongs
    <3> QED
      BY <1>8, <3>1 DEF Drop, WorksOn
  <2>3. Others(r) /\ requests'[r].at = "idle"
    BY <2>1 DEF Takes
  <2> QED
    BY <1>1, <1>2, <2>1, <2>2, <2>3, ProratedKept, PlanQuiet
<1>9. ASSUME NEW r \in Requests, NEW from, NEW to, Takes(r, from, to),
             from \cap {"switch"} = {}, to \cap {"book", "switch"} = {}, UNCHANGED <<plan, owed>>,
             \/ UNCHANGED ledger
             \/ \E kind, on, amount : /\ kind \notin {"proration", "credit"}
                                      /\ AppendEntry(kind, on, amount)
      PROVE  PlanInv'
  <2>1. Others(r) /\ requests[r].at # "switch" /\ requests'[r].at \notin {"book", "switch"}
    BY <1>9 DEF Takes
  <2> QED
    BY <1>1, <1>2, <1>9, <2>1, ProratedKept, PlanQuiet
<1>10. ASSUME NEW r \in Requests, BookRefund(r) \/ Charge(r)
       PROVE  PlanInv'
  <2>1. /\ UNCHANGED <<plan, owed>>
        /\ \/ UNCHANGED ledger
           \/ \E kind, on, amount : kind \notin {"proration", "credit"} /\ AppendEntry(kind, on, amount)
    BY <1>10 DEF BookRefund, Charge, subscription
  <2> QED
    BY <1>9, <1>10, <2>1, Walks
<1>11. ASSUME NEW r \in Requests,
              \/ Lookup(r) \/ Store(r) \/ Validate(r) \/ Find(r) \/ Create(r)
              \/ CountUse(r) \/ CountFails(r) \/ Refund(r) \/ RefundUnknown(r)
              \/ ReadLink(r) \/ Initiate(r) \/ Seen(r) \/ Mark(r) \/ Use(r) \/ Skip(r)
       PROVE  PlanInv'
  <2>1. UNCHANGED <<plan, owed, ledger>>
    BY <1>11 DEF Lookup, Store, Validate, Find, Create, CountUse, CountFails, Refund, RefundUnknown,
       ReadLink, Initiate, Seen, Mark, Use, Skip, subscription
  <2>2. \E from, to : Takes(r, from, to) /\ from \cap {"switch"} = {} /\ to \cap {"book", "switch"} = {}
    BY <1>11, Walks DEF FirstSteps
  <2> QED
    BY <1>9, <2>1, <2>2
<1> QED
  BY <1>3, <1>4, <1>5, <1>6, <1>7, <1>8, <1>10, <1>11, NextIs DEF Step

(* The entries of the plan changes add up to what the changes cost         *)
(* (internal/api/handlers/plan_change.go, ChangePlan), unless two changes  *)
(* overlapped or one was cut off between its entry and its switch.         *)
THEOREM PlanChangesArePaidFor == Spec => []PlanIsPaidFor
<1>1. Init => PlanInv
  <2> SUFFICES ASSUME Init PROVE PlanInv
    OBVIOUS
  <2>1. Prorated = {} /\ owed = 0 /\ IsFiniteSet(ledger)
    BY FS_EmptySet DEF Init, Prorated
  <2>2. At({"switch"}) = {} /\ At({"book"}) = {}
    BY NoRequestIsOne DEF Init, At
  <2> QED
    BY <2>1, <2>2, TotalOfNothing DEF PlanInv
<1>2. Typed /\ Alone /\ PlanInv /\ [Next]_vars => PlanInv'
  BY PlanStep DEF vars, PlanInv, Prorated, At, Net
<1>3. PlanInv => PlanIsPaidFor
  BY DEF PlanInv, PlanIsPaidFor, Prorated, Total
<1> QED
  BY TypedAlways, AloneAlways, <1>1, <1>2, <1>3, PTL DEF Spec

=============================================================================
