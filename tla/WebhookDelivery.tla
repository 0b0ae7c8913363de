-------------------------- MODULE WebhookDelivery --------------------------
(***************************************************************************)
(* Outbound webhooks of one tenant: the endpoints and their handlers       *)
(* (internal/api/handlers/webhooks.go) and the dispatcher                  *)
(* (internal/webhook/dispatcher.go).  An event is a webhook_deliver job; a *)
(* worker that runs it posts to one endpoint after the other, keeps a row  *)
(* of webhook_deliveries for each, and counts the failures of the endpoint *)
(* after each failure.  A caller whose enqueue fails delivers by itself.   *)
(*                                                                         *)
(* Left out: payloads, signatures and URLs, response bodies, the e-mail    *)
(* after a dispatch, next_retry_at (the only statement that reads it,      *)
(* ListFailedDeliveriesDue, has no caller: see FailedDeliveriesRetry), the *)
(* event types (an endpoint either subscribes to the events or not) and    *)
(* the ages of job locks (JobQueue).                                       *)
(***************************************************************************)
EXTENDS ScheduledJobs, Functions, FiniteSets

CONSTANTS
  Events,     \* jobs, one event each, numbered as they fall due
  Endpoints,  \* ids of endpoints
  Workers,    \* workers, and callers that deliver by themselves
  Modes,      \* live and test
  None,
  Threshold,    \* failures that open the breaker (10)
  MaxEndpoints, \* of a tenant in a mode (5)
  MaxAttempts,  \* of a job (5)
  MaxUpsets     \* bound: changes and faults together

ASSUME WebhookAssumption ==
  /\ Events \subseteq Nat
  /\ IsFiniteSet(Endpoints) /\ IsFiniteSet(Events) /\ IsFiniteSet(Workers)
  /\ None \notin Events \cup Endpoints \cup Modes
  /\ {Threshold, MaxEndpoints, MaxAttempts} \subseteq Nat \ {0}
  /\ MaxUpsets \in Nat

VARIABLES
  endpoints,  \* rows of webhook_endpoints
  jobs,       \* rows of scheduled_jobs, one event each
  origin,     \* the mode an event was born in
  deliveries, \* how many rows of webhook_deliveries of each status
  workers,
  up,         \* endpoints that answer a post with 2xx
  awaiting,   \* endpoints that take the event's kind ever since its job was claimed
  reenabled,  \* endpoints the tenant switched on again
  changes, faults \* of the tenant, the endpoints and the calendar; faults

vars == <<endpoints, jobs, origin, deliveries, workers, up, awaiting, reenabled, changes, faults>>

Endpoint == [row : {"absent", "checked", "there"}, active : BOOLEAN, subscribed : BOOLEAN,
             mode : Modes \cup {None}]

NoEndpoint == [row |-> "absent", active |-> FALSE, subscribed |-> FALSE, mode |-> None]
NewEndpoint(mode) == [row |-> "there", active |-> TRUE, subscribed |-> TRUE, mode |-> mode]

(* UpdateWebhookEndpoint: what the request has is written. *)
Updated(endpoint, active, subscribed) ==
  [endpoint EXCEPT !.active = active, !.subscribed = subscribed]

Job == [status : JobStatuses \cup {"absent", "inline"}, attempts : Nat, max : Nat, mode : Modes \cup {None}]

NoJob == [status |-> "absent", attempts |-> 0, max |-> MaxAttempts, mode |-> None]
Enqueued(mode) == [NoJob EXCEPT !.status = "pending", !.mode = mode]

DeliveryStatuses == {"pending", "delivered", "failed", "old_failure"}

NoDelivery == [s \in DeliveryStatuses |-> 0]

(* The rows there are of an event and an endpoint. *)
Rows(j, e) == deliveries[j][e]["pending"] + deliveries[j][e]["delivered"]
              + deliveries[j][e]["failed"] + deliveries[j][e]["old_failure"]

(* Mutant: the two statuses are mixed up.                                  *)
MovedBack(counts, from, to) == [counts EXCEPT ![to] = @ - 1, ![from] = @ + 1]

(* MarkDeliverySuccess, MarkDeliveryFailed *)
Moved(counts, from, to) == [counts EXCEPT ![from] = @ - 1, ![to] = @ + 1]

Worker == [at : {"idle", "list", "next", "send", "count", "disable"},
           job : Events \cup {None}, todo : SUBSET Endpoints, on : Endpoints \cup {None}]

IdleWorker == [at |-> "idle", job |-> None, todo |-> {}, on |-> None]

Init ==
  /\ endpoints \in [Endpoints -> {NoEndpoint} \cup {NewEndpoint(m) : m \in Modes}]
  /\ jobs = [j \in Events |-> NoJob]
  /\ origin = [j \in Events |-> None]
  /\ deliveries = [j \in Events |-> [e \in Endpoints |-> NoDelivery]]
  /\ workers = [w \in Workers |-> IdleWorker]
  /\ up \in SUBSET Endpoints
  /\ awaiting = [j \in Events |-> {}]
  /\ reenabled = {}
  /\ changes = 0
  /\ faults = 0

-----------------------------------------------------------------------------

Stands(w, at) == workers[w].at = at
Goto(w, at) == workers' = [workers EXCEPT ![w].at = at]

Fault == faults + changes < MaxUpsets /\ faults' = faults + 1
Change == faults + changes < MaxUpsets /\ changes' = changes + 1

Subscribed(e) == endpoints[e].active /\ endpoints[e].subscribed

(* Mutant: ListEndpoints does not ask for the mode.                        *)
ListedInAnyMode(mode) == {e \in Endpoints : Subscribed(e)}

(* Mutant: ListEndpoints does not ask whether the endpoint is on.          *)
ListedThoughOff(mode) == {e \in Endpoints : endpoints[e].subscribed /\ endpoints[e].mode = mode}

(* ListEndpoints and isSubscribed. *)
Listed(mode) == {e \in Endpoints : Subscribed(e) /\ endpoints[e].mode = mode}

Born(j, mode, status) ==
  /\ \A k \in Events : jobs[k].status = "absent" <=> k >= j
  /\ jobs' = [jobs EXCEPT ![j] = [Enqueued(mode) EXCEPT !.status = status]]

(* DispatchAsync. *)
Enqueue(j, mode) ==
  /\ Born(j, mode, "pending")
  /\ origin' = [origin EXCEPT ![j] = mode]
  /\ UNCHANGED <<up, endpoints, deliveries, workers, awaiting, reenabled, changes, faults>>

(* DispatchAsync falls back to Dispatch: nobody runs the event again.      *)
DispatchInline(w, j, mode) ==
  /\ Fault
  /\ Stands(w, "idle")
  /\ Born(j, mode, "inline")
  /\ origin' = [origin EXCEPT ![j] = mode]
  /\ awaiting' = [awaiting EXCEPT ![j] = Listed(mode)]
  /\ workers' = [workers EXCEPT ![w] = [IdleWorker EXCEPT !.at = "list", !.job = j]]
  /\ UNCHANGED <<up, endpoints, deliveries, reenabled, changes>>

(* ClaimNext takes the job that was due first; then HandleWebhookDeliver   *)
(* up to Dispatch.                                                         *)
Claim(w, j) ==
  /\ Stands(w, "idle")
  /\ Claimable(jobs[j])
  /\ \A k \in Events : Claimable(jobs[k]) => j <= k
  /\ jobs' = [jobs EXCEPT ![j] = Claimed(@)]
  /\ awaiting' = [awaiting EXCEPT ![j] = Listed(jobs[j].mode)]
  /\ workers' = [workers EXCEPT ![w] = [IdleWorker EXCEPT !.at = "list", !.job = j]]
  /\ UNCHANGED <<up, endpoints, origin, deliveries, reenabled, changes, faults>>

Dispatch(w) ==
  /\ Stands(w, "list")
  /\ workers' = [workers EXCEPT ![w].at = "next", ![w].todo = Listed(jobs[workers[w].job].mode)]
  /\ UNCHANGED <<up, endpoints, jobs, origin, deliveries, awaiting, reenabled, changes, faults>>

(* The only error of Dispatch: the job fails, and for good. *)
ListFails(w) ==
  LET j == workers[w].job IN
  /\ Fault
  /\ Stands(w, "list")
  /\ jobs' = IF jobs[j].status = "inline" THEN jobs ELSE [jobs EXCEPT ![j] = MarkedFailed(@)]
  /\ workers' = [workers EXCEPT ![w] = IdleWorker]
  /\ UNCHANGED <<up, endpoints, origin, deliveries, awaiting, reenabled, changes>>

(* deliver: its row, before the request. *)
CreateDelivery(w, e) ==
  /\ Stands(w, "next")
  /\ e \in workers[w].todo
  /\ deliveries' = [deliveries EXCEPT ![workers[w].job][e]["pending"] = @ + 1]
  /\ workers' = [workers EXCEPT ![w].at = "send", ![w].on = e, ![w].todo = @ \ {e}]
  /\ UNCHANGED <<up, endpoints, jobs, origin, awaiting, reenabled, changes, faults>>

(* No row, no request; the loop goes on. *)
SkipDelivery(w, e) ==
  /\ Fault
  /\ Stands(w, "next")
  /\ e \in workers[w].todo
  /\ workers' = [workers EXCEPT ![w].todo = @ \ {e}]
  /\ UNCHANGED <<up, endpoints, jobs, origin, deliveries, awaiting, reenabled, changes>>

Mark(w, status) ==
  deliveries' = [deliveries EXCEPT ![workers[w].job][workers[w].on] = Moved(@, "pending", status)]

(* A 2xx answer. *)
Succeed(w) ==
  /\ Stands(w, "send")
  /\ workers[w].on \in up
  /\ Mark(w, "delivered")
  /\ Goto(w, "next")
  /\ UNCHANGED <<up, endpoints, jobs, origin, awaiting, reenabled, changes, faults>>

(* Mutant: the loop ends with the first endpoint that fails.               *)
FailAndStop(w) ==
  /\ Stands(w, "send")
  /\ workers[w].on \notin up
  /\ Mark(w, "failed")
  /\ workers' = [workers EXCEPT ![w].at = "count", ![w].todo = {}]
  /\ UNCHANGED <<up, endpoints, jobs, origin, awaiting, reenabled, changes, faults>>

(* Another answer, or none within the time limit. *)
Fail(w) ==
  /\ Stands(w, "send")
  /\ workers[w].on \notin up
  /\ Mark(w, "failed")
  /\ Goto(w, "count")
  /\ UNCHANGED <<up, endpoints, jobs, origin, awaiting, reenabled, changes, faults>>

(* CountRecentFailedDeliveries *)
Failures(e) == SumFunction([j \in Events |-> deliveries[j][e]["failed"]])

(* Mutant: one failure too late.                                           *)
OpensLate(e) == Failures(e) > Threshold

Opens(e) == Failures(e) >= Threshold

CheckCircuitBreaker(w) ==
  /\ Stands(w, "count")
  /\ Goto(w, IF Opens(workers[w].on) THEN "disable" ELSE "next")
  /\ UNCHANGED <<up, endpoints, jobs, origin, deliveries, awaiting, reenabled, changes, faults>>

SwitchedOff(e) ==
  /\ endpoints' = [endpoints EXCEPT ![e].active = FALSE]
  /\ awaiting' = [j \in Events |-> awaiting[j] \ {e}]

DisableEndpoint(w) ==
  /\ Stands(w, "disable")
  /\ SwitchedOff(workers[w].on)
  /\ Goto(w, "next")
  /\ UNCHANGED <<up, jobs, origin, deliveries, reenabled, changes, faults>>

(* Mutant: an event that some endpoint did not take runs again, for all.   *)
FinishUnlessFailed(w) ==
  LET j == workers[w].job
      failed == \E e \in Endpoints : deliveries[j][e]["failed"] > 0
      ran == IF failed THEN Recovered(jobs[j]) ELSE MarkedDone(jobs[j])
  IN
  /\ Stands(w, "next")
  /\ workers[w].todo = {}
  /\ jobs' = IF jobs[j].status = "inline" THEN jobs ELSE [jobs EXCEPT ![j] = ran]
  /\ workers' = [workers EXCEPT ![w] = IdleWorker]
  /\ UNCHANGED <<up, endpoints, origin, deliveries, awaiting, reenabled, changes, faults>>

(* Dispatch returns nil, whatever the endpoints answered. *)
Finish(w) ==
  LET j == workers[w].job IN
  /\ Stands(w, "next")
  /\ workers[w].todo = {}
  /\ jobs' = IF jobs[j].status = "inline" THEN jobs ELSE [jobs EXCEPT ![j] = MarkedDone(@)]
  /\ workers' = [workers EXCEPT ![w] = IdleWorker]
  /\ UNCHANGED <<up, endpoints, origin, deliveries, awaiting, reenabled, changes, faults>>

(* The UPDATE of the row, the count or the switching off fails: ignored. *)
LoseUpdate(w) ==
  /\ Fault
  /\ \/ Stands(w, "send") /\ Goto(w, IF workers[w].on \in up THEN "next" ELSE "count")
     \/ (Stands(w, "count") \/ Stands(w, "disable")) /\ Goto(w, "next")
  /\ UNCHANGED <<up, endpoints, jobs, origin, deliveries, awaiting, reenabled, changes>>

Crash(w) ==
  /\ Fault
  /\ ~Stands(w, "idle")
  /\ workers' = [workers EXCEPT ![w] = IdleWorker]
  /\ UNCHANGED <<up, endpoints, jobs, origin, deliveries, awaiting, reenabled, changes>>

(* The job of a worker that is gone runs again, as a new event. *)
RecoverStaleLocks(j) ==
  /\ Recoverable(jobs[j])
  /\ \A w \in Workers : workers[w].job # j
  /\ jobs' = [jobs EXCEPT ![j] = Recovered(@)]
  /\ UNCHANGED <<up, endpoints, origin, deliveries, workers, awaiting, reenabled, changes, faults>>

(* A day goes by. *)
FailuresAge ==
  /\ Change
  /\ \E j \in Events, e \in Endpoints : deliveries[j][e]["failed"] > 0
  /\ deliveries' = [j \in Events |-> [e \in Endpoints |->
       [deliveries[j][e] EXCEPT !["failed"] = 0,
                                !["old_failure"] = @ + deliveries[j][e]["failed"]]]]
  /\ UNCHANGED <<up, endpoints, jobs, origin, workers, awaiting, reenabled, faults>>

(* An endpoint goes down, or is back. *)
TurnOver(e) ==
  /\ Change
  /\ up' = IF e \in up THEN up \ {e} ELSE up \cup {e}
  /\ UNCHANGED <<endpoints, jobs, origin, deliveries, workers, awaiting, reenabled, faults>>

-----------------------------------------------------------------------------
(* What the tenant calls. *)

(* CreateEndpoint counts, and then inserts. *)
CreateEndpoint(e, mode) ==
  /\ Change
  /\ endpoints[e].row = "absent"
  /\ Cardinality({x \in Endpoints : endpoints[x].active /\ endpoints[x].mode = mode}) < MaxEndpoints
  /\ endpoints' = [endpoints EXCEPT ![e].row = "checked", ![e].mode = mode]
  /\ UNCHANGED <<up, jobs, origin, deliveries, workers, awaiting, reenabled, faults>>

InsertEndpoint(e) ==
  /\ endpoints[e].row = "checked"
  /\ endpoints' = [endpoints EXCEPT ![e] = NewEndpoint(@.mode)]
  /\ UNCHANGED <<up, jobs, origin, deliveries, workers, awaiting, reenabled, changes, faults>>

(* The flag and the events are written as the request has them. *)
UpdateEndpoint(e, active, subscribed) ==
  /\ Change
  /\ endpoints[e].row = "there"
  /\ endpoints' = [endpoints EXCEPT ![e] = Updated(@, active, subscribed)]
  /\ awaiting' = IF active /\ subscribed THEN awaiting ELSE [j \in Events |-> awaiting[j] \ {e}]
  /\ reenabled' = IF active /\ ~endpoints[e].active THEN reenabled \cup {e} ELSE reenabled
  /\ UNCHANGED <<up, jobs, origin, deliveries, workers, faults>>

DeleteEndpoint(e) ==
  /\ Change
  /\ endpoints[e].row = "there"
  /\ SwitchedOff(e)
  /\ UNCHANGED <<up, jobs, origin, deliveries, workers, reenabled, faults>>

(* RetryDelivery, of any delivery: its payload becomes a new event, in the *)
(* mode of the request.                                                    *)
RetryDelivery(j, e, k, mode) ==
  /\ Change
  /\ Rows(j, e) > 0
  /\ Born(k, mode, "pending")
  /\ origin' = [origin EXCEPT ![k] = origin[j]]
  /\ UNCHANGED <<up, endpoints, deliveries, workers, awaiting, reenabled, faults>>

-----------------------------------------------------------------------------

Work(w) ==
  \/ \E j \in Events : Claim(w, j) \/ \E m \in Modes : DispatchInline(w, j, m)
  \/ Dispatch(w) \/ ListFails(w)
  \/ \E e \in Endpoints : CreateDelivery(w, e) \/ SkipDelivery(w, e)
  \/ Succeed(w) \/ Fail(w)
  \/ CheckCircuitBreaker(w) \/ DisableEndpoint(w)
  \/ Finish(w) \/ LoseUpdate(w) \/ Crash(w)

Tenant ==
  \E e \in Endpoints :
    \/ \E m \in Modes : CreateEndpoint(e, m)
    \/ InsertEndpoint(e) \/ DeleteEndpoint(e)
    \/ \E active, subscribed \in BOOLEAN : UpdateEndpoint(e, active, subscribed)
    \/ \E j, k \in Events, m \in Modes : RetryDelivery(j, e, k, m)

Next ==
  \/ \E j \in Events : RecoverStaleLocks(j) \/ \E m \in Modes : Enqueue(j, m)
  \/ \E w \in Workers : Work(w)
  \/ Tenant
  \/ FailuresAge \/ \E e \in Endpoints : TurnOver(e)

Spec == Init /\ [][Next]_vars

(* A worker that has begun goes on, and an idle one polls; nobody has to   *)
(* change an endpoint, and nothing has to fail but a request to one that   *)
(* is down.                                                                *)
Proceed(w) ==
  \/ \E j \in Events : Claim(w, j)
  \/ \E e \in Endpoints : CreateDelivery(w, e)
  \/ Dispatch(w) \/ Succeed(w) \/ Fail(w)
  \/ CheckCircuitBreaker(w) \/ DisableEndpoint(w) \/ Finish(w)

Fairness ==
  /\ \A w \in Workers : WF_vars(Proceed(w))
  /\ \A j \in Events : WF_vars(RecoverStaleLocks(j))

FairSpec == Spec /\ Fairness

-----------------------------------------------------------------------------

(* Every variable holds what its column or Go type can hold.               *)
TypeOK ==
  /\ endpoints \in [Endpoints -> Endpoint]
  /\ jobs \in [Events -> Job]
  /\ origin \in [Events -> Modes \cup {None}]
  /\ deliveries \in [Events -> [Endpoints -> [DeliveryStatuses -> Nat]]]
  /\ workers \in [Workers -> Worker]
  /\ awaiting \in [Events -> SUBSET Endpoints]
  /\ {up, reenabled} \subseteq SUBSET Endpoints
  /\ {changes, faults} \subseteq Nat

(* The breaker opens (dispatcher.go:280): without a lost statement, an     *)
(* endpoint that is on has fewer failures than the threshold, unless a     *)
(* worker is about to switch it off or the tenant switched it on again.    *)
BreakerOpens ==
  faults = 0 =>
    \A e \in Endpoints \ reenabled : endpoints[e].active /\ Failures(e) >= Threshold =>
      \E w \in Workers : workers[w].on = e /\ workers[w].at \in {"count", "disable"}

(* Several workers fail at the same time and count after that: each one    *)
(* but the first adds at most one failure to the threshold (dispatcher.go  *)
(* 286), so a dead endpoint is soon left alone.                            *)
NotHammered ==
  faults = 0 =>
    \A e \in Endpoints \ reenabled : Failures(e) < Threshold + Cardinality(Workers)

(* Without a lost statement, the event of a finished job was sent to every *)
(* endpoint that wanted it all the while: the failure of one endpoint, or  *)
(* its breaker, does not keep it from another (dispatcher.go:119).         *)
EveryEndpointIsTried ==
  faults = 0 =>
    \A j \in Events : jobs[j].status = "done" => \A e \in awaiting[j] : Rows(j, e) > 0

(* Without a lost statement, an event an endpoint took, or is being sent,  *)
(* is not sent to it again, above all not because another endpoint failed  *)
(* (dispatcher.go:123).  To an endpoint that failed it may be.             *)
SentOnce ==
  faults = 0 =>
    \A j \in Events, e \in Endpoints :
      deliveries[j][e]["pending"] + deliveries[j][e]["delivered"] <= 1

(* The promise of README.md:217, "Failed deliveries retry at 5 minutes, 30 *)
(* minutes, 2 hours, and 6 hours": what an endpoint did not take is sent   *)
(* to it again, unless it is switched off or wants no such events any      *)
(* more.  dispatcher.go writes next_retry_at, and nothing reads it.        *)
FailedDeliveriesRetry ==
  \A j \in Events, e \in Endpoints :
    deliveries[j][e]["failed"] > 0 ~> Rows(j, e) > 1 \/ ~Subscribed(e)

(* The test events of a tenant never reach a live endpoint, nor the other  *)
(* way round (dispatcher.go:97), as long as the retry of a delivery is     *)
(* asked for in the delivery's own mode.                                   *)
ModesApart ==
  \A j \in Events, e \in Endpoints :
    Rows(j, e) > 0 /\ jobs[j].mode = origin[j] => endpoints[e].mode = origin[j]

=============================================================================
