----------------------- MODULE WebhookDelivery_proofs -----------------------
(***************************************************************************)
(* What WebhookDelivery guarantees for any number of events, endpoints,    *)
(* workers and modes, and any sequence of changes, faults and crashes.     *)
(*                                                                         *)
(* Everything rests on Owned: a job that runs has one worker, a stale lock *)
(* is given back only when that worker is gone, and the row a worker is    *)
(* about to mark is there.  With it TypeOK is inductive (no count of rows  *)
(* falls below zero), and each of the others needs to say only what a      *)
(* worker that goes through its list has done so far.                      *)
(***************************************************************************)
EXTENDS WebhookDelivery, SumTheorems

-----------------------------------------------------------------------------
(* Rows of webhook_deliveries.                                             *)

Counts == [DeliveryStatuses -> Nat]

AllOf(counts) == counts["pending"] + counts["delivered"] + counts["failed"] + counts["old_failure"]

LEMMA Numbers ==
  ASSUME NEW counts \in Counts
  PROVE  /\ counts["pending"] \in Nat /\ counts["delivered"] \in Nat
         /\ counts["failed"] \in Nat /\ counts["old_failure"] \in Nat
BY DEF Counts, DeliveryStatuses

LEMMA Moving ==
  ASSUME NEW counts \in Counts, counts["pending"] > 0, NEW to \in {"delivered", "failed"}
  PROVE  Moved(counts, "pending", to) \in Counts
         /\ AllOf(Moved(counts, "pending", to)) = AllOf(counts)
<1> DEFINE moved == Moved(counts, "pending", to)
<1>1. counts["pending"] - 1 \in Nat /\ counts[to] + 1 \in Nat
  BY Numbers
<1>2. moved \in Counts
  BY <1>1 DEF Moved, Counts, DeliveryStatuses
<1>3. /\ moved["pending"] = counts["pending"] - 1 /\ moved[to] = counts[to] + 1
      /\ \A s \in {"delivered", "failed", "old_failure"} \ {to} : moved[s] = counts[s]
  BY DEF Moved, Counts, DeliveryStatuses
<1> HIDE DEF moved
<1>4. AllOf(moved) = AllOf(counts)
  BY <1>3, Numbers DEF AllOf
<1> QED BY <1>2, <1>4 DEF moved

LEMMA Adding ==
  ASSUME NEW counts \in Counts
  PROVE  LET more == [counts EXCEPT !["pending"] = @ + 1]
         IN  more \in Counts /\ more["pending"] > 0 /\ AllOf(more) = AllOf(counts) + 1
<1> DEFINE more == [counts EXCEPT !["pending"] = @ + 1]
<1>1. counts["pending"] + 1 \in Nat
  BY Numbers
<1>2. more \in Counts
  BY <1>1 DEF Counts, DeliveryStatuses
<1>3. /\ more["pending"] = counts["pending"] + 1
      /\ \A s \in {"delivered", "failed", "old_failure"} : more[s] = counts[s]
  BY DEF Counts, DeliveryStatuses
<1> HIDE DEF more
<1>4. more["pending"] > 0 /\ AllOf(more) = AllOf(counts) + 1
  BY <1>3, Numbers DEF AllOf
<1> QED BY <1>2, <1>4 DEF more

LEMMA Ageing ==
  ASSUME NEW counts \in Counts
  PROVE  LET aged == [counts EXCEPT !["failed"] = 0, !["old_failure"] = @ + counts["failed"]]
         IN  aged \in Counts /\ aged["pending"] = counts["pending"] /\ AllOf(aged) = AllOf(counts)
<1> DEFINE aged == [counts EXCEPT !["failed"] = 0, !["old_failure"] = @ + counts["failed"]]
<1>1. counts["old_failure"] + counts["failed"] \in Nat
  BY Numbers
<1>2. aged \in Counts
  BY <1>1 DEF Counts, DeliveryStatuses
<1>3. /\ aged["failed"] = 0 /\ aged["old_failure"] = counts["old_failure"] + counts["failed"]
      /\ \A s \in {"pending", "delivered"} : aged[s] = counts[s]
  BY DEF Counts, DeliveryStatuses
<1> HIDE DEF aged
<1>4. aged["pending"] = counts["pending"] /\ AllOf(aged) = AllOf(counts)
  BY <1>3, Numbers DEF AllOf
<1> QED BY <1>2, <1>4 DEF aged

LEMMA Nothing == NoDelivery \in Counts /\ AllOf(NoDelivery) = 0
BY DEF NoDelivery, Counts, DeliveryStatuses, AllOf

LEMMA RowsAreAll ==
  ASSUME NEW j, NEW e
  PROVE  Rows(j, e) = AllOf(deliveries[j][e]) /\ Rows(j, e)' = AllOf(deliveries'[j][e])
BY DEF Rows, AllOf

-----------------------------------------------------------------------------
(* Type correctness.                                                       *)

Running == {"processing", "inline"}

(* A worker at work has a job that runs, and no other worker has it.       *)
Owned ==
  /\ \A w \in Workers : workers[w].at # "idle" =>
       workers[w].job \in Events /\ jobs[workers[w].job].status \in Running
  /\ \A w, v \in Workers : w # v /\ workers[w].at # "idle" /\ workers[v].at # "idle" =>
       workers[w].job # workers[v].job
  /\ \A w \in Workers : workers[w].at \in {"send", "count", "disable"} => workers[w].on \in Endpoints
  /\ \A w \in Workers : workers[w].at = "send" =>
       deliveries[workers[w].job][workers[w].on]["pending"] > 0

(* What the operators on rows return.                                      *)
LEMMA RowTypes ==
  /\ \A job \in Job : /\ Claimed(job) \in Job /\ MarkedDone(job) \in Job
                      /\ MarkedFailed(job) \in Job /\ Recovered(job) \in Job
                      /\ Claimed(job).status = "processing" /\ Claimed(job).mode = job.mode
                      /\ MarkedDone(job).status = "done" /\ MarkedDone(job).mode = job.mode
                      /\ MarkedFailed(job).status = "failed" /\ MarkedFailed(job).mode = job.mode
                      /\ Recovered(job).status = "pending" /\ Recovered(job).mode = job.mode
  /\ \A m \in Modes : Enqueued(m) \in Job /\ Enqueued(m).mode = m
  /\ NoJob \in Job /\ NoJob.status = "absent"
  /\ IdleWorker \in Worker /\ IdleWorker.at = "idle" /\ IdleWorker.todo = {}
  /\ NoEndpoint \in Endpoint /\ ~NoEndpoint.active
  /\ \A m \in Modes \cup {None} : /\ NewEndpoint(m) \in Endpoint /\ NewEndpoint(m).mode = m
                                  /\ NewEndpoint(m).row = "there"
<1>1. MaxAttempts \in Nat
  BY WebhookAssumption
<1>2. ASSUME NEW job \in Job
      PROVE  /\ Claimed(job) \in Job /\ MarkedDone(job) \in Job
             /\ MarkedFailed(job) \in Job /\ Recovered(job) \in Job
             /\ Claimed(job).status = "processing" /\ Claimed(job).mode = job.mode
             /\ MarkedDone(job).status = "done" /\ MarkedDone(job).mode = job.mode
             /\ MarkedFailed(job).status = "failed" /\ MarkedFailed(job).mode = job.mode
             /\ Recovered(job).status = "pending" /\ Recovered(job).mode = job.mode
  <2>1. job.attempts + 1 \in Nat
    BY DEF Job
  <2>2. /\ Claimed(job) \in Job
        /\ Claimed(job).status = "processing" /\ Claimed(job).mode = job.mode
    <3>1. \A n \in Nat : LET claimed == [job EXCEPT !.status = "processing", !.attempts = n]
                         IN  /\ claimed \in Job
                             /\ claimed.status = "processing" /\ claimed.mode = job.mode
      BY DEF Job, JobStatuses
    <3> QED BY <2>1, <3>1 DEF Claimed
  <2> QED BY <2>2 DEF Job, JobStatuses, MarkedDone, MarkedFailed, Recovered
<1>3. NoJob \in Job /\ NoJob.status = "absent"
  BY <1>1 DEF NoJob, Job
<1>4. ASSUME NEW m \in Modes PROVE Enqueued(m) \in Job /\ Enqueued(m).mode = m
  <2>1. ASSUME NEW job \in Job
        PROVE  LET new == [job EXCEPT !.status = "pending", !.mode = m]
               IN  new \in Job /\ new.mode = m
    BY DEF Job, JobStatuses
  <2> QED BY <1>3, <2>1 DEF Enqueued
<1>5. IdleWorker \in Worker /\ IdleWorker.at = "idle" /\ IdleWorker.todo = {}
  BY DEF IdleWorker, Worker
<1>6. NoEndpoint \in Endpoint /\ ~NoEndpoint.active
  BY DEF NoEndpoint, Endpoint
<1>7. \A m \in Modes \cup {None} : /\ NewEndpoint(m) \in Endpoint /\ NewEndpoint(m).mode = m
                                   /\ NewEndpoint(m).row = "there"
  BY DEF NewEndpoint, Endpoint
<1> QED BY <1>2, <1>3, <1>4, <1>5, <1>6, <1>7

(* What a step does to the workers.                                        *)
OthersRest(w) == \A v \in Workers : v # w => workers'[v] = workers[v]

WorkerAt == {"idle", "list", "next", "send", "count", "disable"}

(* A worker goes on with its list.                                         *)
GoesOn(w, at) ==
  /\ OthersRest(w)
  /\ workers' \in [Workers -> Worker]
  /\ workers'[w].at = at /\ workers'[w].job = workers[w].job

LEMMA Replacing ==
  ASSUME TypeOK, NEW w \in Workers, NEW worker \in Worker,
         workers' = [workers EXCEPT ![w] = worker]
  PROVE  OthersRest(w) /\ workers' \in [Workers -> Worker] /\ workers'[w] = worker
BY DEF TypeOK, OthersRest

LEMMA Going ==
  ASSUME TypeOK, NEW w \in Workers, NEW at \in WorkerAt, Goto(w, at)
  PROVE  GoesOn(w, at) /\ workers'[w].todo = workers[w].todo /\ workers'[w].on = workers[w].on
BY DEF TypeOK, Goto, GoesOn, OthersRest, Worker, WorkerAt

LEMMA Idling ==
  ASSUME TypeOK, NEW w \in Workers, workers' = [workers EXCEPT ![w] = IdleWorker]
  PROVE  /\ OthersRest(w) /\ workers' \in [Workers -> Worker]
         /\ workers'[w].at = "idle" /\ workers'[w].todo = {}
BY RowTypes DEF TypeOK, OthersRest

LEMMA Starting ==
  ASSUME TypeOK, NEW w \in Workers, NEW j \in Events,
         workers' = [workers EXCEPT ![w] = [IdleWorker EXCEPT !.at = "list", !.job = j]]
  PROVE  /\ OthersRest(w) /\ workers' \in [Workers -> Worker]
         /\ workers'[w].at = "list" /\ workers'[w].job = j /\ workers'[w].todo = {}
<1> DEFINE worker == [IdleWorker EXCEPT !.at = "list", !.job = j]
<1>1. worker \in Worker /\ worker.at = "list" /\ worker.job = j /\ worker.todo = {}
  BY RowTypes DEF Worker
<1>2. workers' = [workers EXCEPT ![w] = worker]
  OBVIOUS
<1> HIDE DEF worker
<1>3. OthersRest(w) /\ workers' \in [Workers -> Worker] /\ workers'[w] = worker
  BY <1>1, <1>2, Replacing
<1> QED BY <1>1, <1>3

LEMMA Listing ==
  ASSUME TypeOK, NEW w \in Workers, NEW todo \in SUBSET Endpoints,
         workers' = [workers EXCEPT ![w].at = "next", ![w].todo = todo]
  PROVE  GoesOn(w, "next") /\ workers'[w].todo = todo
<1> DEFINE worker == [workers[w] EXCEPT !.at = "next", !.todo = todo]
<1>1. worker \in Worker /\ worker.at = "next" /\ worker.job = workers[w].job /\ worker.todo = todo
  BY DEF Worker, TypeOK
<1>2. workers' = [workers EXCEPT ![w] = worker]
  BY DEF TypeOK
<1> HIDE DEF worker
<1>3. OthersRest(w) /\ workers' \in [Workers -> Worker] /\ workers'[w] = worker
  BY <1>1, <1>2, Replacing
<1> QED BY <1>1, <1>3 DEF GoesOn

LEMMA Sending ==
  ASSUME TypeOK, NEW w \in Workers, NEW e \in Endpoints,
         workers' = [workers EXCEPT ![w].at = "send", ![w].on = e, ![w].todo = @ \ {e}]
  PROVE  GoesOn(w, "send") /\ workers'[w].todo = workers[w].todo \ {e} /\ workers'[w].on = e
<1> DEFINE worker == [workers[w] EXCEPT !.at = "send", !.on = e, !.todo = @ \ {e}]
<1>1. /\ worker \in Worker /\ worker.at = "send" /\ worker.job = workers[w].job
      /\ worker.todo = workers[w].todo \ {e} /\ worker.on = e
  BY DEF Worker, TypeOK
<1>2. workers' = [workers EXCEPT ![w] = worker]
  BY DEF TypeOK
<1> HIDE DEF worker
<1>3. OthersRest(w) /\ workers' \in [Workers -> Worker] /\ workers'[w] = worker
  BY <1>1, <1>2, Replacing
<1> QED BY <1>1, <1>3 DEF GoesOn

LEMMA Skipping ==
  ASSUME TypeOK, NEW w \in Workers, NEW e,
         workers' = [workers EXCEPT ![w].todo = @ \ {e}]
  PROVE  GoesOn(w, workers[w].at) /\ workers'[w].todo = workers[w].todo \ {e}
<1> DEFINE worker == [workers[w] EXCEPT !.todo = @ \ {e}]
<1>1. /\ worker \in Worker /\ worker.at = workers[w].at /\ worker.job = workers[w].job
      /\ worker.todo = workers[w].todo \ {e}
  BY DEF Worker, TypeOK
<1>2. workers' = [workers EXCEPT ![w] = worker]
  BY DEF TypeOK
<1> HIDE DEF worker
<1>3. OthersRest(w) /\ workers' \in [Workers -> Worker] /\ workers'[w] = worker
  BY <1>1, <1>2, Replacing
<1> QED BY <1>1, <1>3 DEF GoesOn

(* What a step does to the rows: only counts[j][e] changes.                *)
CountsElsewhere(j, e) ==
  \A k \in Events, x \in Endpoints : k # j \/ x # e => deliveries'[k][x] = deliveries[k][x]

LEMMA Counting ==
  ASSUME TypeOK, NEW j \in Events, NEW e \in Endpoints, NEW counts \in Counts,
         deliveries' = [deliveries EXCEPT ![j][e] = counts]
  PROVE  /\ deliveries' \in [Events -> [Endpoints -> Counts]]
         /\ deliveries'[j][e] = counts /\ CountsElsewhere(j, e)
BY DEF TypeOK, Counts, CountsElsewhere

(* The row a worker has sent is marked.                                    *)
LEMMA Marking ==
  ASSUME TypeOK, Owned, NEW w \in Workers, workers[w].at = "send",
         NEW status \in {"delivered", "failed"}, Mark(w, status)
  PROVE  /\ deliveries' \in [Events -> [Endpoints -> Counts]]
         /\ \A j \in Events, e \in Endpoints :
              /\ Rows(j, e)' = Rows(j, e)
              /\ j # workers[w].job => deliveries'[j][e] = deliveries[j][e]
<1> DEFINE j == workers[w].job
           e == workers[w].on
           counts == Moved(deliveries[j][e], "pending", status)
<1>1. j \in Events /\ e \in Endpoints /\ deliveries[j][e] \in Counts /\ deliveries[j][e]["pending"] > 0
  BY DEF Owned, TypeOK, Counts
<1>2. counts \in Counts /\ AllOf(counts) = AllOf(deliveries[j][e])
  BY <1>1, Moving
<1>3. deliveries' = [deliveries EXCEPT ![j][e] = counts]
  BY DEF Mark
<1> HIDE DEF counts
<1>4. /\ deliveries' \in [Events -> [Endpoints -> Counts]]
      /\ deliveries'[j][e] = counts /\ CountsElsewhere(j, e)
  BY <1>1, <1>2, <1>3, Counting
<1> QED BY <1>1, <1>2, <1>4, RowsAreAll DEF CountsElsewhere

(* A row more.                                                             *)
LEMMA Inserting ==
  ASSUME TypeOK, NEW j \in Events, NEW e \in Endpoints,
         deliveries' = [deliveries EXCEPT ![j][e]["pending"] = @ + 1]
  PROVE  /\ deliveries' \in [Events -> [Endpoints -> Counts]]
         /\ deliveries'[j][e]["pending"] > 0
         /\ Rows(j, e)' = Rows(j, e) + 1 /\ CountsElsewhere(j, e)
<1> DEFINE counts == [deliveries[j][e] EXCEPT !["pending"] = @ + 1]
<1>1. deliveries[j][e] \in Counts
  BY DEF TypeOK, Counts
<1>2. counts \in Counts /\ counts["pending"] > 0 /\ AllOf(counts) = AllOf(deliveries[j][e]) + 1
  BY <1>1, Adding
<1>3. deliveries' = [deliveries EXCEPT ![j][e] = counts]
  BY DEF TypeOK
<1> HIDE DEF counts
<1>4. /\ deliveries' \in [Events -> [Endpoints -> Counts]]
      /\ deliveries'[j][e] = counts /\ CountsElsewhere(j, e)
  BY <1>2, <1>3, Counting
<1> QED BY <1>2, <1>4, RowsAreAll

LEMMA Aged ==
  ASSUME TypeOK, FailuresAge
  PROVE  /\ deliveries' \in [Events -> [Endpoints -> Counts]]
         /\ \A j \in Events, e \in Endpoints :
              /\ Rows(j, e)' = Rows(j, e)
              /\ deliveries'[j][e]["pending"] = deliveries[j][e]["pending"]
<1>1. ASSUME NEW j \in Events, NEW e \in Endpoints
      PROVE  /\ deliveries'[j][e] \in Counts
             /\ AllOf(deliveries'[j][e]) = AllOf(deliveries[j][e])
             /\ deliveries'[j][e]["pending"] = deliveries[j][e]["pending"]
  <2>1. deliveries'[j][e] = [deliveries[j][e] EXCEPT !["failed"] = 0,
                               !["old_failure"] = @ + deliveries[j][e]["failed"]]
    BY DEF FailuresAge
  <2>2. deliveries[j][e] \in Counts
    BY DEF TypeOK, Counts
  <2> QED BY <2>1, <2>2, Ageing
<1>2. deliveries' \in [Events -> [Endpoints -> Counts]]
  BY <1>1 DEF FailuresAge
<1> QED BY <1>1, <1>2, RowsAreAll

LEMMA Counters ==
  ASSUME TypeOK
  PROVE  /\ Fault => faults' \in Nat /\ faults' # 0
         /\ Change => changes' \in Nat
BY DEF TypeOK, Fault, Change

(* What remains to be shown of a step of w.                                *)
LEMMA OwnedStep ==
  ASSUME TypeOK, Owned, NEW w \in Workers, OthersRest(w),
         \A v \in Workers : v # w /\ workers[v].at # "idle" =>
           /\ jobs'[workers[v].job].status \in Running
           /\ workers[v].at = "send" =>
                deliveries'[workers[v].job][workers[v].on]["pending"] > 0,
         workers'[w].at # "idle" =>
           /\ workers'[w].job \in Events /\ jobs'[workers'[w].job].status \in Running
           /\ \A v \in Workers : v # w /\ workers[v].at # "idle" => workers[v].job # workers'[w].job,
         workers'[w].at \in {"send", "count", "disable"} => workers'[w].on \in Endpoints,
         workers'[w].at = "send" => deliveries'[workers'[w].job][workers'[w].on]["pending"] > 0
  PROVE  Owned'
BY DEF Owned, OthersRest

(* The worker stays with its job, and the job stays as it is.              *)
LEMMA GoingOn ==
  ASSUME TypeOK, Owned, NEW w \in Workers, NEW at, workers[w].at # "idle", GoesOn(w, at), UNCHANGED jobs,
         \A v \in Workers : v # w /\ workers[v].at = "send" =>
           deliveries'[workers[v].job][workers[v].on]["pending"] > 0,
         at \in {"send", "count", "disable"} => workers'[w].on \in Endpoints,
         at = "send" => deliveries'[workers[w].job][workers'[w].on]["pending"] > 0
  PROVE  Owned'
BY OwnedStep DEF Owned, GoesOn

(* Nobody moves.                                                           *)
LEMMA StandingStill ==
  ASSUME TypeOK, Owned, UNCHANGED workers,
         \A j \in Events : jobs[j].status \in Running => jobs'[j].status \in Running,
         \A j \in Events, e \in Endpoints : deliveries'[j][e]["pending"] = deliveries[j][e]["pending"]
  PROVE  Owned'
BY DEF Owned, TypeOK, Worker

(* A new event is the first one that is not there.                         *)
LEMMA BirthTypes ==
  ASSUME TypeOK, NEW j \in Events, NEW status \in {"pending", "inline"}, NEW m \in Modes,
         Born(j, m, status)
  PROVE  /\ jobs' \in [Events -> Job]
         /\ jobs'[j].status = status /\ jobs'[j].mode = m /\ jobs[j].status = "absent"
         /\ \A k \in Events : k # j => jobs'[k] = jobs[k]
<1> DEFINE job == [Enqueued(m) EXCEPT !.status = status]
<1>1. job \in Job /\ job.status = status /\ job.mode = m
  <2>1. Enqueued(m) \in Job /\ Enqueued(m).mode = m
    BY RowTypes
  <2> QED BY <2>1 DEF Job, JobStatuses
<1>2. jobs' = [jobs EXCEPT ![j] = job] /\ (jobs[j].status = "absent" <=> j >= j)
  BY DEF Born
<1>3. j \in Nat
  BY WebhookAssumption
<1> HIDE DEF job
<1> QED BY <1>1, <1>2, <1>3 DEF TypeOK

(* Switching an endpoint off.                                              *)
LEMMA SwitchingOff ==
  ASSUME TypeOK, NEW e \in Endpoints, SwitchedOff(e)
  PROVE  /\ endpoints' \in [Endpoints -> Endpoint] /\ awaiting' \in [Events -> SUBSET Endpoints]
         /\ ~endpoints'[e].active /\ \A x \in Endpoints : x # e => endpoints'[x] = endpoints[x]
         /\ endpoints'[e].row = endpoints[e].row /\ endpoints'[e].mode = endpoints[e].mode
<1>1. [endpoints[e] EXCEPT !.active = FALSE] \in Endpoint
  BY DEF TypeOK, Endpoint
<1>2. endpoints' = [endpoints EXCEPT ![e] = [endpoints[e] EXCEPT !.active = FALSE]]
  BY DEF SwitchedOff, TypeOK
<1>3. awaiting' \in [Events -> SUBSET Endpoints]
  BY DEF SwitchedOff, TypeOK
<1> QED BY <1>1, <1>2, <1>3 DEF TypeOK, Endpoint

LEMMA WorkTypes ==
  ASSUME TypeOK, Owned, NEW w \in Workers, Work(w)
  PROVE  TypeOK' /\ Owned'
<1>1. ASSUME NEW j \in Events, NEW status \in {"pending", "inline"}, NEW m \in Modes,
             Born(j, m, status)
      PROVE  /\ jobs' \in [Events -> Job] /\ jobs'[j].status = status
             /\ \A k \in Events : k # j => jobs'[k] = jobs[k]
             /\ jobs[j].status = "absent"
  BY <1>1, BirthTypes
<1>2. ASSUME NEW j \in Events, Claim(w, j) PROVE TypeOK' /\ Owned'
  <2>1. /\ OthersRest(w) /\ workers' \in [Workers -> Worker]
        /\ workers'[w].at = "list" /\ workers'[w].job = j /\ workers'[w].todo = {}
    BY <1>2, Starting DEF Claim
  <2>2. /\ jobs' \in [Events -> Job] /\ jobs'[j].status = "processing" /\ jobs[j].status = "pending"
        /\ \A k \in Events : k # j => jobs'[k] = jobs[k]
    BY <1>2, RowTypes DEF Claim, TypeOK, Claimable
  <2>3. awaiting' \in [Events -> SUBSET Endpoints]
    BY <1>2 DEF Claim, TypeOK, Listed
  <2>4. TypeOK'
    BY <1>2, <2>1, <2>2, <2>3 DEF Claim, TypeOK
  <2>5. Owned'
    BY <1>2, <2>1, <2>2, OwnedStep DEF Claim, Owned, Running
  <2> QED BY <2>4, <2>5
<1>3. ASSUME NEW j \in Events, NEW m \in Modes, DispatchInline(w, j, m) PROVE TypeOK' /\ Owned'
  <2>1. /\ OthersRest(w) /\ workers' \in [Workers -> Worker]
        /\ workers'[w].at = "list" /\ workers'[w].job = j /\ workers'[w].todo = {}
    BY <1>3, Starting DEF DispatchInline
  <2>2. /\ jobs' \in [Events -> Job] /\ jobs'[j].status = "inline" /\ jobs[j].status = "absent"
        /\ \A k \in Events : k # j => jobs'[k] = jobs[k]
    BY <1>1, <1>3 DEF DispatchInline
  <2>3. awaiting' \in [Events -> SUBSET Endpoints] /\ origin' \in [Events -> Modes \cup {None}]
    BY <1>3 DEF DispatchInline, TypeOK, Listed
  <2>4. TypeOK'
    BY <1>3, <2>1, <2>2, <2>3, Counters DEF DispatchInline, TypeOK
  <2>5. Owned'
    BY <1>3, <2>1, <2>2, OwnedStep DEF DispatchInline, Owned, Running
  <2> QED BY <2>4, <2>5
<1>4. CASE Dispatch(w)
  <2>1. PICK todo \in SUBSET Endpoints :
          workers' = [workers EXCEPT ![w].at = "next", ![w].todo = todo]
    BY <1>4 DEF Dispatch, Listed
  <2>2. GoesOn(w, "next")
    BY <2>1, Listing
  <2>3. Owned'
    BY <1>4, <2>2, GoingOn DEF Dispatch, Stands, Owned
  <2> QED BY <1>4, <2>2, <2>3 DEF Dispatch, GoesOn, TypeOK
<1>5. ASSUME NEW job \in Job, NEW j \in Events, j = workers[w].job, workers[w].at # "idle",
             jobs' = jobs \/ jobs' = [jobs EXCEPT ![j] = job],
             workers' = [workers EXCEPT ![w] = IdleWorker],
             UNCHANGED <<up, endpoints, origin, deliveries, awaiting, reenabled, changes>>,
             faults' \in Nat
      PROVE  TypeOK' /\ Owned'
  <2>1. OthersRest(w) /\ workers' \in [Workers -> Worker] /\ workers'[w].at = "idle"
    BY <1>5, Idling
  <2>2. jobs' \in [Events -> Job] /\ \A k \in Events : k # j => jobs'[k] = jobs[k]
    BY <1>5 DEF TypeOK
  <2>3. TypeOK'
    BY <1>5, <2>1, <2>2 DEF TypeOK
  <2>4. Owned'
    BY <1>5, <2>1, <2>2, OwnedStep DEF Owned
  <2> QED BY <2>3, <2>4
<1>6. workers[w].at # "idle" => workers[w].job \in Events /\ jobs[workers[w].job] \in Job
  BY DEF Owned, TypeOK
<1>7. CASE ListFails(w)
  BY <1>5, <1>6, <1>7, RowTypes, Counters DEF ListFails, Stands
<1>8. ASSUME NEW e \in Endpoints, CreateDelivery(w, e) PROVE TypeOK' /\ Owned'
  <2>1. GoesOn(w, "send") /\ workers'[w].on = e
    BY <1>8, Sending DEF CreateDelivery
  <2>2. /\ deliveries' \in [Events -> [Endpoints -> Counts]]
        /\ deliveries'[workers[w].job][e]["pending"] > 0
        /\ CountsElsewhere(workers[w].job, e)
    BY <1>6, <1>8, Inserting DEF CreateDelivery, Stands
  <2>3. \A v \in Workers : v # w /\ workers[v].at = "send" =>
          deliveries'[workers[v].job][workers[v].on]["pending"] > 0
    BY <1>8, <2>2 DEF CountsElsewhere, Owned, CreateDelivery, Stands
  <2>4. Owned'
    BY <1>8, <2>1, <2>2, <2>3, GoingOn DEF CreateDelivery, Stands
  <2> QED BY <1>8, <2>1, <2>2, <2>4 DEF CreateDelivery, GoesOn, TypeOK, Counts
<1>9. ASSUME NEW e \in Endpoints, SkipDelivery(w, e) PROVE TypeOK' /\ Owned'
  <2>1. GoesOn(w, "next")
    BY <1>9, Skipping DEF SkipDelivery, Stands
  <2>2. Owned'
    BY <1>9, <2>1, GoingOn DEF SkipDelivery, Stands, Owned
  <2> QED BY <1>9, <2>1, <2>2, Counters DEF SkipDelivery, GoesOn, TypeOK
<1>10. CASE Succeed(w) \/ Fail(w)
  <2>1. PICK at \in {"next", "count"}, status \in {"delivered", "failed"} :
          Goto(w, at) /\ Mark(w, status) /\ workers[w].at = "send"
          /\ UNCHANGED <<up, endpoints, jobs, origin, awaiting, reenabled, changes, faults>>
    BY <1>10 DEF Succeed, Fail, Stands
  <2>2. GoesOn(w, at) /\ workers'[w].on = workers[w].on
    BY <2>1, Going DEF WorkerAt
  <2>3. /\ deliveries' \in [Events -> [Endpoints -> Counts]]
        /\ \A j \in Events, e \in Endpoints : j # workers[w].job => deliveries'[j][e] = deliveries[j][e]
    BY <2>1, Marking
  <2>4. \A v \in Workers : v # w /\ workers[v].at = "send" =>
          deliveries'[workers[v].job][workers[v].on]["pending"] > 0
    BY <2>1, <2>3 DEF Owned
  <2>5. Owned'
    BY <2>1, <2>2, <2>4, GoingOn DEF Owned
  <2> QED BY <2>1, <2>2, <2>3, <2>5 DEF GoesOn, TypeOK, Counts
<1>11. CASE CheckCircuitBreaker(w) \/ DisableEndpoint(w) \/ LoseUpdate(w)
  <2>1. PICK at \in {"next", "count", "disable"} :
          Goto(w, at) /\ workers[w].at \in {"send", "count", "disable"}
          /\ UNCHANGED <<jobs, deliveries, origin, up, reenabled, changes>>
    BY <1>11 DEF CheckCircuitBreaker, DisableEndpoint, LoseUpdate, Stands
  <2>2. GoesOn(w, at) /\ workers'[w].on = workers[w].on
    BY <2>1, Going DEF WorkerAt
  <2>3. Owned'
    BY <2>1, <2>2, GoingOn DEF Owned
  <2>4. faults' \in Nat
    BY <1>11, Counters DEF CheckCircuitBreaker, DisableEndpoint, LoseUpdate, TypeOK
  <2>5. endpoints' \in [Endpoints -> Endpoint] /\ awaiting' \in [Events -> SUBSET Endpoints]
    BY <1>11, SwitchingOff
       DEF CheckCircuitBreaker, DisableEndpoint, LoseUpdate, TypeOK, Owned, Stands
  <2> QED BY <2>1, <2>2, <2>3, <2>4, <2>5 DEF GoesOn, TypeOK
<1>12. CASE Finish(w)
  BY <1>5, <1>6, <1>12, RowTypes DEF Finish, Stands, TypeOK
<1>13. CASE Crash(w)
  BY <1>5, <1>6, <1>13, Counters DEF Crash, Stands
<1> QED BY <1>2, <1>3, <1>4, <1>7, <1>8, <1>9, <1>10, <1>11, <1>12, <1>13 DEF Work

LEMMA TenantTypes ==
  ASSUME TypeOK, Owned, Tenant
  PROVE  TypeOK' /\ Owned'
<1>1. PICK e \in Endpoints :
        \/ \E m \in Modes : CreateEndpoint(e, m)
        \/ InsertEndpoint(e) \/ DeleteEndpoint(e)
        \/ \E active, subscribed \in BOOLEAN : UpdateEndpoint(e, active, subscribed)
        \/ \E j, k \in Events, m \in Modes : RetryDelivery(j, e, k, m)
  BY DEF Tenant
<1>2. ASSUME UNCHANGED <<jobs, deliveries, workers>> PROVE Owned'
  BY <1>2, StandingStill
<1>3. CASE \E m \in Modes : CreateEndpoint(e, m)
  <2>1. PICK m \in Modes : CreateEndpoint(e, m)
    BY <1>3
  <2>2. \A x \in Endpoint : [x EXCEPT !.row = "checked", !.mode = m] \in Endpoint
    BY DEF Endpoint
  <2>3. endpoints' = [endpoints EXCEPT ![e] = [endpoints[e] EXCEPT !.row = "checked", !.mode = m]]
    BY <2>1 DEF CreateEndpoint, TypeOK
  <2>4. endpoints' \in [Endpoints -> Endpoint]
    BY <2>2, <2>3 DEF TypeOK
  <2> QED BY <1>2, <2>1, <2>4, Counters DEF CreateEndpoint, TypeOK
<1>4. CASE InsertEndpoint(e)
  <2>1. endpoints' \in [Endpoints -> Endpoint]
    BY <1>4, RowTypes DEF InsertEndpoint, TypeOK, Endpoint
  <2> QED BY <1>2, <1>4, <2>1 DEF InsertEndpoint, TypeOK
<1>5. CASE DeleteEndpoint(e)
  BY <1>2, <1>5, SwitchingOff, Counters DEF DeleteEndpoint, TypeOK
<1>6. CASE \E active, subscribed \in BOOLEAN : UpdateEndpoint(e, active, subscribed)
  <2>1. PICK active \in BOOLEAN, subscribed \in BOOLEAN : UpdateEndpoint(e, active, subscribed)
    BY <1>6
  <2>2. Updated(endpoints[e], active, subscribed) \in Endpoint
    <3>1. \A x \in Endpoint : [x EXCEPT !.active = active, !.subscribed = subscribed] \in Endpoint
      BY DEF Endpoint
    <3> QED BY <3>1 DEF Updated, TypeOK
  <2>3. endpoints' \in [Endpoints -> Endpoint]
    BY <2>1, <2>2 DEF UpdateEndpoint, TypeOK
  <2>4. awaiting' \in [Events -> SUBSET Endpoints] /\ reenabled' \subseteq Endpoints
    BY <2>1 DEF UpdateEndpoint, TypeOK
  <2> QED BY <1>2, <2>1, <2>3, <2>4, Counters DEF UpdateEndpoint, TypeOK
<1>7. CASE \E j, k \in Events, m \in Modes : RetryDelivery(j, e, k, m)
  <2>1. PICK j \in Events, k \in Events, m \in Modes : RetryDelivery(j, e, k, m)
    BY <1>7
  <2>2. /\ jobs' \in [Events -> Job] /\ jobs[k].status = "absent"
        /\ \A i \in Events : i # k => jobs'[i] = jobs[i]
    BY <2>1, BirthTypes DEF RetryDelivery
  <2>3. origin' \in [Events -> Modes \cup {None}]
    BY <2>1 DEF RetryDelivery, TypeOK
  <2>4. Owned'
    BY <2>1, <2>2, StandingStill DEF RetryDelivery, Running
  <2> QED BY <2>1, <2>2, <2>3, <2>4, Counters DEF RetryDelivery, TypeOK
<1> QED BY <1>1, <1>3, <1>4, <1>5, <1>6, <1>7

LEMMA TypeStep ==
  ASSUME TypeOK, Owned, [Next]_vars
  PROVE  TypeOK' /\ Owned'
<1>1. CASE UNCHANGED vars
  BY <1>1 DEF vars, TypeOK, Owned
<1>2. ASSUME NEW j \in Events, RecoverStaleLocks(j) PROVE TypeOK' /\ Owned'
  <2>1. jobs' \in [Events -> Job] /\ \A k \in Events : k # j => jobs'[k] = jobs[k]
    BY <1>2, RowTypes DEF RecoverStaleLocks, TypeOK
  <2>2. Owned'
    BY <1>2, <2>1 DEF RecoverStaleLocks, Owned
  <2> QED BY <1>2, <2>1, <2>2 DEF RecoverStaleLocks, TypeOK
<1>3. ASSUME NEW j \in Events, NEW m \in Modes, Enqueue(j, m) PROVE TypeOK' /\ Owned'
  <2>1. /\ jobs' \in [Events -> Job] /\ jobs[j].status = "absent"
        /\ \A k \in Events : k # j => jobs'[k] = jobs[k]
    BY <1>3, BirthTypes DEF Enqueue
  <2>2. Owned'
    BY <1>3, <2>1, StandingStill DEF Enqueue, Running
  <2> QED BY <1>3, <2>1, <2>2 DEF Enqueue, TypeOK
<1>4. CASE \E w \in Workers : Work(w)
  BY <1>4, WorkTypes
<1>5. CASE Tenant
  BY <1>5, TenantTypes
<1>6. CASE FailuresAge
  <2>1. /\ deliveries' \in [Events -> [Endpoints -> Counts]]
        /\ \A j \in Events, e \in Endpoints :
             deliveries'[j][e]["pending"] = deliveries[j][e]["pending"]
    BY <1>6, Aged
  <2>2. Owned'
    BY <1>6, <2>1, StandingStill DEF FailuresAge
  <2> QED BY <1>6, <2>1, <2>2, Counters DEF FailuresAge, TypeOK, Counts
<1>7. ASSUME NEW e \in Endpoints, TurnOver(e) PROVE TypeOK' /\ Owned'
  BY <1>7, StandingStill, Counters DEF TurnOver, TypeOK
<1> QED BY <1>1, <1>2, <1>3, <1>4, <1>5, <1>6, <1>7 DEF Next

LEMMA TypeInit == Init => TypeOK /\ Owned
<1> SUFFICES ASSUME Init PROVE TypeOK /\ Owned
  OBVIOUS
<1>1. endpoints \in [Endpoints -> Endpoint]
  BY RowTypes DEF Init
<1>2. jobs \in [Events -> Job] /\ origin \in [Events -> Modes \cup {None}]
  BY RowTypes DEF Init
<1>3. deliveries \in [Events -> [Endpoints -> Counts]]
  BY Nothing DEF Init
<1>4. workers \in [Workers -> Worker] /\ \A w \in Workers : workers[w].at = "idle"
  BY RowTypes DEF Init
<1>5. awaiting \in [Events -> SUBSET Endpoints] /\ up \subseteq Endpoints /\ reenabled \subseteq Endpoints
  BY DEF Init
<1>6. TypeOK
  BY <1>1, <1>2, <1>3, <1>4, <1>5 DEF Init, TypeOK, Counts
<1> QED BY <1>4, <1>6 DEF Owned

LEMMA InductiveInvariant == Spec => [](TypeOK /\ Owned)
<1>1. TypeOK /\ Owned /\ [Next]_vars => (TypeOK /\ Owned)'
  BY TypeStep
<1> QED BY <1>1, TypeInit, PTL DEF Spec

(* Every variable holds what its column or Go type can hold; in particular *)
(* no row of webhook_deliveries is marked that is not there, whoever       *)
(* retries, crashes or sweeps.                                             *)
THEOREM TypeCorrect == Spec => []TypeOK
BY InductiveInvariant, PTL

-----------------------------------------------------------------------------
(* What each step does to workers, jobs and rows.                          *)

RowsKept == \A j \in Events, e \in Endpoints : Rows(j, e)' = Rows(j, e)

OtherJobsKept(j) == \A k \in Events : k # j => jobs'[k] = jobs[k]

LEMMA KeepingRows ==
  ASSUME UNCHANGED deliveries
  PROVE  RowsKept
BY DEF RowsKept, Rows

LEMMA ClaimDoes ==
  ASSUME TypeOK, Owned, NEW w \in Workers, NEW j \in Events, Claim(w, j)
  PROVE  /\ OthersRest(w) /\ workers'[w].at = "list"
         /\ workers'[w].job = j /\ workers'[w].todo = {}
         /\ OtherJobsKept(j) /\ jobs[j].status = "pending"
         /\ jobs'[j].status = "processing" /\ jobs'[j].mode = jobs[j].mode
         /\ \A v \in Workers : workers[v].at # "idle" => workers[v].job # j
         /\ awaiting'[j] = Listed(jobs[j].mode)
         /\ \A k \in Events : k # j => awaiting'[k] = awaiting[k]
         /\ RowsKept /\ UNCHANGED <<endpoints, faults>>
<1>1. jobs[j] \in Job /\ jobs' = [jobs EXCEPT ![j] = Claimed(jobs[j])]
  BY DEF Claim, TypeOK
<1>2. OtherJobsKept(j) /\ jobs'[j].status = "processing" /\ jobs'[j].mode = jobs[j].mode
  BY <1>1, RowTypes DEF OtherJobsKept, TypeOK
<1>3. jobs[j].status = "pending"
  BY DEF Claim, Claimable
<1>4. \A v \in Workers : workers[v].at # "idle" => workers[v].job # j
  BY <1>3 DEF Owned, Running
<1>5. awaiting'[j] = Listed(jobs[j].mode) /\ \A k \in Events : k # j => awaiting'[k] = awaiting[k]
  BY DEF Claim, TypeOK
<1> QED BY <1>2, <1>3, <1>4, <1>5, Starting, KeepingRows DEF Claim

LEMMA InlineDoes ==
  ASSUME TypeOK, NEW w \in Workers, NEW j \in Events, NEW m \in Modes, DispatchInline(w, j, m)
  PROVE  /\ OthersRest(w) /\ workers'[w].todo = {}
         /\ OtherJobsKept(j) /\ jobs[j].status = "absent" /\ jobs'[j].status = "inline"
         /\ RowsKept /\ UNCHANGED endpoints /\ faults' # 0
BY Starting, BirthTypes, KeepingRows, Counters DEF DispatchInline, OtherJobsKept

LEMMA EnqueueDoes ==
  ASSUME TypeOK, NEW j \in Events, NEW m \in Modes, Born(j, m, "pending")
  PROVE  OtherJobsKept(j) /\ jobs[j].status = "absent" /\ jobs'[j].status = "pending"
BY BirthTypes DEF OtherJobsKept

LEMMA DispatchDoes ==
  ASSUME TypeOK, Owned, NEW w \in Workers, Dispatch(w)
  PROVE  /\ GoesOn(w, "next") /\ workers[w].at = "list"
         /\ workers'[w].todo = Listed(jobs[workers[w].job].mode)
         /\ RowsKept /\ UNCHANGED <<jobs, endpoints, awaiting, faults>>
<1>1. PICK todo \in SUBSET Endpoints :
        /\ todo = Listed(jobs[workers[w].job].mode)
        /\ workers' = [workers EXCEPT ![w].at = "next", ![w].todo = todo]
  BY DEF Dispatch, Listed
<1>2. GoesOn(w, "next") /\ workers'[w].todo = todo
  BY <1>1, Listing
<1> QED BY <1>1, <1>2, KeepingRows DEF Dispatch, Stands

(* ListFails, Finish and Crash: the worker leaves its job.                 *)
LEMMA EndDoes ==
  ASSUME TypeOK, Owned, NEW w \in Workers, ListFails(w) \/ Finish(w) \/ Crash(w)
  PROVE  /\ OthersRest(w) /\ workers'[w].at = "idle" /\ workers[w].at # "idle"
         /\ workers[w].job \in Events /\ OtherJobsKept(workers[w].job)
         /\ jobs'[workers[w].job].status # "absent"
         /\ jobs'[workers[w].job].mode = jobs[workers[w].job].mode
         /\ jobs[workers[w].job].status = "processing" /\ faults' = 0 =>
              jobs'[workers[w].job].status = "done"
         /\ jobs'[workers[w].job].status \in {"pending", "processing"} => faults' # 0
         /\ faults' = 0 => faults = 0 /\ workers[w].at = "next" /\ workers[w].todo = {}
         /\ RowsKept /\ UNCHANGED <<endpoints, awaiting>>
<1> DEFINE j == workers[w].job
<1>1. /\ workers' = [workers EXCEPT ![w] = IdleWorker] /\ workers[w].at # "idle"
      /\ UNCHANGED <<deliveries, endpoints, awaiting>>
  BY DEF ListFails, Finish, Crash, Stands
<1>2. OthersRest(w) /\ workers'[w].at = "idle"
  BY <1>1, Idling
<1>3. j \in Events /\ jobs[j] \in Job /\ jobs[j].status \in Running
  BY <1>1 DEF Owned, TypeOK
<1>4. \/ Finish(w) /\ jobs[j].status = "inline" /\ jobs' = jobs
      \/ Finish(w) /\ jobs[j].status # "inline" /\ jobs' = [jobs EXCEPT ![j] = MarkedDone(jobs[j])]
      \/ ~Finish(w) /\ Fault /\ jobs' = jobs
      \/ ~Finish(w) /\ Fault /\ jobs' = [jobs EXCEPT ![j] = MarkedFailed(jobs[j])]
  BY <1>3 DEF Finish, ListFails, Crash, TypeOK
<1>5. Finish(w) => faults' = faults /\ workers[w].at = "next" /\ workers[w].todo = {}
  BY DEF Finish, Stands
<1>6. Fault => faults' # 0
  BY Counters
<1>7. OtherJobsKept(j) /\ jobs'[j].mode = jobs[j].mode
  BY <1>3, <1>4, RowTypes DEF OtherJobsKept, TypeOK
<1>8. CASE Finish(w)
  <2>1. \/ jobs[j].status = "inline" /\ jobs'[j].status = "inline"
        \/ jobs[j].status = "processing" /\ jobs'[j].status = "done"
    BY <1>3, <1>4, <1>8, RowTypes DEF Running, TypeOK
  <2> QED BY <1>1, <1>2, <1>3, <1>5, <1>7, <1>8, <2>1, KeepingRows
<1>9. CASE ~Finish(w)
  <2>1. jobs'[j].status \in {"processing", "inline", "failed"}
    BY <1>3, <1>4, <1>9, RowTypes DEF Running, TypeOK
  <2>2. faults' # 0
    BY <1>4, <1>6, <1>9
  <2> QED BY <1>1, <1>2, <1>3, <1>7, <2>1, <2>2, KeepingRows
<1> QED BY <1>8, <1>9

LEMMA CreateDoes ==
  ASSUME TypeOK, Owned, NEW w \in Workers, NEW e \in Endpoints, CreateDelivery(w, e),
         NEW j \in Events, j = workers[w].job
  PROVE  /\ GoesOn(w, "send") /\ workers'[w].todo = workers[w].todo \ {e}
         /\ workers[w].at = "next" /\ e \in workers[w].todo
         /\ Rows(j, e)' = Rows(j, e) + 1
         /\ \A k \in Events, x \in Endpoints : k # j \/ x # e => Rows(k, x)' = Rows(k, x)
         /\ UNCHANGED <<jobs, endpoints, awaiting, faults>>
<1>1. GoesOn(w, "send") /\ workers'[w].todo = workers[w].todo \ {e}
  BY Sending DEF CreateDelivery
<1>2. Rows(j, e)' = Rows(j, e) + 1 /\ CountsElsewhere(j, e)
  BY Inserting DEF CreateDelivery
<1>3. \A k \in Events, x \in Endpoints : k # j \/ x # e => Rows(k, x)' = Rows(k, x)
  BY <1>2, RowsAreAll DEF CountsElsewhere
<1> QED BY <1>1, <1>2, <1>3 DEF CreateDelivery, Stands

LEMMA SkipDoes ==
  ASSUME TypeOK, NEW w \in Workers, NEW e \in Endpoints, SkipDelivery(w, e)
  PROVE  /\ GoesOn(w, "next") /\ workers[w].at = "next" /\ workers'[w].todo = workers[w].todo \ {e}
         /\ RowsKept /\ faults' # 0 /\ UNCHANGED <<jobs, endpoints>>
BY Skipping, KeepingRows, Counters DEF SkipDelivery, Stands

(* Succeed, Fail, CheckCircuitBreaker, DisableEndpoint and LoseUpdate: the *)
(* worker goes on with the same list.                                      *)
LEMMA AnswerDoes ==
  ASSUME TypeOK, Owned, NEW w \in Workers,
         Succeed(w) \/ Fail(w) \/ CheckCircuitBreaker(w) \/ DisableEndpoint(w) \/ LoseUpdate(w)
  PROVE  /\ workers[w].at \in {"send", "count", "disable"}
         /\ \E at \in {"next", "count", "disable"} : GoesOn(w, at)
         /\ workers'[w].todo = workers[w].todo
         /\ RowsKept /\ UNCHANGED jobs /\ (faults' = 0 => faults = 0)
         /\ \/ UNCHANGED <<endpoints, awaiting>>
            \/ workers[w].on \in Endpoints /\ SwitchedOff(workers[w].on)
<1>1. PICK at \in {"next", "count", "disable"} : Goto(w, at)
  BY DEF Succeed, Fail, CheckCircuitBreaker, DisableEndpoint, LoseUpdate
<1>2. GoesOn(w, at) /\ workers'[w].todo = workers[w].todo
  BY <1>1, Going DEF WorkerAt
<1>3. workers[w].at \in {"send", "count", "disable"} /\ workers[w].on \in Endpoints
  BY DEF Succeed, Fail, CheckCircuitBreaker, DisableEndpoint, LoseUpdate, Stands, Owned
<1>4. RowsKept
  <2>1. CASE Succeed(w) \/ Fail(w)
    BY <2>1, Marking DEF Succeed, Fail, Stands, RowsKept
  <2>2. CASE CheckCircuitBreaker(w) \/ DisableEndpoint(w) \/ LoseUpdate(w)
    BY <2>2, KeepingRows DEF CheckCircuitBreaker, DisableEndpoint, LoseUpdate
  <2> QED BY <2>1, <2>2
<1>5. /\ \/ UNCHANGED <<endpoints, awaiting>>
         \/ SwitchedOff(workers[w].on)
      /\ UNCHANGED jobs
  BY DEF Succeed, Fail, CheckCircuitBreaker, DisableEndpoint, LoseUpdate
<1>6. faults' = 0 => faults = 0
  BY Counters DEF Succeed, Fail, CheckCircuitBreaker, DisableEndpoint, LoseUpdate
<1> QED BY <1>2, <1>3, <1>4, <1>5, <1>6

LEMMA SweepDoes ==
  ASSUME TypeOK, NEW j \in Events, RecoverStaleLocks(j)
  PROVE  /\ OtherJobsKept(j) /\ jobs[j].status = "processing"
         /\ jobs'[j].status = "pending" /\ jobs'[j].mode = jobs[j].mode
         /\ \A w \in Workers : workers[w].job # j
         /\ RowsKept /\ UNCHANGED <<endpoints, workers, awaiting, faults>>
BY RowTypes, KeepingRows DEF RecoverStaleLocks, TypeOK, OtherJobsKept, Recoverable

(* What the tenant does to an endpoint.                                    *)
LEMMA ChangeDoes ==
  ASSUME TypeOK, NEW e \in Endpoints,
         \/ \E m \in Modes : CreateEndpoint(e, m)
         \/ InsertEndpoint(e) \/ DeleteEndpoint(e)
         \/ \E active, subscribed \in BOOLEAN : UpdateEndpoint(e, active, subscribed)
  PROVE  /\ RowsKept /\ UNCHANGED <<jobs, workers, faults>>
         /\ \A x \in Endpoints : x # e => endpoints'[x] = endpoints[x]
         /\ endpoints[e].row = "there" =>
              endpoints'[e].row = "there" /\ endpoints'[e].mode = endpoints[e].mode
         /\ endpoints'[e].active => endpoints'[e].row = "there" \/ endpoints[e].active
         /\ \A j \in Events :
              /\ awaiting'[j] \subseteq awaiting[j]
              /\ \/ endpoints[e].row # "there"
                 \/ e \notin awaiting'[j]
                 \/ endpoints'[e].active /\ endpoints'[e].subscribed
<1>1. RowsKept /\ UNCHANGED <<jobs, workers, faults>>
  BY KeepingRows DEF CreateEndpoint, InsertEndpoint, DeleteEndpoint, UpdateEndpoint
<1>2. CASE \E m \in Modes : CreateEndpoint(e, m)
  <2>1. PICK m \in Modes : CreateEndpoint(e, m)
    BY <1>2
  <2>2. \A x \in Endpoint : [x EXCEPT !.row = "checked", !.mode = m].active = x.active
    BY DEF Endpoint
  <2>3. endpoints' = [endpoints EXCEPT ![e] = [endpoints[e] EXCEPT !.row = "checked", !.mode = m]]
        /\ endpoints[e].row = "absent" /\ UNCHANGED awaiting
    BY <2>1 DEF CreateEndpoint, TypeOK
  <2>4. endpoints'[e].active = endpoints[e].active
    BY <2>2, <2>3 DEF TypeOK
  <2> QED BY <1>1, <2>3, <2>4 DEF TypeOK
<1>3. CASE InsertEndpoint(e)
  BY <1>1, <1>3, RowTypes DEF InsertEndpoint, TypeOK, Endpoint
<1>4. CASE DeleteEndpoint(e)
  <2>1. \A j \in Events : awaiting'[j] = awaiting[j] \ {e}
    BY <1>4 DEF DeleteEndpoint, SwitchedOff
  <2> QED BY <1>1, <1>4, <2>1, SwitchingOff DEF DeleteEndpoint
<1>5. CASE \E active, subscribed \in BOOLEAN : UpdateEndpoint(e, active, subscribed)
  <2>1. PICK active \in BOOLEAN, subscribed \in BOOLEAN : UpdateEndpoint(e, active, subscribed)
    BY <1>5
  <2>2. \A x \in Endpoint :
          LET new == [x EXCEPT !.active = active, !.subscribed = subscribed]
          IN  /\ new.active = active /\ new.subscribed = subscribed
              /\ new.row = x.row /\ new.mode = x.mode
    BY DEF Endpoint
  <2>3. /\ endpoints' = [endpoints EXCEPT ![e] = Updated(endpoints[e], active, subscribed)]
        /\ endpoints[e].row = "there"
    BY <2>1 DEF UpdateEndpoint, TypeOK
  <2>4. /\ endpoints'[e].active = active /\ endpoints'[e].subscribed = subscribed
        /\ endpoints'[e].row = endpoints[e].row /\ endpoints'[e].mode = endpoints[e].mode
        /\ \A x \in Endpoints : x # e => endpoints'[x] = endpoints[x]
    BY <2>2, <2>3 DEF Updated, TypeOK
  <2>5. \A j \in Events : awaiting'[j] \subseteq awaiting[j]
                          /\ (e \notin awaiting'[j] \/ (active /\ subscribed))
    <3>1. CASE active /\ subscribed
      BY <2>1, <3>1 DEF UpdateEndpoint
    <3>2. CASE ~(active /\ subscribed)
      <4>1. awaiting' = [j \in Events |-> awaiting[j] \ {e}]
        BY <2>1, <3>2 DEF UpdateEndpoint
      <4>2. \A j \in Events : awaiting'[j] \subseteq awaiting[j] /\ e \notin awaiting'[j]
        BY <4>1
      <4> QED BY <4>2
    <3> QED BY <3>1, <3>2
  <2> QED BY <1>1, <2>3, <2>4, <2>5
<1> QED BY <1>2, <1>3, <1>4, <1>5

-----------------------------------------------------------------------------
(* Modes.                                                                  *)

(* A worker goes through endpoints of the mode of its job, and a row is    *)
(* there for such endpoints only: neither mode ever changes.               *)
Placed ==
  /\ \A e \in Endpoints : endpoints[e].active => endpoints[e].row = "there"
  /\ \A w \in Workers : workers[w].at # "idle" => \A e \in workers[w].todo :
       endpoints[e].row = "there" /\ endpoints[e].mode = jobs[workers[w].job].mode
  /\ \A j \in Events, e \in Endpoints : Rows(j, e) > 0 =>
       /\ jobs[j].status # "absent"
       /\ endpoints[e].row = "there" /\ endpoints[e].mode = jobs[j].mode

(* What remains to be shown of a step of w.                                *)
LEMMA PlacedStep ==
  ASSUME TypeOK, Owned, Placed, NEW w \in Workers, OthersRest(w),
         \A e \in Endpoints : endpoints[e].row = "there" =>
           endpoints'[e].row = "there" /\ endpoints'[e].mode = endpoints[e].mode,
         \A e \in Endpoints : endpoints'[e].active => endpoints[e].active,
         \A j \in Events : jobs[j].status # "absent" =>
           jobs'[j].status # "absent" /\ jobs'[j].mode = jobs[j].mode,
         workers'[w].at # "idle" => workers'[w].todo \subseteq Endpoints /\
           \A e \in workers'[w].todo :
             endpoints[e].row = "there" /\ endpoints[e].mode = jobs'[workers'[w].job].mode,
         \A j \in Events, e \in Endpoints : Rows(j, e)' > 0 =>
           \/ Rows(j, e) > 0
           \/ workers[w].at # "idle" /\ workers[w].job = j /\ e \in workers[w].todo
  PROVE  Placed'
<1>1. \A e \in Endpoints : endpoints'[e].active => endpoints'[e].row = "there"
  BY DEF Placed
<1>2. ASSUME NEW v \in Workers, workers'[v].at # "idle", NEW e \in workers'[v].todo
      PROVE  endpoints'[e].row = "there" /\ endpoints'[e].mode = jobs'[workers'[v].job].mode
  <2>1. CASE v = w
    BY <1>2, <2>1
  <2>2. CASE v # w
    <3>1. workers'[v] = workers[v] /\ e \in Endpoints /\ workers[v].job \in Events
          /\ jobs[workers[v].job].status # "absent"
      BY <1>2, <2>2 DEF OthersRest, TypeOK, Worker, Owned, Running
    <3> QED BY <1>2, <3>1 DEF Placed
  <2> QED BY <2>1, <2>2
<1>3. ASSUME NEW j \in Events, NEW e \in Endpoints, Rows(j, e)' > 0
      PROVE  /\ jobs'[j].status # "absent"
             /\ endpoints'[e].row = "there" /\ endpoints'[e].mode = jobs'[j].mode
  BY <1>3 DEF Placed, Owned, Running
<1> QED BY <1>1, <1>2, <1>3 DEF Placed

(* Nobody moves.                                                           *)
LEMMA PlacedStands ==
  ASSUME TypeOK, Owned, Placed, UNCHANGED workers, RowsKept,
         \A e \in Endpoints : endpoints[e].row = "there" =>
           endpoints'[e].row = "there" /\ endpoints'[e].mode = endpoints[e].mode,
         \A e \in Endpoints : endpoints'[e].active => endpoints[e].active \/ endpoints'[e].row = "there",
         \A j \in Events : jobs[j].status # "absent" =>
           jobs'[j].status # "absent" /\ jobs'[j].mode = jobs[j].mode
  PROVE  Placed'
<1>1. \A e \in Endpoints : endpoints'[e].active => endpoints'[e].row = "there"
  BY DEF Placed
<1>2. ASSUME NEW v \in Workers, workers[v].at # "idle", NEW e \in workers[v].todo
      PROVE  endpoints'[e].row = "there" /\ endpoints'[e].mode = jobs'[workers[v].job].mode
  <2>1. e \in Endpoints /\ workers[v].job \in Events /\ jobs[workers[v].job].status # "absent"
    BY <1>2 DEF TypeOK, Worker, Owned, Running
  <2> QED BY <1>2, <2>1 DEF Placed
<1>3. ASSUME NEW j \in Events, NEW e \in Endpoints, Rows(j, e)' > 0
      PROVE  /\ jobs'[j].status # "absent"
             /\ endpoints'[e].row = "there" /\ endpoints'[e].mode = jobs'[j].mode
  BY <1>3 DEF Placed, RowsKept
<1> QED BY <1>1, <1>2, <1>3 DEF Placed

LEMMA WorkPlaced ==
  ASSUME TypeOK, Owned, Placed, NEW w \in Workers, Work(w)
  PROVE  Placed'
<1>0. /\ \A e \in Endpoints : endpoints[e].active => endpoints[e].row = "there"
      /\ workers[w].at # "idle" => /\ workers[w].job \in Events /\ workers[w].todo \subseteq Endpoints
                                   /\ jobs[workers[w].job].status # "absent"
  BY DEF Placed, Owned, TypeOK, Worker, Running
<1>1. ASSUME NEW j \in Events, Claim(w, j) PROVE Placed'
  BY <1>1, ClaimDoes, PlacedStep DEF OtherJobsKept, RowsKept
<1>2. ASSUME NEW j \in Events, NEW m \in Modes, DispatchInline(w, j, m) PROVE Placed'
  BY <1>2, InlineDoes, PlacedStep DEF OtherJobsKept, RowsKept
<1>3. CASE Dispatch(w)
  <2>1. \A e \in Listed(jobs[workers[w].job].mode) :
          e \in Endpoints /\ endpoints[e].row = "there" /\ endpoints[e].mode = jobs[workers[w].job].mode
    BY <1>0 DEF Listed, Subscribed
  <2> QED BY <1>3, <2>1, DispatchDoes, PlacedStep DEF GoesOn, RowsKept
<1>4. CASE ListFails(w) \/ Finish(w) \/ Crash(w)
  BY <1>4, EndDoes, PlacedStep DEF OtherJobsKept, RowsKept
<1>5. ASSUME NEW e \in Endpoints, CreateDelivery(w, e) PROVE Placed'
  <2>1. PICK j \in Events : j = workers[w].job /\ workers[w].at = "next"
    BY <1>0, <1>5 DEF CreateDelivery, Stands
  <2>2. /\ GoesOn(w, "send") /\ workers'[w].todo = workers[w].todo \ {e} /\ e \in workers[w].todo
        /\ \A k \in Events, x \in Endpoints : k # j \/ x # e => Rows(k, x)' = Rows(k, x)
        /\ UNCHANGED <<jobs, endpoints, awaiting, faults>>
    BY <1>5, <2>1, CreateDoes
  <2>3. \A x \in workers[w].todo : endpoints[x].row = "there" /\ endpoints[x].mode = jobs[j].mode
    BY <2>1 DEF Placed
  <2> QED BY <1>0, <2>1, <2>2, <2>3, PlacedStep DEF GoesOn
<1>6. ASSUME NEW e \in Endpoints, SkipDelivery(w, e) PROVE Placed'
  <2>1. \A x \in workers[w].todo :
          workers[w].at # "idle" =>
            endpoints[x].row = "there" /\ endpoints[x].mode = jobs[workers[w].job].mode
    BY DEF Placed
  <2> QED BY <1>0, <1>6, <2>1, SkipDoes, PlacedStep DEF GoesOn, RowsKept
<1>7. CASE Succeed(w) \/ Fail(w) \/ CheckCircuitBreaker(w) \/ DisableEndpoint(w) \/ LoseUpdate(w)
  <2>1. \A x \in workers[w].todo :
          workers[w].at # "idle" =>
            endpoints[x].row = "there" /\ endpoints[x].mode = jobs[workers[w].job].mode
    BY DEF Placed
  <2>2. \A e \in Endpoints :
          /\ endpoints[e].row = "there" =>
               endpoints'[e].row = "there" /\ endpoints'[e].mode = endpoints[e].mode
          /\ endpoints'[e].active => endpoints[e].active
    BY <1>7, AnswerDoes, SwitchingOff
  <2> QED BY <1>0, <1>7, <2>1, <2>2, AnswerDoes, PlacedStep DEF GoesOn, RowsKept
<1> QED BY <1>1, <1>2, <1>3, <1>4, <1>5, <1>6, <1>7 DEF Work

LEMMA PlacedNext ==
  ASSUME TypeOK, Owned, Placed, [Next]_vars
  PROVE  Placed'
<1>1. CASE UNCHANGED vars
  BY <1>1 DEF vars, Placed, Rows
<1>2. ASSUME NEW j \in Events, RecoverStaleLocks(j) PROVE Placed'
  BY <1>2, SweepDoes, PlacedStands DEF OtherJobsKept
<1>3. ASSUME NEW j \in Events, NEW m \in Modes, Enqueue(j, m) PROVE Placed'
  BY <1>3, EnqueueDoes, KeepingRows, PlacedStands DEF Enqueue, OtherJobsKept
<1>4. CASE \E w \in Workers : Work(w)
  BY <1>4, WorkPlaced
<1>5. ASSUME NEW e \in Endpoints,
             \/ \E m \in Modes : CreateEndpoint(e, m)
             \/ InsertEndpoint(e) \/ DeleteEndpoint(e)
             \/ \E active, subscribed \in BOOLEAN : UpdateEndpoint(e, active, subscribed)
      PROVE  Placed'
  BY <1>5, ChangeDoes, PlacedStands
<1>6. ASSUME NEW e \in Endpoints, NEW j \in Events, NEW k \in Events, NEW m \in Modes,
             RetryDelivery(j, e, k, m)
      PROVE  Placed'
  BY <1>6, EnqueueDoes, KeepingRows, PlacedStands DEF RetryDelivery, OtherJobsKept
<1>7. CASE FailuresAge
  BY <1>7, Aged, PlacedStands DEF FailuresAge, RowsKept
<1>8. ASSUME NEW e \in Endpoints, TurnOver(e) PROVE Placed'
  BY <1>8, KeepingRows, PlacedStands DEF TurnOver
<1> QED BY <1>1, <1>2, <1>3, <1>4, <1>5, <1>6, <1>7, <1>8 DEF Next, Tenant

LEMMA PlacedInit == Init => Placed
<1> SUFFICES ASSUME Init PROVE Placed
  OBVIOUS
<1>1. \A e \in Endpoints : endpoints[e].active => endpoints[e].row = "there"
  BY RowTypes DEF Init
<1>2. \A w \in Workers : workers[w].at = "idle"
  BY RowTypes DEF Init
<1>3. \A j \in Events, e \in Endpoints : Rows(j, e) = 0
  BY Nothing, RowsAreAll DEF Init
<1> QED BY <1>1, <1>2, <1>3 DEF Placed

LEMMA PlacedInvariant == Spec => [](TypeOK /\ Owned /\ Placed)
<1>1. TypeOK /\ Owned /\ Placed /\ [Next]_vars => Placed'
  BY PlacedNext
<1> QED BY <1>1, PlacedInit, InductiveInvariant, PTL DEF Spec

(* ModesApart, however long the tenant's list and whatever he changes      *)
(* while Dispatch goes through it: no statement changes the mode of an     *)
(* endpoint or of a job, so a list read long ago still holds endpoints of  *)
(* the right mode.                                                         *)
THEOREM ModesStayApart == Spec => []ModesApart
<1>1. Placed => ModesApart
  BY DEF Placed, ModesApart
<1> QED BY <1>1, PlacedInvariant, PTL

-----------------------------------------------------------------------------
(* Once.                                                                   *)

(* No lock is stale, a job that nobody runs has no rows yet, and neither   *)
(* have the endpoints that are left on the list of a worker.               *)
OnceInv ==
  /\ \A j \in Events : jobs[j].status = "processing" =>
       \E w \in Workers : workers[w].at # "idle" /\ workers[w].job = j
  /\ \A j \in Events, e \in Endpoints : Rows(j, e) \in {0, 1}
  /\ \A j \in Events, e \in Endpoints : jobs[j].status = "pending" => Rows(j, e) = 0
  /\ \A w \in Workers, e \in Endpoints :
       /\ workers[w].at = "list" => Rows(workers[w].job, e) = 0
       /\ workers[w].at # "idle" /\ e \in workers[w].todo => Rows(workers[w].job, e) = 0

(* A step of w that adds no row.                                           *)
LEMMA OnceKept ==
  ASSUME TypeOK, Owned, OnceInv, NEW w \in Workers, OthersRest(w), RowsKept,
         NEW j \in Events,
         workers[w].at # "idle" => workers[w].job = j,
         workers'[w].at # "idle" => workers'[w].job = j,
         OtherJobsKept(j),
         jobs'[j].status = "processing" => workers'[w].at # "idle",
         jobs'[j].status = "pending" => jobs[j].status = "pending",
         workers'[w].at = "list" => \A e \in Endpoints : Rows(j, e) = 0,
         \A e \in Endpoints : workers'[w].at # "idle" /\ e \in workers'[w].todo => Rows(j, e) = 0
  PROVE  OnceInv'
<1>1. ASSUME NEW k \in Events, jobs'[k].status = "processing"
      PROVE  \E v \in Workers : workers'[v].at # "idle" /\ workers'[v].job = k
  <2>1. CASE k = j
    BY <1>1, <2>1
  <2>2. CASE k # j
    <3>1. PICK v \in Workers : workers[v].at # "idle" /\ workers[v].job = k
      BY <1>1, <2>2 DEF OtherJobsKept, OnceInv
    <3>2. v # w
      BY <2>2, <3>1
    <3> QED BY <3>1, <3>2 DEF OthersRest
  <2> QED BY <2>1, <2>2
<1>2. \A k \in Events, e \in Endpoints : Rows(k, e)' \in {0, 1}
  BY DEF OnceInv, RowsKept
<1>3. \A k \in Events, e \in Endpoints : jobs'[k].status = "pending" => Rows(k, e)' = 0
  BY DEF OnceInv, RowsKept, OtherJobsKept
<1>4. ASSUME NEW v \in Workers, NEW e \in Endpoints, workers'[v].at # "idle"
      PROVE  workers'[v].at = "list" \/ e \in workers'[v].todo =>
               \A k \in Events : k = workers'[v].job => Rows(k, e)' = 0
  <2>1. CASE v = w
    BY <1>4, <2>1 DEF RowsKept
  <2>2. CASE v # w
    BY <1>4, <2>2 DEF OthersRest, OnceInv, RowsKept, Owned
  <2> QED BY <2>1, <2>2
<1>5. \A v \in Workers : workers'[v].at # "idle" => workers'[v].job \in Events
  BY DEF OthersRest, Owned
<1>6. ASSUME NEW v \in Workers, NEW e \in Endpoints
      PROVE  /\ workers'[v].at = "list" => Rows(workers[v].job, e)' = 0
             /\ workers'[v].at # "idle" /\ e \in workers'[v].todo => Rows(workers[v].job, e)' = 0
  BY <1>4, <1>5 DEF Rows
<1> QED BY <1>1, <1>2, <1>3, <1>6 DEF OnceInv

LEMMA OnceStands ==
  ASSUME TypeOK, Owned, OnceInv, UNCHANGED workers, RowsKept,
         \A j \in Events : jobs'[j].status = "processing" => jobs[j].status = "processing",
         \A j \in Events : jobs'[j].status = "pending" =>
           \/ jobs[j].status = "pending"
           \/ \A e \in Endpoints : Rows(j, e) = 0
  PROVE  OnceInv'
<1>1. \A k \in Events, e \in Endpoints : Rows(k, e)' \in {0, 1}
  BY DEF OnceInv, RowsKept
<1>2. \A k \in Events, e \in Endpoints : jobs'[k].status = "pending" => Rows(k, e)' = 0
  BY DEF OnceInv, RowsKept
<1>3. ASSUME NEW v \in Workers, NEW e \in Endpoints
      PROVE  /\ workers'[v].at = "list" => Rows(workers[v].job, e)' = 0
             /\ workers'[v].at # "idle" /\ e \in workers'[v].todo => Rows(workers[v].job, e)' = 0
  <2>1. CASE workers[v].at # "idle"
    <3>1. PICK k \in Events : k = workers[v].job
      BY <2>1 DEF Owned
    <3>2. workers[v].at = "list" \/ e \in workers[v].todo => Rows(k, e) = 0
      BY <2>1, <3>1 DEF OnceInv
    <3>3. Rows(k, e)' = Rows(k, e) /\ workers'[v] = workers[v]
      BY DEF RowsKept
    <3>4. Rows(workers[v].job, e)' = Rows(k, e)'
      BY <3>1, <3>3 DEF Rows
    <3> QED BY <3>2, <3>3, <3>4
  <2>2. CASE workers[v].at = "idle"
    BY <2>2
  <2> QED BY <2>1, <2>2
<1> QED BY <1>1, <1>2, <1>3 DEF OnceInv

LEMMA WorkOnce ==
  ASSUME TypeOK, Owned, OnceInv, faults' = 0, NEW w \in Workers, Work(w)
  PROVE  OnceInv'
<1>0. workers[w].at # "idle" => workers[w].job \in Events
  BY DEF Owned
<1>1. ASSUME NEW j \in Events, Claim(w, j) PROVE OnceInv'
  <2>1. workers[w].at = "idle"
    BY <1>1 DEF Claim, Stands
  <2>2. \A e \in Endpoints : Rows(j, e) = 0
    BY <1>1, ClaimDoes DEF OnceInv
  <2> QED BY <1>1, <2>1, <2>2, ClaimDoes, OnceKept
<1>2. ASSUME NEW j \in Events, NEW m \in Modes, DispatchInline(w, j, m) PROVE FALSE
  BY <1>2, InlineDoes
<1>3. CASE Dispatch(w)
  <2>1. PICK j \in Events : j = workers[w].job
    BY <1>0, <1>3, DispatchDoes
  <2>2. \A e \in Endpoints : Rows(j, e) = 0
    BY <1>3, <2>1, DispatchDoes DEF OnceInv
  <2>3. GoesOn(w, "next") /\ workers[w].at = "list" /\ RowsKept /\ UNCHANGED jobs
    BY <1>3, DispatchDoes
  <2>4. jobs[j].status = "processing" => workers'[w].at # "idle"
    BY <2>3 DEF GoesOn
  <2> QED BY <2>1, <2>2, <2>3, <2>4, OnceKept DEF GoesOn, OtherJobsKept
<1>4. CASE ListFails(w) \/ Finish(w) \/ Crash(w)
  <2>1. PICK j \in Events : j = workers[w].job
    BY <1>4, EndDoes
  <2> QED BY <1>4, <2>1, EndDoes, OnceKept
<1>5. ASSUME NEW e \in Endpoints, CreateDelivery(w, e) PROVE OnceInv'
  <2>1. PICK j \in Events : j = workers[w].job /\ workers[w].at = "next"
    BY <1>0, <1>5 DEF CreateDelivery, Stands
  <2>2. /\ GoesOn(w, "send") /\ workers'[w].todo = workers[w].todo \ {e}
        /\ e \in workers[w].todo /\ Rows(j, e)' = Rows(j, e) + 1
        /\ \A k \in Events, x \in Endpoints : k # j \/ x # e => Rows(k, x)' = Rows(k, x)
        /\ UNCHANGED <<jobs, endpoints, awaiting, faults>>
    BY <1>5, <2>1, CreateDoes
  <2>3. Rows(j, e) = 0 /\ jobs[j].status # "pending"
    BY <2>1, <2>2 DEF OnceInv, Owned, Running
  <2>4. ASSUME NEW k \in Events, jobs'[k].status = "processing"
        PROVE  \E v \in Workers : workers'[v].at # "idle" /\ workers'[v].job = k
    <3>1. PICK v \in Workers : workers[v].at # "idle" /\ workers[v].job = k
      BY <2>2, <2>4 DEF OnceInv
    <3> QED BY <2>1, <2>2, <3>1 DEF GoesOn, OthersRest
  <2>5. \A k \in Events, x \in Endpoints :
          Rows(k, x)' \in {0, 1} /\ (jobs'[k].status = "pending" => Rows(k, x)' = 0)
    BY <2>2, <2>3 DEF OnceInv
  <2>6. ASSUME NEW v \in Workers, NEW x \in Endpoints,
               workers'[v].at # "idle", workers'[v].at = "list" \/ x \in workers'[v].todo,
               NEW k \in Events, k = workers'[v].job
        PROVE  Rows(k, x)' = 0
    <3>1. CASE v = w
      <4>1. k = j /\ x \in workers[w].todo /\ x # e
        BY <2>1, <2>2, <2>6, <3>1 DEF GoesOn
      <4> QED BY <2>1, <2>2, <4>1 DEF OnceInv
    <3>2. CASE v # w
      <4>1. workers'[v] = workers[v] /\ k # j
        BY <2>1, <2>2, <2>6, <3>2 DEF GoesOn, OthersRest, Owned
      <4> QED BY <2>2, <2>6, <4>1 DEF OnceInv
    <3> QED BY <3>1, <3>2
  <2>7. \A v \in Workers : workers'[v].at # "idle" => workers'[v].job \in Events
    BY <2>1, <2>2 DEF GoesOn, OthersRest, Owned
  <2>8. ASSUME NEW v \in Workers, NEW x \in Endpoints
        PROVE  /\ workers'[v].at = "list" => Rows(workers[v].job, x)' = 0
               /\ workers'[v].at # "idle" /\ x \in workers'[v].todo => Rows(workers[v].job, x)' = 0
    BY <2>6, <2>7 DEF Rows
  <2> QED BY <2>4, <2>5, <2>8 DEF OnceInv
<1>6. ASSUME NEW e \in Endpoints, SkipDelivery(w, e) PROVE FALSE
  BY <1>6, SkipDoes
<1>7. CASE Succeed(w) \/ Fail(w) \/ CheckCircuitBreaker(w) \/ DisableEndpoint(w) \/ LoseUpdate(w)
  <2>1. PICK j \in Events : j = workers[w].job
    BY <1>0, <1>7, AnswerDoes
  <2>2. PICK at \in {"next", "count", "disable"} : GoesOn(w, at)
    BY <1>7, AnswerDoes
  <2>3. /\ workers[w].at \in {"send", "count", "disable"} /\ workers'[w].todo = workers[w].todo
        /\ RowsKept /\ UNCHANGED jobs
    BY <1>7, AnswerDoes
  <2>4. \A e \in workers[w].todo : e \in Endpoints => Rows(j, e) = 0
    BY <2>1, <2>3 DEF OnceInv
  <2> QED BY <2>1, <2>2, <2>3, <2>4, OnceKept DEF GoesOn, OtherJobsKept
<1> QED BY <1>1, <1>2, <1>3, <1>4, <1>5, <1>6, <1>7 DEF Work

(* A fault is not taken back.                                              *)
LEMMA FaultsStay ==
  ASSUME TypeOK, [Next]_vars
  PROVE  faults' = 0 => faults = 0
<1>1. CASE Fault
  BY <1>1, Counters
<1>2. CASE UNCHANGED faults
  BY <1>2
<1> QED BY <1>1, <1>2
    DEF Next, Tenant, Work, vars, RecoverStaleLocks, Enqueue, Claim, DispatchInline, Dispatch,
        ListFails, CreateDelivery, SkipDelivery, Succeed, Fail, CheckCircuitBreaker,
        DisableEndpoint, Finish, LoseUpdate, Crash, CreateEndpoint, InsertEndpoint,
        DeleteEndpoint, UpdateEndpoint, RetryDelivery, FailuresAge, TurnOver

LEMMA OnceNext ==
  ASSUME TypeOK, Owned, Placed, faults = 0 => OnceInv, [Next]_vars
  PROVE  faults' = 0 => OnceInv'
<1> SUFFICES ASSUME faults' = 0 PROVE OnceInv'
  OBVIOUS
<1>0. OnceInv
  BY FaultsStay
<1>1. CASE UNCHANGED vars
  BY <1>0, <1>1 DEF vars, OnceInv, Rows
<1>2. ASSUME NEW j \in Events, RecoverStaleLocks(j) PROVE FALSE
  BY <1>0, <1>2, SweepDoes DEF OnceInv
<1>3. ASSUME NEW j \in Events, jobs[j].status = "absent" PROVE \A e \in Endpoints : Rows(j, e) = 0
  BY <1>0, <1>3 DEF Placed, OnceInv
<1>4. ASSUME NEW j \in Events, NEW m \in Modes, Enqueue(j, m) PROVE OnceInv'
  BY <1>0, <1>3, <1>4, EnqueueDoes, KeepingRows, OnceStands DEF Enqueue, OtherJobsKept
<1>5. CASE \E w \in Workers : Work(w)
  BY <1>0, <1>5, WorkOnce
<1>6. ASSUME NEW e \in Endpoints,
             \/ \E m \in Modes : CreateEndpoint(e, m)
             \/ InsertEndpoint(e) \/ DeleteEndpoint(e)
             \/ \E active, subscribed \in BOOLEAN : UpdateEndpoint(e, active, subscribed)
      PROVE  OnceInv'
  BY <1>0, <1>6, ChangeDoes, OnceStands
<1>7. ASSUME NEW e \in Endpoints, NEW j \in Events, NEW k \in Events, NEW m \in Modes,
             RetryDelivery(j, e, k, m)
      PROVE  OnceInv'
  BY <1>0, <1>3, <1>7, EnqueueDoes, KeepingRows, OnceStands DEF RetryDelivery, OtherJobsKept
<1>8. CASE FailuresAge
  BY <1>0, <1>8, Aged, OnceStands DEF FailuresAge, RowsKept
<1>9. ASSUME NEW e \in Endpoints, TurnOver(e) PROVE OnceInv'
  BY <1>0, <1>9, KeepingRows, OnceStands DEF TurnOver
<1> QED BY <1>1, <1>2, <1>4, <1>5, <1>6, <1>7, <1>8, <1>9 DEF Next, Tenant

LEMMA OnceInit == Init => OnceInv
<1> SUFFICES ASSUME Init PROVE OnceInv
  OBVIOUS
<1>1. \A w \in Workers : workers[w].at = "idle"
  BY RowTypes DEF Init
<1>2. \A j \in Events, e \in Endpoints : Rows(j, e) = 0
  BY Nothing, RowsAreAll DEF Init
<1>3. \A j \in Events : jobs[j].status = "absent"
  BY RowTypes DEF Init
<1> QED BY <1>1, <1>2, <1>3 DEF OnceInv

(* SentOnce, for any number of workers: a list is made once for a job, an  *)
(* endpoint leaves it with its row, and the sweep finds no stale lock as   *)
(* long as no worker is lost.  As the code is, there is not even a second  *)
(* row after a failure.                                                    *)
THEOREM EventsAreSentOnce == Spec => []SentOnce
<1> DEFINE Once == faults = 0 => OnceInv
<1>1. TypeOK /\ Owned /\ Placed /\ Once /\ [Next]_vars => Once'
  BY OnceNext
<1>2. Init => Once
  BY OnceInit
<1>3. TypeOK /\ Once => SentOnce
  <2> SUFFICES ASSUME TypeOK, Once, faults = 0, NEW j \in Events, NEW e \in Endpoints
               PROVE  deliveries[j][e]["pending"] + deliveries[j][e]["delivered"] <= 1
    BY DEF SentOnce
  <2>1. Rows(j, e) <= 1
    BY DEF OnceInv
  <2>2. deliveries[j][e] \in [DeliveryStatuses -> Nat]
    BY DEF TypeOK
  <2> QED BY <2>1, <2>2 DEF Rows, DeliveryStatuses
<1> HIDE DEF Once
<1> QED BY <1>1, <1>2, <1>3, PlacedInvariant, PTL DEF Spec

-----------------------------------------------------------------------------
(* Every endpoint.                                                         *)

(* An endpoint that awaits the event of a job is listed until the list is  *)
(* made, and then on it until it has its row.                              *)
TriedInv ==
  /\ \A w \in Workers, j \in Events, m \in Modes \cup {None} :
       workers[w].at = "list" /\ workers[w].job = j /\ jobs[j].mode = m =>
         awaiting[j] \subseteq Listed(m)
  /\ \A w \in Workers, j \in Events :
       workers[w].at \notin {"idle", "list"} /\ workers[w].job = j =>
         \A e \in awaiting[j] : e \in workers[w].todo \/ Rows(j, e) > 0
  /\ \A j \in Events : jobs[j].status = "done" => \A e \in awaiting[j] : Rows(j, e) > 0

(* Listed(mode) loses only endpoints that await nothing any more.          *)
ListsKept ==
  \A j \in Events, m \in Modes \cup {None} :
    /\ awaiting'[j] \subseteq awaiting[j]
    /\ awaiting[j] \subseteq Listed(m) => awaiting'[j] \subseteq Listed(m)'

LEMMA KeepingLists ==
  ASSUME UNCHANGED <<endpoints, awaiting>>
  PROVE  ListsKept
BY DEF ListsKept, Listed, Subscribed

LEMMA SwitchingKeepsLists ==
  ASSUME TypeOK, NEW e \in Endpoints, SwitchedOff(e)
  PROVE  ListsKept
<1>1. \A j \in Events : awaiting'[j] = awaiting[j] \ {e}
  BY DEF SwitchedOff
<1>2. \A x \in Endpoints : x # e => endpoints'[x] = endpoints[x]
  BY SwitchingOff
<1> QED BY <1>1, <1>2 DEF ListsKept, Listed, Subscribed

LEMMA ChangingKeepsLists ==
  ASSUME TypeOK, Placed, NEW e \in Endpoints,
         \/ \E m \in Modes : CreateEndpoint(e, m)
         \/ InsertEndpoint(e) \/ DeleteEndpoint(e)
         \/ \E active, subscribed \in BOOLEAN : UpdateEndpoint(e, active, subscribed)
  PROVE  ListsKept
<1> SUFFICES ASSUME NEW j \in Events, NEW m \in Modes \cup {None},
                    awaiting[j] \subseteq Listed(m), NEW x \in awaiting'[j]
             PROVE  x \in Listed(m)'
  BY ChangeDoes DEF ListsKept
<1>1. x \in Listed(m) /\ x \in Endpoints
  BY ChangeDoes DEF Listed
<1>2. CASE x = e
  <2>1. endpoints[e].row = "there"
    BY <1>1, <1>2 DEF Placed, Listed, Subscribed
  <2>2. endpoints'[e].active /\ endpoints'[e].subscribed /\ endpoints'[e].mode = endpoints[e].mode
    BY <1>2, <2>1, ChangeDoes
  <2> QED BY <1>1, <1>2, <2>2 DEF Listed, Subscribed
<1>3. CASE x # e
  BY <1>1, <1>3, ChangeDoes DEF Listed, Subscribed
<1> QED BY <1>2, <1>3

(* Nobody moves, and no job becomes done.                                  *)
LEMMA TriedStands ==
  ASSUME TypeOK, Owned, TriedInv, UNCHANGED workers, RowsKept, ListsKept,
         \A j \in Events : jobs[j].status \in Running => jobs'[j].mode = jobs[j].mode,
         \A j \in Events : jobs'[j].status = "done" => jobs[j].status = "done"
  PROVE  TriedInv'
<1>1. \A j \in Events, e \in Endpoints : Rows(j, e) > 0 => Rows(j, e)' > 0
  BY DEF RowsKept
<1>2. \A j \in Events : awaiting[j] \subseteq Endpoints /\ awaiting'[j] \subseteq awaiting[j]
  BY DEF TypeOK, ListsKept
<1>3. ASSUME NEW w \in Workers, NEW j \in Events, NEW m \in Modes \cup {None},
             workers[w].at = "list", workers[w].job = j, jobs'[j].mode = m
      PROVE  awaiting'[j] \subseteq Listed(m)'
  <2>1. jobs[j].mode = m
    BY <1>3 DEF Owned
  <2> QED BY <1>3, <2>1 DEF TriedInv, ListsKept
<1>4. ASSUME NEW w \in Workers, NEW j \in Events, workers[w].at \notin {"idle", "list"},
             workers[w].job = j, NEW e \in awaiting'[j]
      PROVE  e \in workers[w].todo \/ Rows(j, e)' > 0
  BY <1>1, <1>2, <1>4 DEF TriedInv
<1>5. ASSUME NEW j \in Events, jobs'[j].status = "done", NEW e \in awaiting'[j]
      PROVE  Rows(j, e)' > 0
  BY <1>1, <1>2, <1>5 DEF TriedInv
<1> QED BY <1>3, <1>4, <1>5 DEF TriedInv

(* A step of w, on its job j.                                              *)
LEMMA TriedKept ==
  ASSUME TypeOK, Owned, TriedInv, NEW w \in Workers, NEW j \in Events, OthersRest(w),
         workers[w].at # "idle" => workers[w].job = j,
         workers'[w].at # "idle" => workers'[w].job = j,
         \A v \in Workers : v # w /\ workers[v].at # "idle" => workers[v].job # j,
         OtherJobsKept(j),
         \A k \in Events, m \in Modes \cup {None} : k # j =>
           /\ awaiting'[k] \subseteq awaiting[k]
           /\ awaiting[k] \subseteq Listed(m) => awaiting'[k] \subseteq Listed(m)',
         \A k \in Events, e \in Endpoints : Rows(k, e) > 0 => Rows(k, e)' > 0,
         \A m \in Modes \cup {None} : workers'[w].at = "list" /\ jobs'[j].mode = m =>
           awaiting'[j] \subseteq Listed(m)',
         workers'[w].at \notin {"idle", "list"} =>
           \A e \in awaiting'[j] : e \in workers'[w].todo \/ Rows(j, e)' > 0,
         jobs'[j].status = "done" => \A e \in awaiting'[j] : Rows(j, e)' > 0
  PROVE  TriedInv'
<1>1. \A k \in Events : awaiting[k] \subseteq Endpoints
  BY DEF TypeOK
<1>2. ASSUME NEW v \in Workers, NEW k \in Events, workers'[v].at # "idle", workers'[v].job = k, v # w
      PROVE  workers'[v] = workers[v] /\ k # j /\ jobs'[k] = jobs[k]
  BY <1>2 DEF OthersRest, OtherJobsKept
<1>3. ASSUME NEW v \in Workers, NEW k \in Events, NEW m \in Modes \cup {None},
             workers'[v].at = "list", workers'[v].job = k, jobs'[k].mode = m
      PROVE  awaiting'[k] \subseteq Listed(m)'
  <2>1. CASE v = w
    BY <1>3, <2>1
  <2>2. CASE v # w
    <3>1. workers'[v] = workers[v] /\ k # j /\ jobs'[k] = jobs[k]
      BY <1>2, <1>3, <2>2
    <3>2. awaiting[k] \subseteq Listed(m)
      BY <1>3, <3>1 DEF TriedInv
    <3> QED BY <3>1, <3>2
  <2> QED BY <2>1, <2>2
<1>4. ASSUME NEW v \in Workers, NEW k \in Events, workers'[v].at \notin {"idle", "list"},
             workers'[v].job = k, NEW e \in awaiting'[k]
      PROVE  e \in workers'[v].todo \/ Rows(k, e)' > 0
  <2>1. CASE v = w
    BY <1>4, <2>1
  <2>2. CASE v # w
    <3>1. workers'[v] = workers[v] /\ k # j
      BY <1>2, <1>4, <2>2
    <3>2. e \in awaiting[k] /\ e \in Endpoints
      BY <1>1, <1>4, <3>1
    <3>3. e \in workers[v].todo \/ Rows(k, e) > 0
      BY <1>4, <3>1, <3>2 DEF TriedInv
    <3> QED BY <3>1, <3>2, <3>3
  <2> QED BY <2>1, <2>2
<1>5. ASSUME NEW k \in Events, jobs'[k].status = "done", NEW e \in awaiting'[k]
      PROVE  Rows(k, e)' > 0
  <2>1. CASE k = j
    BY <1>5, <2>1
  <2>2. CASE k # j
    <3>1. jobs[k].status = "done" /\ e \in awaiting[k] /\ e \in Endpoints
      BY <1>1, <1>5, <2>2 DEF OtherJobsKept
    <3> QED BY <3>1 DEF TriedInv
  <2> QED BY <2>1, <2>2
<1> QED BY <1>3, <1>4, <1>5 DEF TriedInv

(* A worker keeps its job to itself.                                       *)
LEMMA Alone ==
  ASSUME Owned, NEW w \in Workers, workers[w].at # "idle", NEW j, j = workers[w].job
  PROVE  j \in Events /\ \A v \in Workers : v # w /\ workers[v].at # "idle" => workers[v].job # j
BY DEF Owned

LEMMA WorkTried ==
  ASSUME TypeOK, Owned, TriedInv, faults' = 0, NEW w \in Workers, Work(w)
  PROVE  TriedInv'
<1>1. ASSUME NEW j \in Events, Claim(w, j) PROVE TriedInv'
  <2>1. workers[w].at = "idle"
    BY <1>1 DEF Claim, Stands
  <2>2. \A k \in Events, e \in Endpoints : Rows(k, e) > 0 => Rows(k, e)' > 0
    BY <1>1, ClaimDoes DEF RowsKept
  <2>3. \A m : Listed(m)' = Listed(m)
    BY <1>1, ClaimDoes DEF Listed, Subscribed
  <2> QED BY <1>1, <2>1, <2>2, <2>3, ClaimDoes, TriedKept
<1>2. ASSUME NEW j \in Events, NEW m \in Modes, DispatchInline(w, j, m) PROVE FALSE
  BY <1>2, InlineDoes
<1>3. ASSUME NEW j, j = workers[w].job, workers[w].at # "idle",
             GoesOn(w, workers'[w].at), workers'[w].at \notin {"idle", "list"}, UNCHANGED jobs, ListsKept,
             \A k \in Events, e \in Endpoints : Rows(k, e) > 0 => Rows(k, e)' > 0,
             \A e \in awaiting'[j] : e \in workers'[w].todo \/ Rows(j, e)' > 0
      PROVE  TriedInv'
  <2>1. j \in Events /\ \A v \in Workers : v # w /\ workers[v].at # "idle" => workers[v].job # j
    BY <1>3, Alone
  <2>2. jobs[j].status # "done"
    BY <1>3 DEF Owned, Running
  <2> QED BY <1>3, <2>1, <2>2, TriedKept DEF GoesOn, OtherJobsKept, ListsKept
<1>4. CASE Dispatch(w)
  <2>1. PICK j \in Events : j = workers[w].job
    BY <1>4, DispatchDoes, Alone
  <2>2. jobs[j].mode \in Modes \cup {None}
    BY DEF TypeOK, Job
  <2>3. \A e \in awaiting[j] : e \in workers'[w].todo
    BY <1>4, <2>1, <2>2, DispatchDoes DEF TriedInv
  <2>4. /\ GoesOn(w, "next") /\ workers[w].at = "list" /\ RowsKept
        /\ UNCHANGED <<jobs, endpoints, awaiting, faults>>
    BY <1>4, DispatchDoes
  <2>5. ListsKept
    BY <2>4, KeepingLists
  <2> QED BY <1>3, <2>1, <2>3, <2>4, <2>5 DEF GoesOn, RowsKept
<1>5. CASE ListFails(w) \/ Finish(w) \/ Crash(w)
  <2>1. PICK j \in Events : j = workers[w].job
    BY <1>5, EndDoes
  <2>2. /\ OthersRest(w) /\ workers'[w].at = "idle" /\ workers[w].at = "next"
        /\ workers[w].todo = {} /\ OtherJobsKept(j) /\ RowsKept /\ UNCHANGED <<endpoints, awaiting>>
    BY <1>5, <2>1, EndDoes
  <2>3. \A e \in awaiting[j] : Rows(j, e) > 0
    BY <2>1, <2>2 DEF TriedInv
  <2>4. ListsKept /\ \A k \in Events, e \in Endpoints : Rows(k, e) > 0 => Rows(k, e)' > 0
    BY <2>2, KeepingLists DEF RowsKept
  <2>5. \A e \in awaiting'[j] : Rows(j, e)' > 0
    BY <2>2, <2>3, <2>4 DEF TypeOK
  <2>6. \A v \in Workers : v # w /\ workers[v].at # "idle" => workers[v].job # j
    BY <2>1, <2>2, Alone
  <2> QED BY <2>1, <2>2, <2>4, <2>5, <2>6, TriedKept DEF ListsKept
<1>6. ASSUME NEW e \in Endpoints, CreateDelivery(w, e) PROVE TriedInv'
  <2>1. PICK j \in Events : j = workers[w].job /\ workers[w].at = "next"
    BY <1>6, Alone DEF CreateDelivery, Stands
  <2>2. /\ GoesOn(w, "send") /\ workers'[w].todo = workers[w].todo \ {e}
        /\ e \in workers[w].todo /\ Rows(j, e)' = Rows(j, e) + 1
        /\ \A k \in Events, x \in Endpoints : k # j \/ x # e => Rows(k, x)' = Rows(k, x)
        /\ UNCHANGED <<jobs, endpoints, awaiting, faults>>
    BY <1>6, <2>1, CreateDoes
  <2>3. Rows(j, e) \in Nat
    <3>1. deliveries[j][e] \in Counts
      BY DEF TypeOK, Counts
    <3>2. AllOf(deliveries[j][e]) \in Nat
      BY <3>1, Numbers DEF AllOf
    <3> QED BY <3>2, RowsAreAll
  <2>4. \A k \in Events, x \in Endpoints : Rows(k, x) > 0 => Rows(k, x)' > 0
    BY <2>2, <2>3
  <2>5. \A x \in awaiting[j] : x \in Endpoints /\ (x \in workers[w].todo \/ Rows(j, x) > 0)
    BY <2>1 DEF TriedInv, TypeOK
  <2>6. \A x \in awaiting'[j] : x \in workers'[w].todo \/ Rows(j, x)' > 0
    BY <2>2, <2>3, <2>4, <2>5
  <2>7. ListsKept
    BY <2>2, KeepingLists
  <2> QED BY <1>3, <2>1, <2>2, <2>4, <2>6, <2>7 DEF GoesOn
<1>7. ASSUME NEW e \in Endpoints, SkipDelivery(w, e) PROVE FALSE
  BY <1>7, SkipDoes
<1>8. CASE Succeed(w) \/ Fail(w) \/ CheckCircuitBreaker(w) \/ DisableEndpoint(w) \/ LoseUpdate(w)
  <2>1. PICK j \in Events : j = workers[w].job
    BY <1>8, AnswerDoes, Alone
  <2>2. PICK at \in {"next", "count", "disable"} : GoesOn(w, at)
    BY <1>8, AnswerDoes
  <2>3. /\ workers[w].at \in {"send", "count", "disable"} /\ workers'[w].todo = workers[w].todo
        /\ RowsKept /\ UNCHANGED jobs
    BY <1>8, AnswerDoes
  <2>4. ListsKept
    BY <1>8, AnswerDoes, KeepingLists, SwitchingKeepsLists
  <2>5. \A k \in Events, e \in Endpoints : Rows(k, e) > 0 => Rows(k, e)' > 0
    BY <2>3 DEF RowsKept
  <2>6. \A e \in awaiting[j] : e \in Endpoints /\ (e \in workers[w].todo \/ Rows(j, e) > 0)
    BY <2>1, <2>3 DEF TriedInv, TypeOK
  <2>7. \A e \in awaiting'[j] : e \in workers'[w].todo \/ Rows(j, e)' > 0
    <3>1. awaiting'[j] \subseteq awaiting[j]
      BY <2>4 DEF ListsKept
    <3> QED BY <2>3, <2>5, <2>6, <3>1
  <2> QED BY <1>3, <2>1, <2>2, <2>3, <2>4, <2>5, <2>7 DEF GoesOn
<1> QED BY <1>1, <1>2, <1>4, <1>5, <1>6, <1>7, <1>8 DEF Work

LEMMA TriedNext ==
  ASSUME TypeOK, Owned, Placed, faults = 0 => TriedInv, [Next]_vars
  PROVE  faults' = 0 => TriedInv'
<1> SUFFICES ASSUME faults' = 0 PROVE TriedInv'
  OBVIOUS
<1>0. TriedInv
  BY FaultsStay
<1>1. CASE UNCHANGED vars
  BY <1>0, <1>1 DEF vars, TriedInv, Rows, Listed, Subscribed
<1>2. ASSUME NEW j \in Events, RecoverStaleLocks(j) PROVE TriedInv'
  <2>1. \A k \in Events : /\ jobs'[k].mode = jobs[k].mode
                          /\ jobs'[k].status = "done" => jobs[k].status = "done"
    BY <1>2, SweepDoes DEF OtherJobsKept
  <2> QED BY <1>0, <1>2, <2>1, SweepDoes, KeepingLists, TriedStands
<1>3. ASSUME NEW j \in Events, NEW m \in Modes, Enqueue(j, m) PROVE TriedInv'
  BY <1>0, <1>3, EnqueueDoes, KeepingRows, KeepingLists, TriedStands
     DEF Enqueue, OtherJobsKept, Running
<1>4. CASE \E w \in Workers : Work(w)
  BY <1>0, <1>4, WorkTried
<1>5. ASSUME NEW e \in Endpoints,
             \/ \E m \in Modes : CreateEndpoint(e, m)
             \/ InsertEndpoint(e) \/ DeleteEndpoint(e)
             \/ \E active, subscribed \in BOOLEAN : UpdateEndpoint(e, active, subscribed)
      PROVE  TriedInv'
  BY <1>0, <1>5, ChangeDoes, ChangingKeepsLists, TriedStands
<1>6. ASSUME NEW e \in Endpoints, NEW j \in Events, NEW k \in Events, NEW m \in Modes,
             RetryDelivery(j, e, k, m)
      PROVE  TriedInv'
  BY <1>0, <1>6, EnqueueDoes, KeepingRows, KeepingLists, TriedStands
     DEF RetryDelivery, OtherJobsKept, Running
<1>7. CASE FailuresAge
  BY <1>0, <1>7, Aged, KeepingLists, TriedStands DEF FailuresAge, RowsKept
<1>8. ASSUME NEW e \in Endpoints, TurnOver(e) PROVE TriedInv'
  BY <1>0, <1>8, KeepingRows, KeepingLists, TriedStands DEF TurnOver
<1> QED BY <1>1, <1>2, <1>3, <1>4, <1>5, <1>6, <1>7, <1>8 DEF Next, Tenant

LEMMA TriedInit == Init => TriedInv
<1> SUFFICES ASSUME Init PROVE TriedInv
  OBVIOUS
<1>1. \A w \in Workers : workers[w].at = "idle"
  BY RowTypes DEF Init
<1>2. \A j \in Events : jobs[j].status = "absent"
  BY RowTypes DEF Init
<1> QED BY <1>1, <1>2 DEF TriedInv

(* EveryEndpointIsTried, for any number of endpoints and workers: neither  *)
(* an endpoint that fails nor the breaker that switches it off takes       *)
(* another one off the list Dispatch goes through, and an endpoint that    *)
(* was there when the job was claimed is on that list.                     *)
THEOREM EndpointsAreTried == Spec => []EveryEndpointIsTried
<1> DEFINE Tried == faults = 0 => TriedInv
<1>1. TypeOK /\ Owned /\ Placed /\ Tried /\ [Next]_vars => Tried'
  BY TriedNext
<1>2. Init => Tried
  BY TriedInit
<1>3. Tried => EveryEndpointIsTried
  BY DEF EveryEndpointIsTried, TriedInv
<1> HIDE DEF Tried
<1> QED BY <1>1, <1>2, <1>3, PlacedInvariant, PTL DEF Spec

-----------------------------------------------------------------------------
(* The circuit breaker.                                                    *)

(* The workers that have a failure of e behind them, and those that are    *)
(* still to send to e.                                                     *)
Judging(e) == {w \in Workers : workers[w].on = e /\ workers[w].at \in {"count", "disable"}}
Near(e) == {w \in Workers : \/ e \in workers[w].todo
                            \/ workers[w].on = e /\ workers[w].at = "send"}

(* An endpoint leaves the list before it is sent to.                       *)
Apart ==
  \A w \in Workers : workers[w].at \in {"send", "count", "disable"} =>
    workers[w].on \notin workers[w].todo

(* Whoever has failed above the threshold is about to switch the endpoint  *)
(* off; once it is off, whoever has it in hand fails once more at most.    *)
Bounded(e) ==
  e \notin reenabled =>
    IF endpoints[e].active
    THEN Failures(e) < Threshold + Cardinality(Judging(e))
    ELSE Failures(e) + Cardinality(Near(e)) < Threshold + Cardinality(Workers)

BreakerInv == Apart /\ \A e \in Endpoints : Bounded(e)

(* Failures(e) is a number, and how it changes.                            *)
LEMMA FailuresAreSums ==
  ASSUME NEW e
  PROVE  /\ Failures(e) = SumFunctionOnSet([j \in Events |-> deliveries[j][e]["failed"]], Events)
         /\ Failures(e)' = SumFunctionOnSet([j \in Events |-> deliveries'[j][e]["failed"]], Events)
BY DEF Failures, SumFunction

LEMMA FailuresAreNat ==
  ASSUME TypeOK, NEW e \in Endpoints
  PROVE  Failures(e) \in Nat
<1> DEFINE f == [j \in Events |-> deliveries[j][e]["failed"]]
<1>1. \A j \in Events : f[j] \in Nat
  BY Numbers DEF TypeOK, Counts
<1> HIDE DEF f
<1>2. SumFunctionOnSet(f, Events) \in Nat
  BY <1>1, WebhookAssumption, SumIsNat
<1> QED BY <1>2, FailuresAreSums DEF f

LEMMA FailuresKept ==
  ASSUME NEW e, \A j \in Events : deliveries'[j][e]["failed"] = deliveries[j][e]["failed"]
  PROVE  Failures(e)' = Failures(e)
<1>1. [j \in Events |-> deliveries'[j][e]["failed"]] = [j \in Events |-> deliveries[j][e]["failed"]]
  OBVIOUS
<1> QED BY <1>1, FailuresAreSums

LEMMA FailuresForgotten ==
  ASSUME NEW e, \A j \in Events : deliveries'[j][e]["failed"] = 0
  PROVE  Failures(e)' = 0
<1> DEFINE f == [j \in Events |-> deliveries'[j][e]["failed"]]
<1>1. \A j \in Events : f[j] = 0
  OBVIOUS
<1> HIDE DEF f
<1>2. SumFunctionOnSet(f, Events) = 0
  BY <1>1, WebhookAssumption, SumOfZeros
<1> QED BY <1>2, FailuresAreSums DEF f

LEMMA FailureMore ==
  ASSUME TypeOK, TypeOK', NEW e \in Endpoints, NEW j \in Events,
         deliveries'[j][e]["failed"] = deliveries[j][e]["failed"] + 1,
         \A k \in Events : k # j => deliveries'[k][e]["failed"] = deliveries[k][e]["failed"]
  PROVE  Failures(e)' = Failures(e) + 1
<1> DEFINE f == [k \in Events |-> deliveries[k][e]["failed"]]
           g == [k \in Events |-> deliveries'[k][e]["failed"]]
<1>1. \A k \in Events : f[k] \in Int /\ g[k] \in Int
  BY Numbers DEF TypeOK, Counts
<1>2. g[j] = f[j] + 1 /\ \A k \in Events \ {j} : f[k] = g[k]
  OBVIOUS
<1>3. Failures(e) = SumFunctionOnSet(f, Events) /\ Failures(e)' = SumFunctionOnSet(g, Events)
  BY FailuresAreSums
<1> HIDE DEF f, g
<1>4. SumFunctionOnSet(g, Events) = SumFunctionOnSet(f, Events) + g[j] - f[j]
  <2>1. IsFiniteSet(Events)
    BY WebhookAssumption
  <2>2. \A k \in Events \ {j} : f[k] = g[k]
    BY <1>2
  <2> QED BY <1>1, <2>1, <2>2, SumChanged
<1>5. SumFunctionOnSet(f, Events) \in Int
  BY <1>1, WebhookAssumption, SumIsInt
<1> QED BY <1>1, <1>2, <1>3, <1>4, <1>5

(* An endpoint without a row has no failures: nobody has sent to it.       *)
LEMMA NoRowNoFailures ==
  ASSUME TypeOK, Placed, NEW e \in Endpoints, endpoints[e].row # "there"
  PROVE  \A j \in Events : deliveries[j][e]["failed"] = 0
<1> SUFFICES ASSUME NEW j \in Events PROVE deliveries[j][e]["failed"] = 0
  OBVIOUS
<1>1. deliveries[j][e] \in Counts
  BY DEF TypeOK, Counts
<1>2. ~ (Rows(j, e) > 0)
  BY DEF Placed
<1> DEFINE p == deliveries[j][e]["pending"]
           d == deliveries[j][e]["delivered"]
           f == deliveries[j][e]["failed"]
           o == deliveries[j][e]["old_failure"]
<1>3. p \in Nat /\ d \in Nat /\ f \in Nat /\ o \in Nat
  BY <1>1, Numbers
<1>4. ~ (p + d + f + o > 0)
  BY <1>2 DEF Rows
<1> HIDE DEF p, d, f, o
<1>5. f = 0
  BY <1>3, <1>4
<1> QED BY <1>5 DEF f

-----------------------------------------------------------------------------
(* Counting workers.                                                       *)

LEMMA WorkerSets ==
  /\ IsFiniteSet(Workers) /\ Cardinality(Workers) \in Nat
  /\ \A X \in SUBSET Workers : IsFiniteSet(X) /\ Cardinality(X) \in Nat /\ Cardinality(X) <= Cardinality(Workers)
  /\ \A X, Y \in SUBSET Workers : X \subseteq Y => Cardinality(X) <= Cardinality(Y)
<1>1. IsFiniteSet(Workers)
  BY WebhookAssumption
<1>2. ASSUME NEW Y \in SUBSET Workers, NEW X \in SUBSET Y
      PROVE  IsFiniteSet(X) /\ IsFiniteSet(Y) /\ Cardinality(X) <= Cardinality(Y)
  <2>1. IsFiniteSet(Y)
    BY <1>1, FS_Subset
  <2> QED BY <2>1, FS_Subset
<1> QED BY <1>1, <1>2, FS_CardinalityType

LEMMA WorkersApart ==
  ASSUME NEW X \in SUBSET Workers, NEW Y \in SUBSET Workers, X \cap Y = {}
  PROVE  Cardinality(X) + Cardinality(Y) <= Cardinality(Workers)
<1>1. IsFiniteSet(X) /\ IsFiniteSet(Y) /\ X \cup Y \in SUBSET Workers
  BY WorkerSets
<1>2. Cardinality(X \cup Y) = Cardinality(X) + Cardinality(Y) - Cardinality(X \cap Y)
  BY <1>1, FS_Union
<1>3. Cardinality(X \cap Y) = 0
  BY FS_EmptySet
<1>4. Cardinality(X \cup Y) <= Cardinality(Workers)
  BY <1>1, WorkerSets
<1>5. Cardinality(X) \in Nat /\ Cardinality(Y) \in Nat
  BY WorkerSets
<1> QED BY <1>2, <1>3, <1>4, <1>5

LEMMA WorkerMore ==
  ASSUME NEW X \in SUBSET Workers, NEW w \in Workers \ X
  PROVE  Cardinality(X \cup {w}) = Cardinality(X) + 1
BY WorkerSets, FS_AddElement

LEMMA ItsWorkers ==
  ASSUME NEW e
  PROVE  /\ Judging(e) \in SUBSET Workers /\ Judging(e)' \in SUBSET Workers
         /\ Near(e) \in SUBSET Workers /\ Near(e)' \in SUBSET Workers
         /\ Apart => Judging(e) \cap Near(e) = {}
<1>1. /\ Judging(e) \in SUBSET Workers /\ Judging(e)' \in SUBSET Workers
      /\ Near(e) \in SUBSET Workers /\ Near(e)' \in SUBSET Workers
  BY DEF Judging, Near
<1>2. Apart => Judging(e) \cap Near(e) = {}
  BY DEF Judging, Near, Apart
<1> QED BY <1>1, <1>2

(* On or off, e has this many failures at most.                            *)
LEMMA Capped ==
  ASSUME TypeOK, Apart, NEW e \in Endpoints, e \notin reenabled, Bounded(e)
  PROVE  Failures(e) + Cardinality(Near(e)) < Threshold + Cardinality(Workers)
<1>1. Cardinality(Judging(e)) + Cardinality(Near(e)) <= Cardinality(Workers)
  BY ItsWorkers, WorkersApart
<1>2. /\ Cardinality(Judging(e)) \in Nat /\ Cardinality(Near(e)) \in Nat
      /\ Cardinality(Workers) \in Nat /\ Threshold \in Nat /\ Failures(e) \in Nat
  BY ItsWorkers, WorkerSets, FailuresAreNat, WebhookAssumption
<1>3. CASE endpoints[e].active
  <2>1. Failures(e) < Threshold + Cardinality(Judging(e))
    BY <1>3 DEF Bounded
  <2> QED BY <1>1, <1>2, <2>1
<1>4. CASE ~endpoints[e].active
  BY <1>4 DEF Bounded
<1> QED BY <1>3, <1>4

(* Nothing fails, e is not switched on, and nobody is added to its list    *)
(* while it is off.                                                        *)
LEMMA BoundedKept ==
  ASSUME TypeOK, Apart, NEW e \in Endpoints, Bounded(e), reenabled \subseteq reenabled',
         \A j \in Events : deliveries'[j][e]["failed"] = deliveries[j][e]["failed"],
         endpoints'[e].active => endpoints[e].active /\ Judging(e)' = Judging(e),
         ~endpoints'[e].active => Near(e)' \subseteq Near(e)
  PROVE  Bounded(e)'
<1> SUFFICES ASSUME e \notin reenabled'
             PROVE  IF endpoints'[e].active
                    THEN Failures(e)' < Threshold + Cardinality(Judging(e)')
                    ELSE Failures(e)' + Cardinality(Near(e)') < Threshold + Cardinality(Workers)
  BY DEF Bounded
<1>1. Failures(e)' = Failures(e) /\ e \notin reenabled
  BY FailuresKept
<1>2. CASE endpoints'[e].active
  BY <1>1, <1>2 DEF Bounded
<1>3. CASE ~endpoints'[e].active
  <2>1. Failures(e) + Cardinality(Near(e)) < Threshold + Cardinality(Workers)
    BY <1>1, Capped
  <2>2. Cardinality(Near(e)') <= Cardinality(Near(e))
    BY <1>3, ItsWorkers, WorkerSets
  <2>3. /\ Cardinality(Near(e)) \in Nat /\ Cardinality(Near(e)') \in Nat /\ Failures(e) \in Nat
        /\ Cardinality(Workers) \in Nat /\ Threshold \in Nat
    BY ItsWorkers, WorkerSets, FailuresAreNat, WebhookAssumption
  <2> QED BY <1>1, <1>3, <2>1, <2>2, <2>3
<1> QED BY <1>2, <1>3

(* Without failures there is nothing to bound.                             *)
LEMMA BoundedAtZero ==
  ASSUME NEW e \in Endpoints, \A j \in Events : deliveries'[j][e]["failed"] = 0
  PROVE  Bounded(e)'
<1>1. Failures(e)' = 0
  BY FailuresForgotten
<1>2. /\ Cardinality(Near(e)') \in Nat /\ Cardinality(Judging(e)') \in Nat
      /\ Cardinality(Near(e)') <= Cardinality(Workers)
      /\ Cardinality(Workers) \in Nat /\ Threshold \in Nat \ {0}
  BY ItsWorkers, WorkerSets, WebhookAssumption
<1> QED BY <1>1, <1>2 DEF Bounded

(* Worker w moves, and neither sends to e nor judges it.                   *)
LEMMA NotItsWorker ==
  ASSUME NEW w \in Workers, OthersRest(w), NEW e,
         workers[w].on # e \/ workers[w].at \notin {"count", "disable"},
         workers'[w].on # e \/ workers'[w].at \notin {"count", "disable"}
  PROVE  Judging(e)' = Judging(e)
BY DEF Judging, OthersRest

LEMMA NoNearer ==
  ASSUME NEW w \in Workers, OthersRest(w), NEW e,
         w \in Near(e)' => w \in Near(e)
  PROVE  Near(e)' \subseteq Near(e)
BY DEF Near, OthersRest

-----------------------------------------------------------------------------
(* The steps of the workers.                                               *)

(* A worker neither sends to an endpoint of its list nor has judged it.    *)
LEMMA ApartStep ==
  ASSUME Apart, NEW w \in Workers, OthersRest(w),
         workers'[w].at \in {"send", "count", "disable"} => workers'[w].on \notin workers'[w].todo
  PROVE  Apart'
BY DEF Apart, OthersRest

(* What becomes of the failures when a row is marked.                      *)
LEMMA MarkFailures ==
  ASSUME TypeOK, Owned, NEW w \in Workers, workers[w].at = "send",
         NEW status \in {"delivered", "failed"}, Mark(w, status),
         NEW j \in Events, NEW e \in Endpoints
  PROVE  deliveries'[j][e]["failed"] =
           IF status = "failed" /\ j = workers[w].job /\ e = workers[w].on
           THEN deliveries[j][e]["failed"] + 1 ELSE deliveries[j][e]["failed"]
<1> DEFINE i == workers[w].job
           x == workers[w].on
           counts == Moved(deliveries[i][x], "pending", status)
<1>1. i \in Events /\ x \in Endpoints /\ deliveries[i][x] \in Counts
      /\ deliveries[i][x]["pending"] > 0
  BY DEF Owned, TypeOK, Counts
<1>2. counts \in Counts
  BY <1>1, Moving
<1>3. deliveries' = [deliveries EXCEPT ![i][x] = counts]
  BY DEF Mark
<1>4. counts["failed"] = IF status = "failed" THEN deliveries[i][x]["failed"] + 1
                         ELSE deliveries[i][x]["failed"]
  BY <1>1 DEF Moved, Counts, DeliveryStatuses
<1> HIDE DEF counts
<1>5. deliveries'[i][x] = counts /\ CountsElsewhere(i, x)
  BY <1>1, <1>2, <1>3, Counting
<1>6. CASE j = i /\ e = x
  BY <1>4, <1>5, <1>6
<1>7. CASE ~(j = i /\ e = x)
  BY <1>5, <1>7 DEF CountsElsewhere
<1> QED BY <1>6, <1>7

LEMMA CreateFailures ==
  ASSUME TypeOK, NEW j \in Events, NEW x \in Endpoints,
         deliveries' = [deliveries EXCEPT ![j][x]["pending"] = @ + 1],
         NEW k \in Events, NEW e \in Endpoints
  PROVE  deliveries'[k][e]["failed"] = deliveries[k][e]["failed"]
<1> DEFINE counts == [deliveries[j][x] EXCEPT !["pending"] = @ + 1]
<1>1. deliveries[j][x] \in Counts
  BY DEF TypeOK, Counts
<1>2. counts \in Counts /\ counts["failed"] = deliveries[j][x]["failed"]
  BY <1>1, Adding DEF Counts, DeliveryStatuses
<1>3. deliveries' = [deliveries EXCEPT ![j][x] = counts]
  BY DEF TypeOK
<1> HIDE DEF counts
<1>4. counts \in Counts
  BY <1>2
<1>5. deliveries'[j][x] = counts /\ CountsElsewhere(j, x)
  BY <1>3, <1>4, Counting
<1> QED BY <1>2, <1>5 DEF CountsElsewhere

FailuresStay ==
  \A j \in Events, e \in Endpoints : deliveries'[j][e]["failed"] = deliveries[j][e]["failed"]

(* Worker w fails to send to e. *)
LEMMA FailBounded ==
  ASSUME TypeOK, TypeOK', Owned, Apart, NEW w \in Workers, Fail(w), NEW e \in Endpoints, Bounded(e)
  PROVE  Bounded(e)'
<1>1. /\ GoesOn(w, "count") /\ workers'[w].todo = workers[w].todo /\ workers'[w].on = workers[w].on
      /\ workers[w].at = "send" /\ workers[w].job \in Events
      /\ UNCHANGED <<endpoints, reenabled>>
  BY Going DEF Fail, WorkerAt, Stands, Owned
<1>2. \A j \in Events : deliveries'[j][e]["failed"] =
        IF j = workers[w].job /\ e = workers[w].on
        THEN deliveries[j][e]["failed"] + 1 ELSE deliveries[j][e]["failed"]
  BY <1>1, MarkFailures DEF Fail
<1>3. OthersRest(w) /\ workers'[w].at = "count"
  BY <1>1 DEF GoesOn
<1>4. CASE e # workers[w].on
  <2>1. Judging(e)' = Judging(e) /\ Near(e)' \subseteq Near(e)
    BY <1>1, <1>3, <1>4, NotItsWorker, NoNearer DEF Near
  <2> QED BY <1>1, <1>2, <1>4, <2>1, BoundedKept
<1>5. CASE e = workers[w].on
  <2>1. Failures(e)' = Failures(e) + 1
    <3>1. /\ deliveries'[workers[w].job][e]["failed"] = deliveries[workers[w].job][e]["failed"] + 1
          /\ \A k \in Events : k # workers[w].job => deliveries'[k][e]["failed"] = deliveries[k][e]["failed"]
      BY <1>1, <1>2, <1>5
    <3> QED BY <1>1, <3>1, FailureMore
  <2>2. w \notin Judging(e) /\ Judging(e)' = Judging(e) \cup {w}
    BY <1>1, <1>3, <1>5 DEF Judging, OthersRest
  <2>3. w \notin Near(e)' /\ Near(e) = Near(e)' \cup {w}
    <3>1. e \notin workers[w].todo
      BY <1>1, <1>5 DEF Apart
    <3> QED BY <1>1, <1>3, <1>5, <3>1 DEF Near, OthersRest
  <2>4. Cardinality(Judging(e)') = Cardinality(Judging(e)) + 1
    BY <2>2, ItsWorkers, WorkerMore
  <2>5. Cardinality(Near(e)) = Cardinality(Near(e)') + 1
    <3>1. Near(e)' \in SUBSET Workers /\ w \in Workers \ Near(e)'
      BY <2>3, ItsWorkers
    <3> QED BY <2>3, <3>1, WorkerMore
  <2>6. /\ Cardinality(Judging(e)) \in Nat /\ Cardinality(Near(e)') \in Nat /\ Failures(e) \in Nat
        /\ Cardinality(Workers) \in Nat /\ Threshold \in Nat
    BY ItsWorkers, WorkerSets, FailuresAreNat, WebhookAssumption
  <2> SUFFICES ASSUME e \notin reenabled
               PROVE  IF endpoints[e].active
                      THEN Failures(e)' < Threshold + Cardinality(Judging(e)')
                      ELSE Failures(e)' + Cardinality(Near(e)') < Threshold + Cardinality(Workers)
    BY <1>1 DEF Bounded
  <2>7. CASE endpoints[e].active
    <3>1. Failures(e) < Threshold + Cardinality(Judging(e))
      BY <2>7 DEF Bounded
    <3> QED BY <2>1, <2>4, <2>6, <2>7, <3>1
  <2>8. CASE ~endpoints[e].active
    <3>1. Failures(e) + Cardinality(Near(e)) < Threshold + Cardinality(Workers)
      BY <2>8 DEF Bounded
    <3> QED BY <2>1, <2>5, <2>6, <2>8, <3>1
  <2> QED BY <2>7, <2>8
<1> QED BY <1>4, <1>5

(* Worker w has counted the failures of e, and goes on. *)
LEMMA JudgeBounded ==
  ASSUME TypeOK, Owned, Apart, NEW w \in Workers, CheckCircuitBreaker(w),
         NEW e \in Endpoints, Bounded(e)
  PROVE  Bounded(e)'
<1>1. PICK at \in {"disable", "next"} :
        /\ Goto(w, at) /\ (at = "next" <=> ~Opens(workers[w].on))
        /\ workers[w].at = "count" /\ workers[w].on \in Endpoints
        /\ UNCHANGED <<endpoints, reenabled, deliveries>>
  BY DEF CheckCircuitBreaker, Stands, Owned
<1>2. /\ OthersRest(w) /\ workers'[w].at = at
      /\ workers'[w].todo = workers[w].todo /\ workers'[w].on = workers[w].on
  BY <1>1, Going DEF GoesOn, WorkerAt
<1>3. Near(e)' \subseteq Near(e)
  BY <1>1, <1>2, NoNearer DEF Near
<1>4. CASE e # workers[w].on \/ at = "disable"
  <2>1. Judging(e)' = Judging(e)
    BY <1>1, <1>2, <1>4 DEF Judging, OthersRest
  <2> QED BY <1>1, <1>3, <2>1, BoundedKept
<1>5. CASE e = workers[w].on /\ at = "next"
  <2>1. Failures(e)' = Failures(e)
    BY <1>1, FailuresKept
  <2>2. /\ Cardinality(Judging(e)') \in Nat /\ Failures(e) \in Nat /\ Threshold \in Nat
    BY ItsWorkers, WorkerSets, FailuresAreNat, WebhookAssumption
  <2>3. Failures(e) < Threshold
    BY <1>1, <1>5, <2>2 DEF Opens
  <2>4. CASE endpoints[e].active
    BY <1>1, <2>1, <2>2, <2>3, <2>4 DEF Bounded
  <2>5. CASE ~endpoints[e].active
    BY <1>1, <1>3, <2>5, BoundedKept
  <2> QED BY <2>4, <2>5
<1> QED BY <1>4, <1>5

LEMMA WorkBounded ==
  ASSUME TypeOK, TypeOK', Owned, BreakerInv, NEW w \in Workers, Work(w), ~Fault
  PROVE  BreakerInv'
<1>1. Apart /\ \A e \in Endpoints : Bounded(e)
  BY DEF BreakerInv
<1>2. workers \in [Workers -> Worker]
  BY DEF TypeOK
<1>3. ASSUME OthersRest(w), UNCHANGED reenabled, FailuresStay,
             \A e \in Endpoints :
               /\ endpoints'[e].active => endpoints[e].active /\ Judging(e)' = Judging(e)
               /\ ~endpoints'[e].active => Near(e)' \subseteq Near(e),
             workers'[w].at \in {"send", "count", "disable"} => workers'[w].on \notin workers'[w].todo
      PROVE  BreakerInv'
  <2>1. Apart'
    BY <1>1, <1>3, ApartStep
  <2>2. ASSUME NEW e \in Endpoints PROVE Bounded(e)'
    BY <1>1, <1>3, BoundedKept DEF FailuresStay
  <2> QED BY <2>1, <2>2 DEF BreakerInv
(* Its list is empty, or has only endpoints that are on. *)
<1>4. ASSUME OthersRest(w), UNCHANGED <<endpoints, reenabled, deliveries>>,
             workers[w].at \in {"idle", "list", "next"}, workers'[w].at \in {"idle", "list", "next"},
             \A e \in workers'[w].todo : endpoints[e].active
      PROVE  BreakerInv'
  <2>1. \A e \in Endpoints : Judging(e)' = Judging(e)
    BY <1>4, NotItsWorker
  <2>2. ASSUME NEW e \in Endpoints, ~endpoints'[e].active
        PROVE  Near(e)' \subseteq Near(e)
    BY <1>4, <2>2, NoNearer DEF Near
  <2> QED BY <1>3, <1>4, <2>1, <2>2 DEF FailuresStay
<1>5. ASSUME NEW j \in Events, Claim(w, j) PROVE BreakerInv'
  <2>1. /\ OthersRest(w) /\ workers'[w].at = "list" /\ workers'[w].todo = {} /\ workers[w].at = "idle"
        /\ UNCHANGED <<endpoints, reenabled, deliveries>>
    BY <1>5, ClaimDoes DEF Claim, Stands
  <2> QED BY <1>4, <2>1
<1>6. CASE Dispatch(w)
  <2>1. /\ OthersRest(w) /\ workers'[w].at = "next" /\ workers[w].at = "list"
        /\ workers'[w].todo = Listed(jobs[workers[w].job].mode)
        /\ UNCHANGED <<endpoints, reenabled, deliveries>>
    BY <1>6, DispatchDoes DEF Dispatch, GoesOn
  <2>2. \A e \in workers'[w].todo : endpoints[e].active
    BY <2>1 DEF Listed, Subscribed
  <2> QED BY <1>4, <2>1, <2>2
<1>7. ASSUME NEW x \in Endpoints, CreateDelivery(w, x) PROVE BreakerInv'
  <2>1. /\ OthersRest(w) /\ workers'[w].at = "send" /\ workers'[w].on = x
        /\ workers'[w].todo = workers[w].todo \ {x} /\ x \in workers[w].todo
        /\ workers[w].at = "next" /\ workers[w].job \in Events
        /\ UNCHANGED <<endpoints, reenabled>>
    BY <1>7, Sending DEF CreateDelivery, GoesOn, Stands, Owned
  <2>2. FailuresStay
    BY <1>7, <2>1, CreateFailures DEF CreateDelivery, FailuresStay
  <2>3. \A e \in Endpoints : Judging(e)' = Judging(e)
    BY <2>1, NotItsWorker
  <2>4. \A e \in Endpoints : Near(e)' \subseteq Near(e)
    BY <2>1, NoNearer DEF Near
  <2> QED BY <1>3, <2>1, <2>2, <2>3, <2>4
<1>8. CASE Succeed(w)
  <2>1. /\ OthersRest(w) /\ workers'[w].at = "next" /\ workers'[w].on = workers[w].on
        /\ workers'[w].todo = workers[w].todo /\ workers[w].at = "send"
        /\ UNCHANGED <<endpoints, reenabled>>
    BY <1>8, Going DEF Succeed, GoesOn, Stands, WorkerAt
  <2>2. FailuresStay
    BY <1>8, <2>1, MarkFailures DEF Succeed, FailuresStay
  <2>3. \A e \in Endpoints : Judging(e)' = Judging(e) /\ Near(e)' \subseteq Near(e)
    BY <2>1, NotItsWorker, NoNearer DEF Near
  <2> QED BY <1>3, <2>1, <2>2, <2>3
<1>9. CASE Fail(w)
  <2>1. /\ OthersRest(w) /\ workers'[w].on = workers[w].on /\ workers'[w].todo = workers[w].todo
        /\ workers[w].at = "send"
    BY <1>9, Going DEF Fail, GoesOn, Stands, WorkerAt
  <2>2. Apart'
    BY <1>1, <2>1, ApartStep DEF Apart
  <2> QED BY <1>1, <1>9, <2>2, FailBounded DEF BreakerInv
<1>10. CASE CheckCircuitBreaker(w)
  <2>1. PICK at \in {"disable", "next"} : Goto(w, at) /\ workers[w].at = "count"
    BY <1>10 DEF CheckCircuitBreaker, Stands
  <2>2. OthersRest(w) /\ workers'[w].on = workers[w].on /\ workers'[w].todo = workers[w].todo
    BY <2>1, Going DEF GoesOn, WorkerAt
  <2>3. Apart'
    BY <1>1, <2>1, <2>2, ApartStep DEF Apart
  <2> QED BY <1>1, <1>10, <2>3, JudgeBounded DEF BreakerInv
<1>11. CASE DisableEndpoint(w)
  <2> DEFINE x == workers[w].on
  <2>1. /\ OthersRest(w) /\ workers'[w].at = "next" /\ workers'[w].on = x
        /\ workers'[w].todo = workers[w].todo /\ workers[w].at = "disable" /\ x \in Endpoints
        /\ UNCHANGED <<reenabled, deliveries>>
    BY <1>11, Going DEF DisableEndpoint, GoesOn, Stands, WorkerAt, Owned
  <2>2. ~endpoints'[x].active /\ \A e \in Endpoints : e # x => endpoints'[e] = endpoints[e]
    BY <1>11, <2>1, SwitchingOff DEF DisableEndpoint
  <2>3. \A e \in Endpoints : e # x => Judging(e)' = Judging(e)
    BY <2>1, NotItsWorker
  <2>4. \A e \in Endpoints : Near(e)' \subseteq Near(e)
    BY <2>1, NoNearer DEF Near
  <2> HIDE DEF x
  <2> QED BY <1>3, <2>1, <2>2, <2>3, <2>4 DEF FailuresStay
<1>12. CASE Finish(w)
  <2>1. /\ OthersRest(w) /\ workers'[w].at = "idle" /\ workers'[w].todo = {} /\ workers[w].at = "next"
        /\ UNCHANGED <<endpoints, reenabled, deliveries>>
    BY <1>12, Idling DEF Finish, Stands
  <2> QED BY <1>4, <2>1
<1> QED BY <1>5, <1>6, <1>7, <1>8, <1>9, <1>10, <1>11, <1>12
    DEF Work, DispatchInline, ListFails, SkipDelivery, LoseUpdate, Crash

-----------------------------------------------------------------------------
(* The tenant, and the rest.                                               *)

(* Nobody moves, and no endpoint without failures is switched on.          *)
LEMMA BreakerStands ==
  ASSUME TypeOK, BreakerInv, UNCHANGED workers, FailuresStay, reenabled \subseteq reenabled',
         \A e \in Endpoints : \/ endpoints'[e].active => endpoints[e].active
                              \/ e \in reenabled'
                              \/ \A j \in Events : deliveries'[j][e]["failed"] = 0
  PROVE  BreakerInv'
<1>1. Apart /\ Apart'
  BY DEF BreakerInv, Apart
<1>2. \A e \in Endpoints : Judging(e)' = Judging(e) /\ Near(e)' = Near(e)
  BY DEF Judging, Near
<1>3. ASSUME NEW e \in Endpoints PROVE Bounded(e)'
  <2>1. CASE endpoints'[e].active => endpoints[e].active
    BY <1>1, <1>2, <2>1, BoundedKept DEF BreakerInv, FailuresStay
  <2>2. CASE e \in reenabled'
    BY <2>2 DEF Bounded
  <2>3. CASE \A j \in Events : deliveries'[j][e]["failed"] = 0
    BY <2>3, BoundedAtZero
  <2> QED BY <2>1, <2>2, <2>3
<1> QED BY <1>1, <1>3 DEF BreakerInv

LEMMA TenantBounded ==
  ASSUME TypeOK, Placed, BreakerInv, Tenant
  PROVE  BreakerInv'
<1>1. PICK e \in Endpoints :
        \/ \E m \in Modes : CreateEndpoint(e, m)
        \/ InsertEndpoint(e) \/ DeleteEndpoint(e)
        \/ \E active, subscribed \in BOOLEAN : UpdateEndpoint(e, active, subscribed)
        \/ \E j, k \in Events, m \in Modes : RetryDelivery(j, e, k, m)
  BY DEF Tenant
<1>2. ASSUME UNCHANGED <<workers, deliveries, reenabled>>,
             \A x \in Endpoints : endpoints'[x].active => endpoints[x].active
      PROVE  BreakerInv'
  BY <1>2, BreakerStands DEF FailuresStay
<1>3. CASE \E m \in Modes : CreateEndpoint(e, m)
  <2>1. PICK m \in Modes : CreateEndpoint(e, m)
    BY <1>3
  <2>2. \A x \in Endpoint : [x EXCEPT !.row = "checked", !.mode = m].active = x.active
    BY DEF Endpoint
  <2>3. endpoints' = [endpoints EXCEPT ![e] = [endpoints[e] EXCEPT !.row = "checked", !.mode = m]]
    BY <2>1 DEF CreateEndpoint, TypeOK
  <2>4. \A x \in Endpoints : endpoints'[x].active => endpoints[x].active
    BY <2>2, <2>3 DEF TypeOK
  <2> QED BY <1>2, <2>1, <2>4 DEF CreateEndpoint
<1>4. CASE InsertEndpoint(e)
  <2>1. /\ UNCHANGED <<workers, deliveries, reenabled>>
        /\ endpoints[e].row # "there"
        /\ \A x \in Endpoints : x # e => endpoints'[x] = endpoints[x]
    BY <1>4 DEF InsertEndpoint, TypeOK
  <2>2. \A j \in Events : deliveries'[j][e]["failed"] = 0
    BY <2>1, NoRowNoFailures
  <2> QED BY <2>1, <2>2, BreakerStands DEF FailuresStay
<1>5. CASE DeleteEndpoint(e)
  BY <1>2, <1>5, SwitchingOff DEF DeleteEndpoint
<1>6. CASE \E active, subscribed \in BOOLEAN : UpdateEndpoint(e, active, subscribed)
  <2>1. PICK active \in BOOLEAN, subscribed \in BOOLEAN : UpdateEndpoint(e, active, subscribed)
    BY <1>6
  <2>2. endpoints'[e].active = active /\ \A x \in Endpoints : x # e => endpoints'[x] = endpoints[x]
    <3>1. \A x \in Endpoint : Updated(x, active, subscribed).active = active
      BY DEF Endpoint, Updated
    <3> QED BY <2>1, <3>1 DEF UpdateEndpoint, TypeOK
  <2>3. /\ UNCHANGED <<workers, deliveries>> /\ reenabled \subseteq reenabled'
        /\ active /\ ~endpoints[e].active => e \in reenabled'
    BY <2>1 DEF UpdateEndpoint
  <2> QED BY <2>2, <2>3, BreakerStands DEF FailuresStay
<1>7. CASE \E j, k \in Events, m \in Modes : RetryDelivery(j, e, k, m)
  BY <1>2, <1>7 DEF RetryDelivery
<1> QED BY <1>1, <1>3, <1>4, <1>5, <1>6, <1>7

LEMMA BreakerNext ==
  ASSUME TypeOK, Owned, Placed, faults = 0 => BreakerInv, [Next]_vars
  PROVE  faults' = 0 => BreakerInv'
<1> SUFFICES ASSUME faults' = 0 PROVE BreakerInv'
  OBVIOUS
<1>0. BreakerInv /\ TypeOK' /\ ~Fault
  BY FaultsStay, TypeStep, Counters
<1>1. CASE UNCHANGED vars
  <2>1. UNCHANGED <<workers, deliveries, reenabled, endpoints>>
    BY <1>1 DEF vars
  <2> QED BY <1>0, <2>1, BreakerStands DEF FailuresStay
<1>2. CASE \E j \in Events : RecoverStaleLocks(j) \/ \E m \in Modes : Enqueue(j, m)
  <2>1. UNCHANGED <<workers, deliveries, reenabled, endpoints>>
    BY <1>2 DEF RecoverStaleLocks, Enqueue
  <2> QED BY <1>0, <2>1, BreakerStands DEF FailuresStay
<1>3. CASE \E w \in Workers : Work(w)
  BY <1>0, <1>3, WorkBounded
<1>4. CASE Tenant
  BY <1>0, <1>4, TenantBounded
<1>5. CASE FailuresAge
  <2>1. UNCHANGED <<workers, endpoints, reenabled>>
    BY <1>5 DEF FailuresAge
  <2>2. \A j \in Events, e \in Endpoints : deliveries'[j][e]["failed"] = 0
    <3> SUFFICES ASSUME NEW j \in Events, NEW e \in Endpoints PROVE deliveries'[j][e]["failed"] = 0
      OBVIOUS
    <3>1. deliveries'[j][e] = [deliveries[j][e] EXCEPT !["failed"] = 0,
                                 !["old_failure"] = @ + deliveries[j][e]["failed"]]
      BY <1>5 DEF FailuresAge
    <3>2. deliveries[j][e] \in Counts
      BY DEF TypeOK, Counts
    <3> QED BY <3>1, <3>2 DEF Counts, DeliveryStatuses
  <2>3. Apart'
    BY <1>0, <2>1 DEF BreakerInv, Apart
  <2> QED BY <2>2, <2>3, BoundedAtZero DEF BreakerInv
<1>6. CASE \E e \in Endpoints : TurnOver(e)
  <2>1. UNCHANGED <<workers, deliveries, reenabled, endpoints>>
    BY <1>6 DEF TurnOver
  <2> QED BY <1>0, <2>1, BreakerStands DEF FailuresStay
<1> QED BY <1>1, <1>2, <1>3, <1>4, <1>5, <1>6 DEF Next

LEMMA BreakerInit == Init => BreakerInv
<1> SUFFICES ASSUME Init PROVE BreakerInv
  OBVIOUS
<1>1. Apart
  BY RowTypes DEF Init, Apart
<1>2. ASSUME NEW e \in Endpoints PROVE Bounded(e)
  <2> DEFINE f == [j \in Events |-> deliveries[j][e]["failed"]]
  <2>1. \A j \in Events : f[j] = 0
    BY DEF Init, NoDelivery, DeliveryStatuses
  <2> HIDE DEF f
  <2>2. Failures(e) = 0
    BY <2>1, WebhookAssumption, SumOfZeros, FailuresAreSums DEF f
  <2>3. /\ Cardinality(Near(e)) \in Nat /\ Cardinality(Judging(e)) \in Nat
        /\ Cardinality(Near(e)) <= Cardinality(Workers)
        /\ Cardinality(Workers) \in Nat /\ Threshold \in Nat \ {0}
    BY ItsWorkers, WorkerSets, WebhookAssumption
  <2> QED BY <2>2, <2>3 DEF Bounded
<1> QED BY <1>1, <1>2 DEF BreakerInv

LEMMA BreakerInvariant == Spec => [](TypeOK /\ (faults = 0 => BreakerInv))
<1> DEFINE B == faults = 0 => BreakerInv
<1>1. Init => B
  BY BreakerInit
<1>2. TypeOK /\ Owned /\ Placed /\ B /\ [Next]_vars => B'
  BY BreakerNext
<1> HIDE DEF B
<1>3. Spec => [](TypeOK /\ B)
  BY <1>1, <1>2, PlacedInvariant, PTL DEF Spec
<1> QED BY <1>3 DEF B

(* The breaker opens, however many workers count at the same time: the one *)
(* that counts last sees every failure before it (dispatcher.go:280), so   *)
(* an endpoint that is on above the threshold has a worker about to switch *)
(* it off.                                                                 *)
THEOREM BreakerDoesOpen == Spec => []BreakerOpens
<1>1. TypeOK /\ (faults = 0 => BreakerInv) => BreakerOpens
  <2> SUFFICES ASSUME TypeOK, BreakerInv, NEW e \in Endpoints, e \notin reenabled,
                      endpoints[e].active, Failures(e) >= Threshold
               PROVE  \E w \in Workers : workers[w].on = e /\ workers[w].at \in {"count", "disable"}
    BY DEF BreakerOpens
  <2>1. Failures(e) < Threshold + Cardinality(Judging(e))
    BY DEF BreakerInv, Bounded
  <2>2. Failures(e) \in Nat /\ Threshold \in Nat /\ Cardinality(Judging(e)) \in Nat
    BY ItsWorkers, WorkerSets, FailuresAreNat, WebhookAssumption
  <2>3. Cardinality(Judging(e)) # 0
    BY <2>1, <2>2
  <2>4. Judging(e) # {}
    BY <2>3, FS_EmptySet
  <2> QED BY <2>4 DEF Judging
<1> QED BY <1>1, BreakerInvariant, PTL

(* A dead endpoint is left alone after fewer failures than the threshold   *)
(* and the number of workers (dispatcher.go:286): the workers that         *)
(* counted too early, and those that have the endpoint in a list made      *)
(* before it was switched off, are different ones.                         *)
THEOREM DeadEndpointsAreLeftAlone == Spec => []NotHammered
<1>1. TypeOK /\ (faults = 0 => BreakerInv) => NotHammered
  <2> SUFFICES ASSUME TypeOK, BreakerInv, NEW e \in Endpoints, e \notin reenabled
               PROVE  Failures(e) < Threshold + Cardinality(Workers)
    BY DEF NotHammered
  <2>1. Failures(e) + Cardinality(Near(e)) < Threshold + Cardinality(Workers)
    BY Capped DEF BreakerInv
  <2>2. /\ Cardinality(Near(e)) \in Nat /\ Failures(e) \in Nat
        /\ Cardinality(Workers) \in Nat /\ Threshold \in Nat
    BY ItsWorkers, WorkerSets, FailuresAreNat, WebhookAssumption
  <2> QED BY <2>1, <2>2
<1> QED BY <1>1, BreakerInvariant, PTL

-----------------------------------------------------------------------------
(* The jobs of events and the promise of the queue.                        *)

(* What the promise of the queue is about, in the records of this module.  *)
(* A caller that delivers by itself executes no job.                       *)
executing ==
  [w \in Workers |->
     IF workers[w].at # "idle" /\ jobs[workers[w].job].status # "inline" THEN workers[w].job ELSE None]
settled == {j \in Events : Finished(jobs[j])}
tries == [j \in Events |-> jobs[j].attempts]
limit == [j \in Events |-> IF jobs[j].status \in {"absent", "inline"} THEN 0 ELSE jobs[j].max]

Queue == INSTANCE ExclusiveJobs WITH Jobs <- Events, Idle <- None, Limits <- {MaxAttempts}

(* A job that is not there yet has not been tried.                         *)
Untried ==
  \A j \in Events : jobs[j].max = MaxAttempts
                    /\ (jobs[j].status = "absent" => jobs[j].attempts = 0)

(* What the statements leave alone.                                        *)
LEMMA RowsCount ==
  /\ \A job \in Job :
       /\ Claimed(job).attempts = job.attempts + 1 /\ Claimed(job).max = job.max
       /\ \A row \in {MarkedDone(job), MarkedFailed(job), Recovered(job)} :
            row.attempts = job.attempts /\ row.max = job.max
  /\ \A m \in Modes, status \in {"pending", "inline"} :
       LET new == [Enqueued(m) EXCEPT !.status = status]
       IN  new.attempts = 0 /\ new.max = MaxAttempts
<1>1. ASSUME NEW job \in Job
      PROVE  /\ Claimed(job).attempts = job.attempts + 1 /\ Claimed(job).max = job.max
             /\ \A row \in {MarkedDone(job), MarkedFailed(job), Recovered(job)} :
                  row.attempts = job.attempts /\ row.max = job.max
  BY DEF Job, Claimed, MarkedDone, MarkedFailed, Recovered
<1>2. ASSUME NEW m \in Modes, NEW status \in {"pending", "inline"}
      PROVE  LET new == [Enqueued(m) EXCEPT !.status = status]
             IN  new.attempts = 0 /\ new.max = MaxAttempts
  BY DEF Enqueued, NoJob
<1> QED BY <1>1, <1>2

(* What the promise sees of a step that writes one job.                    *)
LEMMA OneJob ==
  ASSUME NEW j \in Events, OtherJobsKept(j)
  PROVE  /\ settled' = IF Finished(jobs'[j]) THEN settled \cup {j} ELSE settled \ {j}
         /\ tries' = [tries EXCEPT ![j] = jobs'[j].attempts]
         /\ limit' = [limit EXCEPT ![j] =
                        IF jobs'[j].status \in {"absent", "inline"} THEN 0 ELSE jobs'[j].max]
<1>1. \A k \in Events : k # j => jobs'[k] = jobs[k]
  BY DEF OtherJobsKept
<1>2. settled' = IF Finished(jobs'[j]) THEN settled \cup {j} ELSE settled \ {j}
  BY <1>1 DEF settled, Finished
<1>3. tries' = [tries EXCEPT ![j] = jobs'[j].attempts]
  BY <1>1 DEF tries
<1>4. limit' = [limit EXCEPT ![j] =
                  IF jobs'[j].status \in {"absent", "inline"} THEN 0 ELSE jobs'[j].max]
  BY <1>1 DEF limit
<1> QED BY <1>2, <1>3, <1>4

(* ... and what it does not see.                                           *)
LEMMA OneJobUnseen ==
  ASSUME NEW j \in Events, OtherJobsKept(j)
  PROVE  /\ (Finished(jobs'[j]) <=> Finished(jobs[j])) => settled' = settled
         /\ jobs'[j].attempts = jobs[j].attempts => tries' = tries
         /\ jobs'[j].max = jobs[j].max
              /\ {jobs[j].status, jobs'[j].status} \cap {"absent", "inline"} = {}
              => limit' = limit
<1>1. \A k \in Events : k # j => jobs'[k] = jobs[k]
  BY DEF OtherJobsKept
<1>2. (Finished(jobs'[j]) <=> Finished(jobs[j])) => settled' = settled
  BY <1>1 DEF settled, Finished
<1>3. jobs'[j].attempts = jobs[j].attempts => tries' = tries
  BY <1>1 DEF tries
<1>4. ASSUME jobs'[j].max = jobs[j].max,
             {jobs[j].status, jobs'[j].status} \cap {"absent", "inline"} = {}
      PROVE  limit' = limit
  <2>1. \A k \in Events : limit'[k] = limit[k]
    BY <1>1, <1>4 DEF limit
  <2> QED BY <2>1 DEF limit
<1> QED BY <1>2, <1>3, <1>4

(* Workers that go on with their jobs.                                     *)
LEMMA StillExecuting ==
  ASSUME \A w \in Workers :
           /\ workers'[w].at = "idle" <=> workers[w].at = "idle"
           /\ workers[w].at # "idle" =>
                /\ workers'[w].job = workers[w].job
                /\ jobs'[workers[w].job].status = "inline" <=> jobs[workers[w].job].status = "inline"
  PROVE  executing' = executing
BY DEF executing

LEMMA QueueStutters ==
  ASSUME UNCHANGED jobs, NEW w \in Workers, NEW at \in WorkerAt \ {"idle"},
         workers[w].at # "idle", GoesOn(w, at)
  PROVE  UNCHANGED Queue!vars
<1>1. executing' = executing
  BY StillExecuting DEF GoesOn, OthersRest
<1> QED BY <1>1 DEF Queue!vars, settled, tries, limit

(* A job that is born is submitted, or not for the queue.                  *)
LEMMA BirthQueued ==
  ASSUME TypeOK, Untried, NEW j \in Events, NEW m \in Modes, NEW status \in {"pending", "inline"},
         Born(j, m, status)
  PROVE  /\ jobs[j].status = "absent" /\ OtherJobsKept(j) /\ jobs'[j].status = status
         /\ jobs'[j].attempts = 0 /\ jobs'[j].max = MaxAttempts
         /\ settled' = settled /\ tries' = tries
         /\ status = "inline" => limit' = limit
         /\ status = "pending" => limit[j] = 0 /\ limit' = [limit EXCEPT ![j] = MaxAttempts]
<1>1. jobs[j].status = "absent" /\ OtherJobsKept(j) /\ jobs'[j].status = status
  BY BirthTypes DEF OtherJobsKept
<1>2. jobs'[j].attempts = 0 /\ jobs'[j].max = MaxAttempts
  <2>1. jobs'[j] = [Enqueued(m) EXCEPT !.status = status]
    BY DEF Born, TypeOK
  <2> QED BY <2>1, RowsCount
<1>3. jobs[j].attempts = 0
  BY <1>1 DEF Untried
<1>4. settled' = settled /\ tries' = tries
  <2>1. ~Finished(jobs[j]) /\ ~Finished(jobs'[j])
    BY <1>1 DEF Finished
  <2> QED BY <1>1, <1>2, <1>3, <2>1, OneJobUnseen
<1>5. /\ status = "inline" => limit' = limit
      /\ status = "pending" => limit[j] = 0 /\ limit' = [limit EXCEPT ![j] = MaxAttempts]
  BY <1>1, <1>2, OneJob DEF limit
<1> QED BY <1>1, <1>2, <1>4, <1>5

(* Every step of WebhookDelivery is one the promise allows, or none of its *)
(* own.                                                                    *)
LEMMA WorkQueued ==
  ASSUME TypeOK, Owned, Untried, NEW w \in Workers, Work(w)
  PROVE  Untried' /\ [Queue!Next]_(Queue!vars)
<1>0. ASSUME UNCHANGED jobs PROVE Untried'
  BY <1>0 DEF Untried
<1>1. ASSUME NEW j \in Events, Claim(w, j) PROVE Untried' /\ Queue!Begin(w, j)
  <2>1. /\ OthersRest(w) /\ workers'[w].at = "list" /\ workers'[w].job = j
        /\ OtherJobsKept(j) /\ jobs[j].status = "pending" /\ jobs'[j].status = "processing"
        /\ \A v \in Workers : workers[v].at # "idle" => workers[v].job # j
    BY <1>1, ClaimDoes
  <2>2. jobs'[j].attempts = jobs[j].attempts + 1 /\ jobs'[j].max = jobs[j].max
    <3>1. jobs[j] \in Job /\ jobs'[j] = Claimed(jobs[j])
      BY <1>1 DEF Claim, TypeOK
    <3> QED BY <3>1, RowsCount
  <2>3. jobs[j].attempts < jobs[j].max /\ workers[w].at = "idle"
    BY <1>1 DEF Claim, Claimable, Stands
  <2>4. Untried'
    BY <2>1, <2>2 DEF Untried, OtherJobsKept
  <2>5. executing[w] = None /\ \A v \in Workers : executing[v] # j
    BY <2>1, <2>3, WebhookAssumption DEF executing
  <2>6. j \notin settled /\ tries[j] < limit[j]
    BY <2>1, <2>3 DEF settled, Finished, tries, limit
  <2>7. executing' = [executing EXCEPT ![w] = j]
    <3>1. \A v \in Workers : executing'[v] = IF v = w THEN j ELSE executing[v]
      BY <2>1 DEF executing, OthersRest, OtherJobsKept, Owned
    <3> QED BY <3>1 DEF executing
  <2>8. settled' = settled /\ tries' = [tries EXCEPT ![j] = @ + 1] /\ limit' = limit
    <3>1. ~Finished(jobs[j]) /\ ~Finished(jobs'[j])
      BY <2>1 DEF Finished
    <3>2. settled' = settled /\ limit' = limit
      BY <2>1, <2>2, <3>1, OneJobUnseen
    <3>3. tries' = [tries EXCEPT ![j] = jobs'[j].attempts] /\ tries[j] = jobs[j].attempts
      BY <2>1, OneJob DEF tries
    <3> QED BY <2>2, <3>2, <3>3
  <2> QED BY <2>4, <2>5, <2>6, <2>7, <2>8 DEF Queue!Begin
<1>2. ASSUME NEW j \in Events, NEW m \in Modes, DispatchInline(w, j, m)
      PROVE  Untried' /\ UNCHANGED Queue!vars
  <2>1. /\ Born(j, m, "inline") /\ workers[w].at = "idle"
        /\ OthersRest(w) /\ workers'[w].at = "list" /\ workers'[w].job = j
    BY <1>2, Starting DEF DispatchInline, Stands
  <2>2. /\ jobs[j].status = "absent" /\ OtherJobsKept(j) /\ jobs'[j].status = "inline"
        /\ jobs'[j].max = MaxAttempts
        /\ settled' = settled /\ tries' = tries /\ limit' = limit
    BY <2>1, BirthQueued
  <2>3. \A v \in Workers : workers[v].at # "idle" => workers[v].job \in Events /\ workers[v].job # j
    BY <2>2 DEF Owned, Running
  <2>4. executing' = executing
    <3>1. \A v \in Workers : executing'[v] = executing[v]
      BY <2>1, <2>2, <2>3 DEF executing, OthersRest, OtherJobsKept
    <3> QED BY <3>1 DEF executing
  <2>5. Untried'
    BY <2>2 DEF Untried, OtherJobsKept
  <2> QED BY <2>2, <2>4, <2>5 DEF Queue!vars
<1>3. ASSUME NEW at \in WorkerAt \ {"idle"}, workers[w].at # "idle", GoesOn(w, at), UNCHANGED jobs
      PROVE  Untried' /\ UNCHANGED Queue!vars
  BY <1>0, <1>3, QueueStutters
<1>4. CASE Dispatch(w)
  <2>1. GoesOn(w, "next") /\ workers[w].at = "list" /\ UNCHANGED jobs
    BY <1>4, DispatchDoes
  <2> QED BY <1>3, <2>1 DEF WorkerAt
<1>5. ASSUME NEW e \in Endpoints, CreateDelivery(w, e) PROVE Untried' /\ UNCHANGED Queue!vars
  <2>1. GoesOn(w, "send") /\ workers[w].at = "next" /\ UNCHANGED jobs
    BY <1>5, Sending DEF CreateDelivery, Stands
  <2> QED BY <1>3, <2>1 DEF WorkerAt
<1>6. ASSUME NEW e \in Endpoints, SkipDelivery(w, e) PROVE Untried' /\ UNCHANGED Queue!vars
  <2>1. GoesOn(w, "next") /\ workers[w].at = "next" /\ UNCHANGED jobs
    BY <1>6, SkipDoes
  <2> QED BY <1>3, <2>1 DEF WorkerAt
<1>7. CASE Succeed(w) \/ Fail(w) \/ CheckCircuitBreaker(w) \/ DisableEndpoint(w) \/ LoseUpdate(w)
  <2>1. /\ workers[w].at \in {"send", "count", "disable"} /\ UNCHANGED jobs
        /\ \E at \in {"next", "count", "disable"} : GoesOn(w, at)
    BY <1>7, AnswerDoes
  <2> QED BY <1>3, <2>1 DEF WorkerAt
<1>8. CASE ListFails(w) \/ Finish(w) \/ Crash(w)
  <2> DEFINE j == workers[w].job
  <2>1. /\ OthersRest(w) /\ workers'[w].at = "idle" /\ workers[w].at # "idle"
        /\ j \in Events /\ OtherJobsKept(j)
    BY <1>8, EndDoes
  <2>2. jobs[j] \in Job /\ jobs[j].status \in Running
    BY <2>1 DEF Owned, TypeOK
  <2>3. \/ UNCHANGED jobs
        \/ /\ jobs[j].status = "processing" /\ Finished(jobs'[j])
           /\ jobs'[j].attempts = jobs[j].attempts /\ jobs'[j].max = jobs[j].max
    <3>1. \/ UNCHANGED jobs
          \/ jobs[j].status # "inline" /\ jobs'[j] \in {MarkedDone(jobs[j]), MarkedFailed(jobs[j])}
      BY <1>8, <2>1 DEF ListFails, Finish, Crash, TypeOK
    <3>2. ASSUME jobs'[j] \in {MarkedDone(jobs[j]), MarkedFailed(jobs[j])}
          PROVE  /\ Finished(jobs'[j])
                 /\ jobs'[j].attempts = jobs[j].attempts /\ jobs'[j].max = jobs[j].max
      <4>1. jobs'[j].attempts = jobs[j].attempts /\ jobs'[j].max = jobs[j].max
        BY <2>2, <3>2, RowsCount
      <4>2. jobs'[j].status \in {"done", "failed"}
        BY <2>2, <3>2, RowTypes
      <4> QED BY <4>1, <4>2 DEF Finished
    <3>3. jobs[j].status # "inline" => jobs[j].status = "processing"
      BY <2>2 DEF Running
    <3> QED BY <3>1, <3>2, <3>3
  <2>4. Untried'
    BY <2>1, <2>2, <2>3 DEF Untried, OtherJobsKept, Finished
  <2>5. \A v \in Workers : v # w /\ workers[v].at # "idle" =>
          workers[v].job \in Events /\ workers[v].job # j
    BY <2>1 DEF Owned
  <2>6. /\ executing' = [v \in Workers |-> IF v \in {w} THEN None ELSE executing[v]]
        /\ executing' = [executing EXCEPT ![w] = None]
    <3>1. \A v \in Workers : executing'[v] = IF v \in {w} THEN None ELSE executing[v]
      BY <2>1, <2>5 DEF executing, OthersRest, OtherJobsKept
    <3> QED BY <3>1 DEF executing
  <2>7. CASE UNCHANGED jobs
    <3>1. UNCHANGED <<settled, tries, limit>>
      BY <2>7 DEF settled, tries, limit
    <3>2. Queue!Vanish({w})
      BY <2>6, <3>1 DEF Queue!Vanish
    <3> QED BY <2>4, <3>2 DEF Queue!Next
  <2>8. CASE /\ jobs[j].status = "processing" /\ Finished(jobs'[j])
             /\ jobs'[j].attempts = jobs[j].attempts /\ jobs'[j].max = jobs[j].max
    <3>1. executing[w] = j /\ j # None
      BY <2>1, <2>8, WebhookAssumption DEF executing
    <3>2. settled' = settled \cup {j} /\ tries' = tries /\ limit' = limit
      <4>1. settled' = settled \cup {j}
        BY <2>1, <2>8, OneJob
      <4>2. tries' = tries /\ limit' = limit
        BY <2>1, <2>8, OneJobUnseen DEF Finished
      <4> QED BY <4>1, <4>2
    <3>3. Queue!Settle(w)
      BY <2>6, <3>1, <3>2 DEF Queue!Settle
    <3> QED BY <2>4, <3>3 DEF Queue!Next
  <2> QED BY <2>3, <2>7, <2>8
<1>9. \A j \in Events : Queue!Begin(w, j) => Queue!Next
  BY DEF Queue!Next
<1> QED BY <1>1, <1>2, <1>4, <1>5, <1>6, <1>7, <1>8, <1>9 DEF Work

LEMMA DeliveryQueued ==
  ASSUME TypeOK, Owned, Untried, [Next]_vars
  PROVE  Untried' /\ [Queue!Next]_(Queue!vars)
<1>1. ASSUME UNCHANGED <<jobs, workers>> PROVE Untried' /\ UNCHANGED Queue!vars
  BY <1>1 DEF Untried, Queue!vars, executing, settled, tries, limit
<1>2. ASSUME NEW j \in Events, NEW m \in Modes, Born(j, m, "pending"), UNCHANGED workers
      PROVE  Untried' /\ Queue!Submit(j)
  <2>1. /\ jobs[j].status = "absent" /\ OtherJobsKept(j) /\ jobs'[j].status = "pending"
        /\ jobs'[j].max = MaxAttempts
        /\ settled' = settled /\ tries' = tries
        /\ limit[j] = 0 /\ limit' = [limit EXCEPT ![j] = MaxAttempts]
    BY <1>2, BirthQueued
  <2>2. \A v \in Workers : workers[v].at # "idle" => workers[v].job \in Events /\ workers[v].job # j
    BY <2>1 DEF Owned, Running
  <2>3. executing' = executing
    BY <1>2, <2>1, <2>2, StillExecuting DEF OtherJobsKept
  <2>4. Untried'
    BY <2>1 DEF Untried, OtherJobsKept
  <2> QED BY <2>1, <2>3, <2>4 DEF Queue!Submit
<1>3. ASSUME NEW j \in Events, RecoverStaleLocks(j) PROVE Untried' /\ UNCHANGED Queue!vars
  <2>1. /\ OtherJobsKept(j) /\ jobs[j].status = "processing" /\ jobs'[j].status = "pending"
        /\ (\A w \in Workers : workers[w].job # j) /\ UNCHANGED workers
    BY <1>3, SweepDoes
  <2>2. jobs'[j].attempts = jobs[j].attempts /\ jobs'[j].max = jobs[j].max
    <3>1. jobs[j] \in Job /\ jobs'[j] = Recovered(jobs[j])
      BY <1>3 DEF RecoverStaleLocks, TypeOK
    <3> QED BY <3>1, RowsCount
  <2>3. settled' = settled /\ tries' = tries /\ limit' = limit
    <3>1. ~Finished(jobs[j]) /\ ~Finished(jobs'[j])
      BY <2>1 DEF Finished
    <3> QED BY <2>1, <2>2, <3>1, OneJobUnseen
  <2>4. executing' = executing
    BY <2>1, StillExecuting DEF OtherJobsKept, Owned
  <2>5. Untried'
    BY <2>1, <2>2 DEF Untried, OtherJobsKept
  <2> QED BY <2>3, <2>4, <2>5 DEF Queue!vars
<1>4. CASE UNCHANGED vars
  BY <1>1, <1>4 DEF vars
<1>5. CASE FailuresAge \/ \E e \in Endpoints : TurnOver(e)
  BY <1>1, <1>5 DEF FailuresAge, TurnOver
<1>6. ASSUME NEW j \in Events, NEW m \in Modes, Enqueue(j, m)
      PROVE  Untried' /\ Queue!Next
  BY <1>2, <1>6 DEF Enqueue, Queue!Next
<1>7. CASE Tenant
  <2>1. PICK e \in Endpoints :
          \/ \E m \in Modes : CreateEndpoint(e, m)
          \/ InsertEndpoint(e) \/ DeleteEndpoint(e)
          \/ \E active, subscribed \in BOOLEAN : UpdateEndpoint(e, active, subscribed)
          \/ \E j, k \in Events, m \in Modes : RetryDelivery(j, e, k, m)
    BY <1>7 DEF Tenant
  <2>2. CASE \E j, k \in Events, m \in Modes : RetryDelivery(j, e, k, m)
    BY <1>2, <2>2 DEF RetryDelivery, Queue!Next
  <2>3. CASE ~ \E j, k \in Events, m \in Modes : RetryDelivery(j, e, k, m)
    BY <1>1, <2>1, <2>3, ChangeDoes
  <2> QED BY <2>2, <2>3
<1>8. CASE \E w \in Workers : Work(w)
  BY <1>8, WorkQueued
<1> QED BY <1>3, <1>4, <1>5, <1>6, <1>7, <1>8 DEF Next

LEMMA UntriedInit == Init => Untried /\ Queue!Init
<1> SUFFICES ASSUME Init PROVE Untried /\ Queue!Init
  OBVIOUS
<1>1. /\ \A j \in Events : /\ jobs[j].status = "absent" /\ jobs[j].attempts = 0
                           /\ jobs[j].max = MaxAttempts
      /\ \A w \in Workers : workers[w].at = "idle"
  BY DEF Init, NoJob, IdleWorker
<1> QED BY <1>1 DEF Untried, Queue!Init, executing, settled, tries, limit, Finished

(* Seen from the dispatcher the job of an event behaves as ExclusiveJobs   *)
(* says: one worker at a time sends it, at most five do, and none after it *)
(* was marked, whoever crashed and whatever the sweep gave back; an event  *)
(* that a caller delivers by itself never reaches the queue.               *)
THEOREM EventsAsPromised == Spec => Queue!Spec
<1>1. Untried /\ TypeOK /\ Owned /\ [Next]_vars => Untried'
  BY DeliveryQueued
<1>2. Untried /\ TypeOK /\ Owned /\ [Next]_vars => [Queue!Next]_(Queue!vars)
  BY DeliveryQueued
<1> QED BY <1>1, <1>2, UntriedInit, InductiveInvariant, PTL DEF Spec, Queue!Spec

=============================================================================
