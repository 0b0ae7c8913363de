-------------------------- MODULE JobQueue_proofs --------------------------
(***************************************************************************)
(* Proofs about JobQueue, for any pool, any table and any number of        *)
(* crashes.  The argument is one invariant: a goroutine inside a handler   *)
(* holds the lock of its row and that lock is fresh, so the sweep leaves   *)
(* the row alone and no other goroutine can claim it.                      *)
(***************************************************************************)
EXTENDS JobQueue, TLAPS

(* While a handler runs, its row is locked by its goroutine and fresh. *)
LocksHeld ==
  \A w \in Workers :
    doing[w] # Idle =>
      /\ rows[doing[w]].status = "processing"
      /\ rows[doing[w]].locked_by = w
      /\ ~rows[doing[w]].stale

(* A row that was not inserted is blank, and only such a row has no limit. *)
AbsentRowsAreBlank ==
  \A j \in Jobs :
    /\ rows[j].status = "absent" => rows[j] = AbsentRow
    /\ rows[j].status # "absent" => rows[j].max \in Limits

IInv == TypeOK /\ LocksHeld /\ AbsentRowsAreBlank

-----------------------------------------------------------------------------

(* The blank row and an inserted row are rows of the table. *)
LEMMA RowsOfTheTable ==
  /\ AbsentRow \in Row
  /\ \A at \in Times, max \in Limits :
       PendingRow(at, max) \in Row /\ PendingRow(at, max).max = max
                                   /\ PendingRow(at, max).status = "pending"
                                   /\ PendingRow(at, max).attempts = 0
BY QueueAssumption DEF Row, AbsentRow, PendingRow, JobStatuses

(* A claim locks the row for its goroutine and counts the attempt. *)
LEMMA ClaimedRow ==
  ASSUME NEW r \in Row, NEW w \in Workers
  PROVE  /\ LockedFor(r, w) \in Row
         /\ LockedFor(r, w).status = "processing"
         /\ LockedFor(r, w).attempts = r.attempts + 1
         /\ LockedFor(r, w).max = r.max
         /\ LockedFor(r, w).locked_by = w
         /\ LockedFor(r, w).stale = FALSE
<1> DEFINE c == Claimed(r)
<1>0. r.attempts + 1 \in Nat
  BY DEF Row
<1>1. c \in Row /\ c.status = "processing" /\ c.attempts = r.attempts + 1 /\ c.max = r.max
  <2>1. \A n \in Nat :
          LET d == [r EXCEPT !.status = "processing", !.attempts = n]
          IN  d \in Row /\ d.status = "processing" /\ d.attempts = n /\ d.max = r.max
    BY DEF Row, JobStatuses
  <2> QED BY <1>0, <2>1 DEF Claimed
<1>2. LockedFor(r, w) = [c EXCEPT !.locked_by = w, !.stale = FALSE]
  BY DEF LockedFor
<1> HIDE DEF c
<1> QED BY <1>1, <1>2 DEF Row

(* The end of an execution settles the row and leaves the rest of it.  *)
LEMMA SettledRow ==
  ASSUME NEW r \in Row
  PROVE  /\ MarkedDone(r) \in Row /\ MarkedFailed(r) \in Row
         /\ MarkedDone(r).status = "done" /\ MarkedFailed(r).status = "failed"
         /\ MarkedDone(r).attempts = r.attempts /\ MarkedFailed(r).attempts = r.attempts
         /\ MarkedDone(r).max = r.max /\ MarkedFailed(r).max = r.max
BY DEF MarkedDone, MarkedFailed, Row, JobStatuses

(* The sweep turns a processing row whose lock is stale into a pending one *)
(* and changes no other row.                                               *)
LEMMA SweptRow ==
  ASSUME NEW r \in Row
  PROVE  /\ Swept(r) \in Row
         /\ Swept(r).attempts = r.attempts /\ Swept(r).max = r.max
         /\ ~(r.status = "processing" /\ r.stale) => Swept(r) = r
         /\ r.status = "processing" /\ r.stale => Swept(r).status = "pending"
<1> DEFINE c == Recovered(r)
<1>1. c \in Row /\ c.status = "pending" /\ c.attempts = r.attempts /\ c.max = r.max
  BY DEF Recovered, Row, JobStatuses
<1>2. CASE Sweepable(r)
  <2>1. Swept(r) = [c EXCEPT !.locked_by = Nobody, !.stale = FALSE]
    BY <1>2 DEF Swept
  <2>2. r.status = "processing" /\ r.stale
    BY <1>2 DEF Sweepable, Recoverable
  <2> HIDE DEF c
  <2> QED BY <1>1, <2>1, <2>2 DEF Row
<1>3. CASE ~Sweepable(r)
  BY <1>3 DEF Swept, Sweepable, Recoverable
<1> QED BY <1>2, <1>3

(* Each step keeps the table a table and the pool a pool. *)
LEMMA TypeStep == TypeOK /\ [Next]_vars => TypeOK'
<1> SUFFICES ASSUME TypeOK, [Next]_vars PROVE TypeOK'
  OBVIOUS
<1> USE DEF TypeOK
<1>1. ASSUME NEW j \in Jobs, Enqueue(j) PROVE TypeOK'
  BY <1>1, RowsOfTheTable DEF Enqueue
<1>2. ASSUME NEW j \in Jobs, FallDue(j) PROVE TypeOK'
  BY <1>2 DEF FallDue, Row
<1>3. ASSUME NEW j \in Jobs, LockAges(j) PROVE TypeOK'
  BY <1>3 DEF LockAges, Row
<1>4. ASSUME NEW w \in Workers, ClaimNext(w) PROVE TypeOK'
  <2>1. PICK j \in Offered : /\ rows' = [rows EXCEPT ![j] = LockedFor(@, w)]
                             /\ doing' = [doing EXCEPT ![w] = j]
    BY <1>4 DEF ClaimNext
  <2>2. j \in Jobs
    BY DEF Offered
  <2>3. LockedFor(rows[j], w) \in Row
    BY <2>2, ClaimedRow
  <2> QED BY <1>4, <2>1, <2>2, <2>3 DEF ClaimNext
<1>5. ASSUME NEW w \in Workers, Return(w) PROVE TypeOK'
  <2>1. CASE Succeed(w)
    <3>1. MarkedDone(rows[doing[w]]) \in Row
      BY <2>1, SettledRow DEF Succeed
    <3> QED BY <2>1, <3>1 DEF Succeed
  <2>2. CASE Fail(w)
    <3>1. MarkedFailed(rows[doing[w]]) \in Row
      BY <2>2, SettledRow DEF Fail
    <3> QED BY <2>2, <3>1 DEF Fail
  <2>3. CASE LoseOutcome(w)
    BY <2>3 DEF LoseOutcome
  <2> QED BY <1>5, <2>1, <2>2, <2>3 DEF Return
<1>6. ASSUME NEW w \in Sweepers, RecoverStaleLocks(w) PROVE TypeOK'
  <2>1. \A j \in Jobs : Swept(rows[j]) \in Row
    BY SweptRow
  <2> QED BY <1>6, <2>1 DEF RecoverStaleLocks
<1>7. ASSUME NEW P \in Processes, Crash(P) PROVE TypeOK'
  BY <1>7 DEF Crash
<1>8. CASE UNCHANGED vars
  BY <1>8 DEF vars
<1> QED BY <1>1, <1>2, <1>3, <1>4, <1>5, <1>6, <1>7, <1>8 DEF Next

(* Type correctness: whatever handlers do and however long they take. *)
THEOREM TypeCorrect == Spec => []TypeOK
<1>1. Init => TypeOK
  BY RowsOfTheTable DEF Init, TypeOK
<1> QED BY <1>1, TypeStep, PTL DEF Spec

-----------------------------------------------------------------------------

(* A row that is being executed changes only by the end of its execution,  *)
(* by the death of its goroutine or by ageing, and with quick handlers it  *)
(* does not age.                                                           *)
LEMMA LockStep ==
  ASSUME HandlersAreQuick, TypeOK, LocksHeld, [Next]_vars
  PROVE  LocksHeld'
<1> SUFFICES ASSUME NEW w \in Workers, doing'[w] # Idle
             PROVE  /\ rows'[doing'[w]].status = "processing"
                    /\ rows'[doing'[w]].locked_by = w
                    /\ ~rows'[doing'[w]].stale
  BY DEF LocksHeld
<1> USE DEF TypeOK
<1>0. ASSUME doing[w] # Idle
      PROVE  /\ doing[w] \in Jobs
             /\ rows[doing[w]].status = "processing"
             /\ rows[doing[w]].locked_by = w
             /\ ~rows[doing[w]].stale
  BY <1>0 DEF LocksHeld
<1>1. ASSUME NEW j \in Jobs, Enqueue(j) PROVE doing'[w] = doing[w] /\ rows'[doing[w]] = rows[doing[w]]
  <2>1. doing'[w] = doing[w] /\ doing[w] # Idle
    BY <1>1 DEF Enqueue
  <2>2. doing[w] # j
    BY <1>0, <1>1, <2>1 DEF Enqueue
  <2> QED BY <1>0, <1>1, <2>1, <2>2 DEF Enqueue
<1>2. ASSUME NEW j \in Jobs, FallDue(j) PROVE doing'[w] = doing[w] /\ rows'[doing[w]] = rows[doing[w]]
  <2>1. doing'[w] = doing[w] /\ doing[w] # Idle
    BY <1>2 DEF FallDue
  <2>2. doing[w] # j
    BY <1>0, <1>2, <2>1 DEF FallDue
  <2> QED BY <1>0, <1>2, <2>1, <2>2 DEF FallDue
<1>3. ASSUME NEW j \in Jobs, LockAges(j) PROVE doing'[w] = doing[w] /\ rows'[doing[w]] = rows[doing[w]]
  <2>1. doing'[w] = doing[w] /\ doing[w] # Idle
    BY <1>3 DEF LockAges
  <2>2. doing[w] # j
    BY <1>3 DEF LockAges
  <2> QED BY <1>0, <1>3, <2>1, <2>2 DEF LockAges
<1>4. ASSUME NEW v \in Workers, ClaimNext(v)
      PROVE  \/ doing'[w] = doing[w] /\ rows'[doing[w]] = rows[doing[w]]
             \/ /\ rows'[doing'[w]].status = "processing"
                /\ rows'[doing'[w]].locked_by = w
                /\ ~rows'[doing'[w]].stale
  <2>1. PICK j \in Offered : /\ rows' = [rows EXCEPT ![j] = LockedFor(@, v)]
                             /\ doing' = [doing EXCEPT ![v] = j]
    BY <1>4 DEF ClaimNext
  <2>2. j \in Jobs /\ rows[j].status = "pending"
    BY DEF Offered, Claimable
  <2>3. CASE w = v
    <3>1. doing'[w] = j /\ rows'[j] = LockedFor(rows[j], w)
      BY <2>1, <2>2, <2>3
    <3>2. /\ LockedFor(rows[j], w).status = "processing"
          /\ LockedFor(rows[j], w).locked_by = w
          /\ LockedFor(rows[j], w).stale = FALSE
      BY <2>2, ClaimedRow
    <3> QED BY <3>1, <3>2
  <2>4. CASE w # v
    <3>1. doing'[w] = doing[w] /\ doing[w] # Idle
      BY <2>1, <2>4
    <3>2. doing[w] # j
      BY <1>0, <2>2, <3>1
    <3> QED BY <1>0, <2>1, <3>1, <3>2
  <2> QED BY <2>3, <2>4
<1>5. ASSUME NEW v \in Workers, Return(v) PROVE doing'[w] = doing[w] /\ rows'[doing[w]] = rows[doing[w]]
  <2>1. w # v /\ doing'[w] = doing[w] /\ doing[w] # Idle
    BY <1>5 DEF Return, Succeed, Fail, LoseOutcome
  <2>2. doing[v] # Idle => doing[v] # doing[w]
    BY <1>0, <2>1 DEF LocksHeld
  <2> QED BY <1>0, <1>5, <2>1, <2>2 DEF Return, Succeed, Fail, LoseOutcome
<1>6. ASSUME NEW v \in Sweepers, RecoverStaleLocks(v)
      PROVE  doing'[w] = doing[w] /\ rows'[doing[w]] = rows[doing[w]]
  <2>1. doing'[w] = doing[w] /\ doing[w] # Idle
    BY <1>6 DEF RecoverStaleLocks
  <2>2. Swept(rows[doing[w]]) = rows[doing[w]]
    BY <1>0, <2>1, SweptRow
  <2> QED BY <1>0, <1>6, <2>1, <2>2 DEF RecoverStaleLocks
<1>7. ASSUME NEW P \in Processes, Crash(P) PROVE doing'[w] = doing[w] /\ rows'[doing[w]] = rows[doing[w]]
  BY <1>7 DEF Crash
<1>8. CASE UNCHANGED vars
  BY <1>0, <1>8 DEF vars
<1>9. CASE doing'[w] = doing[w] /\ rows'[doing[w]] = rows[doing[w]]
  BY <1>0, <1>9
<1> QED BY <1>1, <1>2, <1>3, <1>4, <1>5, <1>6, <1>7, <1>8, <1>9 DEF Next

(* Two goroutines with the same job would both be its locked_by. *)
LEMMA LocksExclude == LocksHeld => OneWorkerPerJob
BY DEF LocksHeld, OneWorkerPerJob

(* No job is ever executed by two goroutines at once, for every pool,      *)
(* table, order of claims, lost outcome, sweep and crash, as long as no    *)
(* live handler outlives the ten minutes of its lock.                      *)
THEOREM Exclusion == ASSUME HandlersAreQuick PROVE Spec => []OneWorkerPerJob
<1> DEFINE I == TypeOK /\ LocksHeld
<1>1. Init => I
  BY RowsOfTheTable DEF Init, TypeOK, LocksHeld
<1>2. I /\ [Next]_vars => I'
  BY TypeStep, LockStep
<1>3. I => OneWorkerPerJob
  BY LocksExclude
<1> QED BY <1>1, <1>2, <1>3, PTL DEF Spec

-----------------------------------------------------------------------------

(* Absent rows stay blank: only Enqueue makes a row present.               *)
LEMMA BlankStep ==
  ASSUME TypeOK, LocksHeld, AbsentRowsAreBlank, [Next]_vars
  PROVE  AbsentRowsAreBlank'
<1> SUFFICES ASSUME NEW k \in Jobs
             PROVE  /\ rows'[k].status = "absent" => rows'[k] = AbsentRow
                    /\ rows'[k].status # "absent" => rows'[k].max \in Limits
  BY DEF AbsentRowsAreBlank
<1> USE DEF TypeOK
<1>0. /\ rows[k] \in Row
      /\ rows[k].status = "absent" => rows[k] = AbsentRow
      /\ rows[k].status # "absent" => rows[k].max \in Limits
  BY DEF AbsentRowsAreBlank
<1>1. ASSUME NEW j \in Jobs, Enqueue(j)
      PROVE  \/ rows'[k] = rows[k]
             \/ rows'[k].status # "absent" /\ rows'[k].max \in Limits
  BY <1>1, RowsOfTheTable DEF Enqueue
<1>2. ASSUME NEW j \in Jobs, FallDue(j)
      PROVE  \/ rows'[k] = rows[k]
             \/ rows[k].status # "absent" /\ rows'[k].status # "absent" /\ rows'[k].max = rows[k].max
  BY <1>2 DEF FallDue, Row
<1>3. ASSUME NEW j \in Jobs, LockAges(j)
      PROVE  \/ rows'[k] = rows[k]
             \/ rows[k].status # "absent" /\ rows'[k].status # "absent" /\ rows'[k].max = rows[k].max
  <2>1. rows[j].status # "absent"
    BY <1>3 DEF LockAges, AbsentRowsAreBlank, AbsentRow
  <2> QED BY <1>3, <2>1 DEF LockAges, Row
<1>4. ASSUME NEW w \in Workers, ClaimNext(w)
      PROVE  \/ rows'[k] = rows[k]
             \/ rows[k].status # "absent" /\ rows'[k].status # "absent" /\ rows'[k].max = rows[k].max
  <2>1. PICK j \in Offered : rows' = [rows EXCEPT ![j] = LockedFor(@, w)]
    BY <1>4 DEF ClaimNext
  <2>2. j \in Jobs /\ rows[j].status = "pending"
    BY DEF Offered, Claimable
  <2>3. LockedFor(rows[j], w).status = "processing" /\ LockedFor(rows[j], w).max = rows[j].max
    BY <2>2, ClaimedRow
  <2> QED BY <2>1, <2>2, <2>3
<1>5. ASSUME NEW w \in Workers, Return(w)
      PROVE  \/ rows'[k] = rows[k]
             \/ rows[k].status # "absent" /\ rows'[k].status # "absent" /\ rows'[k].max = rows[k].max
  <2>1. doing[w] \in Jobs /\ rows[doing[w]].status = "processing"
    BY <1>5 DEF LocksHeld, Return, Succeed, Fail, LoseOutcome
  <2>2. /\ MarkedDone(rows[doing[w]]).status = "done"
        /\ MarkedFailed(rows[doing[w]]).status = "failed"
        /\ MarkedDone(rows[doing[w]]).max = rows[doing[w]].max
        /\ MarkedFailed(rows[doing[w]]).max = rows[doing[w]].max
    BY <2>1, SettledRow
  <2> QED BY <1>5, <2>1, <2>2 DEF Return, Succeed, Fail, LoseOutcome
<1>6. ASSUME NEW w \in Sweepers, RecoverStaleLocks(w)
      PROVE  \/ rows'[k] = rows[k]
             \/ rows[k].status # "absent" /\ rows'[k].status # "absent" /\ rows'[k].max = rows[k].max
  <2>1. rows'[k] = Swept(rows[k])
    BY <1>6 DEF RecoverStaleLocks
  <2> QED BY <2>1, SweptRow
<1>7. ASSUME NEW P \in Processes, Crash(P) PROVE rows'[k] = rows[k]
  BY <1>7 DEF Crash
<1>8. CASE UNCHANGED vars
  BY <1>0, <1>8 DEF vars
<1> QED BY <1>0, <1>1, <1>2, <1>3, <1>4, <1>5, <1>6, <1>7, <1>8 DEF Next

LEMMA InductiveInvariant == ASSUME HandlersAreQuick PROVE Spec => []IInv
<1>1. Init => IInv
  BY RowsOfTheTable DEF Init, IInv, TypeOK, LocksHeld, AbsentRowsAreBlank, AbsentRow
<1>2. IInv /\ [Next]_vars => IInv'
  BY TypeStep, LockStep, BlankStep DEF IInv
<1> QED BY <1>1, <1>2, PTL DEF Spec

(* The starting table is the queue nobody submitted to. *)
LEMMA StartsPromise == Init => Promise!Init
BY DEF Init, Promise!Init, settled, tries, limit, AbsentRow, Finished

(* Steps that change no outcome, count or limit are invisible.             *)
LEMMA Invisible ==
  ASSUME TypeOK, UNCHANGED doing,
         \A j \in Jobs : /\ rows'[j].max = rows[j].max
                         /\ rows'[j].attempts = rows[j].attempts
                         /\ Finished(rows'[j]) <=> Finished(rows[j])
  PROVE  UNCHANGED Promise!vars
BY DEF Promise!vars, settled, tries, limit

(* Every step of the queue is a step of the promise, or invisible to it.   *)
LEMMA StepsPromise ==
  ASSUME IInv, IInv', [Next]_vars
  PROVE  [Promise!Next]_(Promise!vars)
<1> USE DEF IInv, TypeOK
<1>1. ASSUME NEW j \in Jobs, Enqueue(j) PROVE Promise!Submit(j)
  <2>1. PICK at \in Times, max \in Limits : rows' = [rows EXCEPT ![j] = PendingRow(at, max)]
    BY <1>1 DEF Enqueue
  <2>2. rows[j] = AbsentRow
    BY <1>1 DEF Enqueue, AbsentRowsAreBlank
  <2>3. /\ PendingRow(at, max).max = max /\ PendingRow(at, max).status = "pending"
        /\ PendingRow(at, max).attempts = 0
    BY RowsOfTheTable
  <2>4. limit[j] = 0 /\ limit' = [limit EXCEPT ![j] = max]
    <3>1. \A k \in Jobs : rows'[k].max = IF k = j THEN max ELSE rows[k].max
      BY <2>1, <2>3
    <3>2. rows[j].max = 0
      BY <2>2 DEF AbsentRow
    <3> QED BY <3>1, <3>2 DEF limit
  <2>5. tries' = tries
    BY <2>1, <2>2, <2>3 DEF tries, AbsentRow
  <2>6. settled' = settled
    BY <2>1, <2>2, <2>3 DEF settled, Finished, AbsentRow
  <2>7. doing' = doing
    BY <1>1 DEF Enqueue
  <2> QED BY <2>4, <2>5, <2>6, <2>7 DEF Promise!Submit
<1>2. ASSUME NEW j \in Jobs, FallDue(j) \/ LockAges(j) PROVE UNCHANGED Promise!vars
  <2>1. UNCHANGED doing
    BY <1>2 DEF FallDue, LockAges
  <2>2. \A k \in Jobs : /\ rows'[k].max = rows[k].max
                        /\ rows'[k].attempts = rows[k].attempts
                        /\ rows'[k].status = rows[k].status
    BY <1>2 DEF FallDue, LockAges, Row
  <2> QED BY <2>1, <2>2, Invisible DEF Finished
<1>3. ASSUME NEW w \in Workers, ClaimNext(w) PROVE \E j \in Jobs : Promise!Begin(w, j)
  <2>1. PICK j \in Offered : /\ rows' = [rows EXCEPT ![j] = LockedFor(@, w)]
                             /\ doing' = [doing EXCEPT ![w] = j]
    BY <1>3 DEF ClaimNext
  <2>2. j \in Jobs /\ rows[j].status = "pending" /\ rows[j].attempts < rows[j].max
    BY DEF Offered, Claimable
  <2>3. /\ LockedFor(rows[j], w).status = "processing"
        /\ LockedFor(rows[j], w).attempts = rows[j].attempts + 1
        /\ LockedFor(rows[j], w).max = rows[j].max
    BY <2>2, ClaimedRow
  <2>4. \A v \in Workers : doing[v] # j
    BY <2>2, QueueAssumption DEF LocksHeld
  <2>5. j \notin settled /\ tries[j] < limit[j]
    BY <2>2 DEF settled, Finished, tries, limit
  <2>6. limit' = limit /\ tries' = [tries EXCEPT ![j] = @ + 1]
    BY <2>1, <2>2, <2>3 DEF limit, tries
  <2>7. settled' = settled
    BY <2>1, <2>2, <2>3 DEF settled, Finished
  <2>8. doing[w] = Idle
    BY <1>3 DEF ClaimNext
  <2>9. Promise!Begin(w, j)
    BY <2>1, <2>4, <2>5, <2>6, <2>7, <2>8 DEF Promise!Begin
  <2> QED BY <2>2, <2>9
<1>4. ASSUME NEW w \in Workers, Succeed(w) \/ Fail(w) PROVE Promise!Settle(w)
  <2> DEFINE j == doing[w]
  <2>1. j \in Jobs /\ j # Idle /\ doing' = [doing EXCEPT ![w] = Idle]
    BY <1>4 DEF Succeed, Fail
  <2>2. \/ rows' = [rows EXCEPT ![j] = MarkedDone(@)]
        \/ rows' = [rows EXCEPT ![j] = MarkedFailed(@)]
    BY <1>4 DEF Succeed, Fail
  <2>3. /\ rows'[j].status \in {"done", "failed"}
        /\ rows'[j].attempts = rows[j].attempts
        /\ rows'[j].max = rows[j].max
    BY <2>1, <2>2, SettledRow
  <2>4. \A k \in Jobs : k # j => rows'[k] = rows[k]
    BY <2>1, <2>2
  <2>5. limit' = limit /\ tries' = tries
    BY <2>1, <2>3, <2>4 DEF limit, tries
  <2>6. settled' = settled \cup {j}
    BY <2>1, <2>3, <2>4 DEF settled, Finished
  <2> QED BY <2>1, <2>5, <2>6 DEF Promise!Settle
<1>5. ASSUME NEW w \in Workers, LoseOutcome(w) PROVE Promise!Vanish({w})
  <2>1. rows' = rows /\ doing' = [v \in Workers |-> IF v \in {w} THEN Idle ELSE doing[v]]
    BY <1>5 DEF LoseOutcome
  <2> QED BY <2>1 DEF Promise!Vanish, settled, tries, limit
<1>6. ASSUME NEW w \in Sweepers, RecoverStaleLocks(w) PROVE UNCHANGED Promise!vars
  <2>1. UNCHANGED doing /\ \A k \in Jobs : rows'[k] = Swept(rows[k])
    BY <1>6 DEF RecoverStaleLocks
  <2>2. \A k \in Jobs : /\ rows'[k].max = rows[k].max
                        /\ rows'[k].attempts = rows[k].attempts
                        /\ Finished(rows'[k]) <=> Finished(rows[k])
    BY <2>1, SweptRow DEF Finished
  <2> QED BY <2>1, <2>2, Invisible
<1>7. ASSUME NEW P \in Processes, Crash(P) PROVE \E S \in SUBSET Workers : Promise!Vanish(S)
  <2>1. rows' = rows /\ doing' = [v \in Workers |-> IF v \in P THEN Idle ELSE doing[v]]
    BY <1>7 DEF Crash
  <2>2. P \in SUBSET Workers
    BY QueueAssumption
  <2>3. Promise!Vanish(P)
    BY <2>1 DEF Promise!Vanish, settled, tries, limit
  <2> QED BY <2>2, <2>3
<1>8. CASE UNCHANGED vars
  BY <1>8 DEF vars, Promise!vars, settled, tries, limit
<1> QED BY <1>1, <1>2, <1>3, <1>4, <1>5, <1>6, <1>7, <1>8 DEF Next, Return, Promise!Next

(* The table implements ExclusiveJobs: seen from the handlers, executions  *)
(* of a job follow one another, are at most max_attempts and stop for good *)
(* with the first outcome that is written.                                 *)
THEOREM KeepsItsPromise == ASSUME HandlersAreQuick PROVE Spec => KeepsPromise
<1>1. IInv /\ IInv' /\ [Next]_vars => [Promise!Next]_(Promise!vars)
  BY StepsPromise
<1> QED BY <1>1, StartsPromise, InductiveInvariant, PTL
       DEF Spec, KeepsPromise, Promise!Spec

=============================================================================
