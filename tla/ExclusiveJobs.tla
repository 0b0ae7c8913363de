--------------------------- MODULE ExclusiveJobs ---------------------------
(***************************************************************************)
(* What the job queue promises to the handlers registered on it: a job is  *)
(* executed by one goroutine at a time, at most limit[j] times, and never  *)
(* again once an execution has been settled.  How rows, locks and sweeps   *)
(* achieve that is the business of JobQueue.                               *)
(***************************************************************************)
EXTENDS Naturals

CONSTANTS Workers, Jobs, Idle, Limits

VARIABLES
  executing,  \* the job each goroutine executes, or Idle
  settled,    \* the jobs with a recorded outcome
  tries,      \* how many executions of each job were started
  limit       \* how many executions each job may have; 0 while not submitted

vars == <<executing, settled, tries, limit>>

Init ==
  /\ executing = [w \in Workers |-> Idle]
  /\ settled = {}
  /\ tries = [j \in Jobs |-> 0]
  /\ limit = [j \in Jobs |-> 0]

Submit(j) ==
  /\ limit[j] = 0
  /\ \E n \in Limits : limit' = [limit EXCEPT ![j] = n]
  /\ UNCHANGED <<executing, settled, tries>>

Begin(w, j) ==
  /\ executing[w] = Idle
  /\ \A v \in Workers : executing[v] # j
  /\ j \notin settled
  /\ tries[j] < limit[j]
  /\ executing' = [executing EXCEPT ![w] = j]
  /\ tries' = [tries EXCEPT ![j] = @ + 1]
  /\ UNCHANGED <<settled, limit>>

Settle(w) ==
  /\ executing[w] # Idle
  /\ settled' = settled \cup {executing[w]}
  /\ executing' = [executing EXCEPT ![w] = Idle]
  /\ UNCHANGED <<tries, limit>>

(* Goroutines stop without an outcome: their process died, or the outcome  *)
(* could not be written.                                                   *)
Vanish(S) ==
  /\ executing' = [w \in Workers |-> IF w \in S THEN Idle ELSE executing[w]]
  /\ UNCHANGED <<settled, tries, limit>>

Next ==
  \/ \E j \in Jobs : Submit(j)
  \/ \E w \in Workers, j \in Jobs : Begin(w, j)
  \/ \E w \in Workers : Settle(w)
  \/ \E S \in SUBSET Workers : Vanish(S)

Spec == Init /\ [][Next]_vars

=============================================================================
