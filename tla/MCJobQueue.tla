----------------------------- MODULE MCJobQueue -----------------------------
(***************************************************************************)
(* JobQueue on three goroutines in two processes and two rows.  Each       *)
(* process has a goroutine named "worker-1", so two goroutines sweep.      *)
(***************************************************************************)
EXTENDS JobQueue

CONSTANTS w1, w2, w3

MCWorkers == {w1, w2, w3}
MCProcesses == {{w1, w2}, {w3}}
MCSweepers == {w1, w3}

=============================================================================
