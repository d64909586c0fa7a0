----------------------------- MODULE MCWorkerPool -----------------------------
(* Instances of WorkerPool for TLC: more tasks than threads, more threads  *)
(* than connection slots.                                                  *)
EXTENDS WorkerPool, TLC

CONSTANTS t1, t2, t3

(* A first run, or a run after a process that completed, failed or was     *)
(* killed with the mailbox running.                                        *)
AnyOldJobs == [Tasks -> {"none", "running", "completed", "failed"}]
=============================================================================
