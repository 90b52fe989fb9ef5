---------------------------- MODULE MCWorkerJobs ----------------------------
(* Two agents, two jobs and two faults: enough for a report that is lost     *)
(* twice, and for a late report of a job that was enqueued again.            *)
EXTENDS WorkerJobs
=============================================================================
