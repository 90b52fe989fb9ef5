---------------------------- MODULE MCSandboxPool ----------------------------
(* Small instances of SandboxPool: the rollouts of a batch, more of them    *)
(* than permits, so that some wait while others come back from a backoff,   *)
(* fail or are interrupted.                                                 *)
EXTENDS SandboxPool

CONSTANTS r1, r2, r3

Batch == {r1, r2, r3}
Single == {r1}
=============================================================================
