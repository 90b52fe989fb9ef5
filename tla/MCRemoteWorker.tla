--------------------------- MODULE MCRemoteWorker ---------------------------
(* Two launches through one worker.                                         *)
EXTENDS LaptopSync
=============================================================================
