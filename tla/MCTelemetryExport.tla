-------------------------- MODULE MCTelemetryExport --------------------------
(* A small exporter: the queue, a batch and a file are all smaller than what *)
(* two rollouts emit.                                                        *)
EXTENDS TelemetryExport
=============================================================================
