---------------------------- MODULE MCRunTelemetry ----------------------------
(* Three rollouts, two at a time, a ring for two of them with less room than   *)
(* two need.  Ids mean nothing: they are permuted.                            *)
EXTENDS RunTelemetry

Symmetry == Permutations(Rollouts)
=============================================================================
