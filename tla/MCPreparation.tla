---------------------------- MODULE MCPreparation ----------------------------
(* Two launches on one host.                                                *)
EXTENDS Preparation
=============================================================================
