------------------------------ MODULE RolloutIds ------------------------------
(***************************************************************************)
(* The rollouts of one process: asyncio tasks that share its sandbox pool,   *)
(* its telemetry store and its batch tracker (adapters/slime/generate.py).    *)
(***************************************************************************)
CONSTANT Rollouts   \* the ids
=============================================================================
