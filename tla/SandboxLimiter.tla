--------------------------- MODULE SandboxLimiter ---------------------------
(***************************************************************************)
(* What LimitingEnvironmentRuntime promises to the rollouts of a process:  *)
(* at most MaxInFlight of them are between acquiring and giving back their *)
(* place, each passes through once, and a rollout that was given a place   *)
(* gives it back.  Nothing is said of how places are handed out.           *)
(***************************************************************************)
EXTENDS Naturals, FiniteSets

CONSTANTS Rollouts, MaxInFlight

VARIABLE stage          \* stage[r]: where rollout r stands

Stages == {"outside", "inside", "gone"}

Inside == {r \in Rollouts : stage[r] = "inside"}

LimiterInit == stage = [r \in Rollouts |-> "outside"]

Enter(r) ==
    /\ stage[r] = "outside"
    /\ Cardinality(Inside) < MaxInFlight
    /\ stage' = [stage EXCEPT ![r] = "inside"]

\* a rollout that gives its place back, and one that stops before it has one
Leave(r) ==
    /\ stage[r] \in {"inside", "outside"}
    /\ stage' = [stage EXCEPT ![r] = "gone"]

LimiterNext == \E r \in Rollouts : Enter(r) \/ Leave(r)

LimiterSpec == LimiterInit /\ [][LimiterNext]_stage
=============================================================================
