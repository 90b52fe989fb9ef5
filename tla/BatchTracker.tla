----------------------------- MODULE BatchTracker -----------------------------
(***************************************************************************)
(* The training step a rollout is labelled with (telemetry/batches.py): the  *)
(* hook is not told, so a rollout that starts after none has been in flight  *)
(* for min_gap_seconds begins a new step.                                    *)
(***************************************************************************)
EXTENDS Naturals

CONSTANT MaxBatches   \* bound: batches the trainer collects

VARIABLES
  inFlight,   \* rollouts between enter and exit
  step,       \* the current step plus one, 0 before the first
  longIdle,   \* none has been in flight for min_gap_seconds or more
  batch,      \* the batch the trainer collects, from 1
  misled      \* a pause within a batch was long, or the training between two was not

trackerVars == <<inFlight, step, longIdle, batch, misled>>

TrackerInit ==
  /\ inFlight = 0 /\ step = 0 /\ longIdle = FALSE
  /\ batch = 1 /\ misled = FALSE

\* Mutant: rollouts in flight do not matter.
NewStepWhileBusy == step = 0 \/ longIdle

NewStep == inFlight = 0 /\ (step = 0 \/ longIdle)

Enter ==
  /\ step' = IF NewStep THEN step + 1 ELSE step
  /\ inFlight' = inFlight + 1
  /\ UNCHANGED <<longIdle, batch, misled>>

\* The clock starts over when the last one leaves.
Exit ==
  /\ inFlight' = inFlight - 1
  /\ longIdle' = IF inFlight' = 0 THEN FALSE ELSE longIdle
  /\ UNCHANGED <<step, batch, misled>>

\* The trainer has its batch, trains, and starts on the next.
Train ==
  /\ inFlight = 0 /\ step > 0 /\ batch < MaxBatches
  /\ batch' = batch + 1
  /\ \E long \in BOOLEAN :
       /\ longIdle' = (longIdle \/ long)
       /\ misled' = (misled \/ ~long)
  /\ UNCHANGED <<inFlight, step>>

\* All rollouts submitted so far are over and the next is slow to come.
LongPause ==
  /\ inFlight = 0 /\ step > 0 /\ ~longIdle
  /\ longIdle' = TRUE
  /\ misled' = TRUE
  /\ UNCHANGED <<inFlight, step, batch>>
=============================================================================
