SPECIFICATION Spec
CONSTANTS
  Rollouts = {r1, r2, r3}
  MaxRollouts = 2
  MaxSpans = 8
  MaxBatches = 3
  MaxRunning = 2
SYMMETRY Symmetry
CHECK_DEADLOCK FALSE
INVARIANTS TimelineIsWhole FailureIsTold CountedOnce StepIsBatch
