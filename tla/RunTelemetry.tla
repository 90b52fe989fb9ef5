----------------------------- MODULE RunTelemetry -----------------------------
(***************************************************************************)
(* What the rollouts of one process tell of themselves                      *)
(* (adapters/slime/generate.py, runtime/rollout.py, telemetry/traces.py,     *)
(* telemetry/metrics.py): each enters the batch tracker, opens a span for    *)
(* itself and one for every await, closes them as it comes out of them, with  *)
(* the exception on its way if there is one, and adds its outcome.  Rollouts  *)
(* interleave at their awaits.                                               *)
(***************************************************************************)
EXTENDS TelemetryStore, BatchTracker, FiniteSets

CONSTANT MaxRunning   \* bound: the rollouts the trainer lets run at once

VARIABLES
  at,        \* where a rollout is: "off", one of its awaits, or "ended"
  status,    \* of its trajectory: "completed", or "aborted" for failed and
             \* aborted ones, which are told alike
  raised,    \* generate() ended by raising
  counted,   \* how often rollout.count was incremented for it
  stepOf,    \* the step it was labelled with
  batchOf,   \* the batch it was started for
  unseen     \* rollouts that ended by an exception outside every span

rolloutVars == <<at, status, raised, counted, stepOf, batchOf>>
vars == <<storeVars, trackerVars, rolloutVars, unseen>>

Init ==
  /\ StoreInit /\ TrackerInit
  /\ at = [r \in Rollouts |-> "off"]
  /\ status = [r \in Rollouts |-> "running"]
  /\ raised = [r \in Rollouts |-> FALSE]
  /\ counted = [r \in Rollouts |-> 0]
  /\ stepOf = [r \in Rollouts |-> 0]
  /\ batchOf = [r \in Rollouts |-> 0]
  /\ unseen = {}

Running == {r \in Rollouts : at[r] \notin {"off", "ended"}}
Bad(s) == s = "aborted"

Start(r) ==
  /\ at[r] = "off" /\ Cardinality(Running) < MaxRunning
  /\ Enter
  /\ at' = [at EXCEPT ![r] = "provision"]
  /\ stepOf' = [stepOf EXCEPT ![r] = step']
  /\ batchOf' = [batchOf EXCEPT ![r] = batch]
  /\ UNCHANGED <<storeVars, status, raised, counted>>

Goes(r, to) == at' = [at EXCEPT ![r] = to]
Turns(r, st) == status' = [status EXCEPT ![r] = st]
Counts(r) == counted' = [counted EXCEPT ![r] = @ + 1]

\* generate() is left by an exception, or as it should be.
Ends(r, raising) ==
  /\ Goes(r, "ended")
  /\ raised' = [raised EXCEPT ![r] = raising]
  /\ Exit

\* The span of the root is closed with the status, unless an exception came in
\* the way of setting it, and the rollout is counted.
RootSpan(st) == Span("rollout", Bad(st))
RootBroken == Span("rollout", TRUE)

\* create is answered.
Provisioned(r) ==
  /\ at[r] = "provision"
  /\ Record(r, Span("sandbox.provision", FALSE), Running)
  /\ Goes(r, "generate")
  /\ UNCHANGED <<trackerVars, status, raised, counted, stepOf, batchOf>>

\* create fails or the time is up: there is no sandbox to close.
ProvisionFails(r) ==
  /\ at[r] = "provision"
  /\ Turns(r, "aborted")
  /\ RecordBoth(r, Span("sandbox.provision", TRUE), RootSpan("aborted"), Running)
  /\ Counts(r)
  /\ Goes(r, "reward")
  /\ UNCHANGED <<trackerVars, raised, stepOf, batchOf>>

ProvisionCancelled(r) ==
  /\ at[r] = "provision"
  /\ Turns(r, "aborted") /\ Counts(r)
  /\ RecordBoth(r, Span("sandbox.provision", TRUE), RootBroken, Running)
  /\ Ends(r, TRUE)
  /\ UNCHANGED <<stepOf, batchOf>>

Generated(r) ==
  /\ at[r] = "generate"
  /\ Record(r, Span("inference.generate", FALSE), Running)
  /\ Turns(r, "completed")
  /\ Goes(r, "finalize")
  /\ UNCHANGED <<trackerVars, raised, counted, stepOf, batchOf>>

GenerateFails(r) ==
  /\ at[r] = "generate"
  /\ Record(r, Span("inference.generate", TRUE), Running)
  /\ Turns(r, "aborted")
  /\ Goes(r, "finalize")
  /\ UNCHANGED <<trackerVars, raised, counted, stepOf, batchOf>>

\* Mutant: a cancelled rollout is not counted.
GenerateCancelledUncounted(r) ==
  /\ at[r] = "generate"
  /\ Record(r, Span("inference.generate", TRUE), Running)
  /\ Turns(r, "aborted")
  /\ Goes(r, "finalize, raising")
  /\ UNCHANGED <<trackerVars, raised, counted, stepOf, batchOf>>

\* It is counted before the sandbox is closed, and the exception goes on.
GenerateCancelled(r) ==
  /\ at[r] = "generate"
  /\ Record(r, Span("inference.generate", TRUE), Running)
  /\ Turns(r, "aborted") /\ Counts(r)
  /\ Goes(r, "finalize, raising")
  /\ UNCHANGED <<trackerVars, raised, stepOf, batchOf>>

\* close() never raises an error of its own.
Finalized(r) ==
  /\ at[r] = "finalize"
  /\ RecordBoth(r, Span("sandbox.finalize", FALSE), RootSpan(status[r]), Running)
  /\ Counts(r)
  /\ Goes(r, "reward")
  /\ UNCHANGED <<trackerVars, status, raised, stepOf, batchOf>>

FinalizedRaising(r) ==
  /\ at[r] = "finalize, raising"
  /\ RecordBoth(r, Span("sandbox.finalize", FALSE), RootBroken, Running)
  /\ Ends(r, TRUE)
  /\ UNCHANGED <<status, counted, stepOf, batchOf>>

\* A cancellation while the sandbox is being closed is caught nowhere: no
\* status is set, and nothing is counted any more.
FinalizeCancelled(r) ==
  /\ at[r] \in {"finalize", "finalize, raising"}
  /\ RecordBoth(r, Span("sandbox.finalize", TRUE), RootBroken, Running)
  /\ Ends(r, TRUE)
  /\ UNCHANGED <<status, counted, stepOf, batchOf>>

Outcome(st) == Span("rollout.outcome", Bad(st))

\* The root span is closed, and none is open yet: the trajectory does not go into
\* the sample, or the reward function cannot be loaded.
HandOverFails(r) ==
  /\ at[r] = "reward"
  /\ Ends(r, TRUE)
  /\ unseen' = unseen \cup {r}
  /\ UNCHANGED <<storeVars, status, counted, stepOf, batchOf>>

\* The reward function, which is set, answers; a rollout that went wrong then raises, unless
\* it is an aborted one and those are allowed.
Rewarded(r) ==
  /\ at[r] = "reward"
  /\ RecordBoth(r, Span("reward.compute", FALSE), Outcome(status[r]), Running)
  /\ Ends(r, FALSE) \/ (Bad(status[r]) /\ Ends(r, TRUE))
  /\ UNCHANGED <<status, counted, stepOf, batchOf>>

\* It raises, or is cancelled: there is no outcome.
RewardFails(r) ==
  /\ at[r] = "reward"
  /\ Record(r, Span("reward.compute", TRUE), Running)
  /\ Ends(r, TRUE)
  /\ UNCHANGED <<status, counted, stepOf, batchOf>>

\* A batch that is trained on has rollouts in it.
TrackerStep ==
  /\ (Train /\ \E r \in Rollouts : batchOf[r] = batch) \/ LongPause
  /\ UNCHANGED <<storeVars, rolloutVars>>

\* A step after which the rollout is under way, or has ended by a span.
SeenStep(r) ==
  \/ Start(r)
  \/ Provisioned(r) \/ ProvisionFails(r) \/ ProvisionCancelled(r)
  \/ Generated(r) \/ GenerateFails(r) \/ GenerateCancelled(r)
  \/ Finalized(r) \/ FinalizedRaising(r) \/ FinalizeCancelled(r)
  \/ Rewarded(r) \/ RewardFails(r)

Next ==
  \/ \E r \in Rollouts : SeenStep(r) /\ UNCHANGED unseen
  \/ \E r \in Rollouts : HandOverFails(r)
  \/ TrackerStep /\ UNCHANGED unseen

Spec == Init /\ [][Next]_vars

----------------------------------------------------------------------------
Ended == {r \in Rollouts : at[r] = "ended"}
Told(r) == \E i \in DOMAIN exported[r] : exported[r][i].told

\* Whatever goes wrong with a rollout up to its trajectory, in its reward function
\* or after it, and whatever the sampling rate, the export tells: some span of it
\* carries the error or the status.  One that goes right is exported from its
\* root to its outcome, or not at all (store.py:175-182, rollout.py:335-354).
\* What fails in between, on the way to the reward function, is told nowhere: the
\* export of such a rollout breaks off behind a root that says "completed"
\* (generate.py:244, 408).
FailureIsTold ==
  \A r \in Ended :
    IF Bad(status[r]) \/ (raised[r] /\ r \notin unseen) THEN Told(r)
    ELSE Len(exported[r]) =
           IF r \notin sampled THEN 0
           ELSE IF r \in unseen THEN Len(Opened) - 2 ELSE Len(Opened)

\* A rollout that has ended was counted once by its status, also when it was
\* cancelled; only a cancellation that arrives while its sandbox is closed can
\* keep it from being counted (rollout.py:327-329, 336-358).
CountedOnce ==
  \A r \in Ended :
    \/ counted[r] = 1
    \/ counted[r] = 0 /\ Span("sandbox.finalize", TRUE) \in ToSet(exported[r])

\* While no pause within a batch is as long as the gap, and every training is,
\* the step a rollout is labelled with is its batch, with rollouts that overlap,
\* fail or are cancelled in any way (batches.py:3-12).
StepIsBatch ==
  ~misled => \A r \in Rollouts : at[r] # "off" => stepOf[r] = batchOf[r]

\* Failed and aborted rollouts are always kept, whatever the sampling rate
\* (store.py:94-95).
FailedIsKept ==
  \A r \in Rollouts :
    Span("rollout.outcome", TRUE) \in ToSet(exported[r]) =>
      Span("reward.compute", FALSE) \in ToSet(exported[r])
=============================================================================
