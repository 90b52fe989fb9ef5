----------------------------- MODULE RunHandle ------------------------------
(***************************************************************************)
(* How others learn what became of a launch: the ingest host with its copy *)
(* of the progress file (shipping itself is module TelemetryShipping), the *)
(* views of telemetry/dashboard.py and telemetry/dashboard_data.py, and    *)
(* TrainingRun.wait in the process that holds the handle (gym/run.py).     *)
(***************************************************************************)
EXTENDS TrainingLaunch

VARIABLES
  host,    \* the host's progress file, and whether it has heard of the run
  verdict  \* what TrainingRun.wait returned

handleVars == <<host, verdict>>
allVars == <<vars, handleVars>>

HandleInit ==
  /\ Init
  /\ host = [doc |-> Empty, seen |-> "never"]
  /\ verdict = "none"

-----------------------------------------------------------------------------
(* The views *)

Terminal == {"completed", "failed", "worker_lost"}

\* Mutant: a silent host is no sign.
LivenessNever(status, seen) == status

\* apply_liveness: only an ingest host has a last_seen, and only a run without
\* an end can be lost.
Liveness(status, seen) ==
  IF status \in Terminal \/ seen # "silent" THEN status ELSE "worker_lost"

\* infer_status_without_progress, over whether the file has rollouts and was
\* not written for STALE_AFTER_SECONDS.
Inferred(ready, idle) ==
  IF ~ ready THEN "pending" ELSE IF idle THEN "stale" ELSE "running"

Recorded(doc, default) ==
  IF doc.status # "" THEN doc.status
  ELSE IF doc.phase \in {"completed", "failed"} THEN doc.phase ELSE default

\* _run_live_snapshot; a file that cannot be read is a file without fields.
Snapshot(doc, ready, idle, seen) ==
  LET default == IF ready /\ ~ Readable(doc) THEN Inferred(TRUE, idle) ELSE "running"
      status == Recorded(doc, default)
      shown == Liveness(status, seen)
  IN  [status |-> shown,
       failed |-> "failed" \in {doc.phase, doc.status} \/ (shown = "worker_lost" /\ shown # status),
       done   |-> shown \in Terminal \/ doc.phase \in {"completed", "failed"},
       rc     |-> doc.rc]

\* Mutant: rollouts make a run a running one before its record is asked.
ListStatusByRollouts(doc, ready, idle, seen) ==
  LET recorded == Liveness(Recorded(doc, IF Readable(doc) THEN "running" ELSE "pending"), seen)
      status == IF ~ Readable(doc) THEN Inferred(ready, idle)
                ELSE IF ready THEN "running" ELSE recorded
  IN  Liveness(status, seen)

\* The status list_run_files gives: _progress_status, then what it infers.
ListStatus(doc, ready, idle, seen) ==
  LET recorded == Liveness(Recorded(doc, IF Readable(doc) THEN "running" ELSE "pending"), seen)
      status == IF recorded \in {"completed", "failed"} THEN recorded
                ELSE IF ~ Readable(doc) THEN Inferred(ready, idle)
                ELSE IF ready THEN "running" ELSE recorded
  IN  Liveness(status, seen)

\* _poll_snapshot without an answer from a URL: the progress file, else the
\* status file.
LocalSnapshot ==
  IF Readable(Shown)
  THEN [status |-> Shown.status,
        failed |-> "failed" \in {Shown.phase, Shown.status},
        done   |-> {Shown.phase, Shown.status} \cap {"completed", "failed"} # {},
        rc     |-> Shown.rc]
  ELSE [status |-> CASE statusFile = "done" -> "completed" [] statusFile = "error" -> "failed"
                     [] OTHER -> "",
        failed |-> statusFile = "error",
        done   |-> statusFile \in {"done", "error"},
        rc     |-> IF statusFile = "error" THEN 2 ELSE code]

\* _apply_snapshot, and what result() makes of it.  Mutant: the return code
\* is not asked.
VerdictOfStatus(s) ==
  IF s.failed \/ s.status \in {"failed", "worker_lost"} THEN "failed"
  ELSE IF ~ s.done THEN "none" ELSE "completed"

VerdictOf(s) ==
  IF s.failed \/ s.status \in {"failed", "worker_lost"} THEN "failed"
  ELSE IF ~ s.done THEN "none" ELSE IF s.rc = 0 THEN "completed" ELSE "failed"

-----------------------------------------------------------------------------
(* The host and the handle *)

Received == IF Readable(Shown) THEN Shown ELSE host.doc

\* A tick of the shipper: the progress file if it is JSON, and a sign of life.
Ship ==
  /\ shipping
  /\ host' = [doc |-> Received, seen |-> "fresh"]
  /\ UNCHANGED <<vars, verdict>>

\* WORKER_LOST_AFTER_SECONDS without one: nobody ships, or the network is down.
GoesSilent ==
  /\ host.seen = "fresh"
  /\ host' = [host EXCEPT !.seen = "silent"]
  /\ IF shipping THEN Fault("network") ELSE UNCHANGED faults
  /\ UNCHANGED <<fileVars, launchVars, verdict>>

\* An attached launch is watched by dg run wait, a detached one by its handle.
Watching == verdict = "none" /\ IF Supervised THEN parent = "handle" ELSE path # NoFile

PollHost ==
  /\ Watching /\ ingest
  /\ verdict' = VerdictOf(Snapshot(host.doc, FALSE, FALSE, host.seen))
  /\ UNCHANGED <<vars, host>>

\* There is no host to ask, or its answer is missing, which counts as a fault
\* where something is concluded from it.
PollLocal ==
  /\ Watching
  /\ verdict' = VerdictOf(LocalSnapshot)
  /\ IF ingest /\ verdict' # "none" THEN Fault("network") ELSE UNCHANGED faults
  /\ UNCHANGED <<fileVars, launchVars, host>>

Poll == PollHost \/ PollLocal

\* A step of the launch; the drain of stop() ships once more, if it can.
Launch ==
  /\ LaunchNext
  /\ IF main.at = "drain" /\ main'.at = "over" /\ shipping
     THEN host' \in {host, [doc |-> Received, seen |-> "fresh"]}
     ELSE UNCHANGED host
  /\ UNCHANGED verdict

Next == Launch \/ Ship \/ GoesSilent \/ Poll

Spec == HandleInit /\ [][Next]_allVars

\* Time passes on the host, and the handle polls.  Of a run that is over nothing
\* else is needed; that it comes to its end is not claimed: nobody has to
\* interrupt, kill or stop, and a job that nobody reads may block for ever.
Fairness ==
  /\ WF_allVars(~ shipping /\ GoesSilent)
  /\ WF_allVars(Poll)

FairSpec == Spec /\ Fairness

-----------------------------------------------------------------------------

RunOver == main.at = "over" \/ ~ alive

TypeOK ==
  /\ \A i \in Inodes : disk[i] \in {Empty, Torn} \cup
       [phase : {"active", "completed", "failed"},
        status : {"", "running", "completed", "failed"}, rc : {0, 2, 130} \cup ExitCodes]
  /\ path \in Inodes \cup {NoFile} /\ tmp \in Inodes \cup {NoFile}
  /\ tmp # NoFile => tmp # path
  /\ main.stage \in DOMAIN Stages
  /\ job \in {"none", "running", "blocked", "exited"}
  /\ code \in {0} \cup ExitCodes
  /\ parent \in {"none", "polling", "unready", "handle", "failed", "child exited", "timed out"}
  /\ verdict \in {"none", "completed", "failed"}

\* A recorded end is the end the run had, on the launch host and on the
\* ingest host, whatever writes overlapped: completed only if the job exited
\* with 0, and a return code other than 0 is the job's own, or the 2 of a
\* launch that failed, or the 130 of one somebody asked to stop
\* (gym/remote_job.py:207, gym/config.py:315).
EndIsHonest ==
  \A doc \in {Shown, host.doc} :
    /\ "completed" \in {doc.phase, doc.status} => Succeeded
    /\ doc.rc # 0 => \/ JobExited /\ doc.rc = code
                     \/ doc.rc = 2 /\ main.at \in {"failing", "failfile", "drain", "over"}
                     \/ doc.rc = 130 /\ faults.stop > 0

\* When the main thread has stopped, the record on disk is the end, not a
\* heartbeat's or the reader's note that came later and not a torn document:
\* stop.set and the joins in _run_slime_job come before it (gym/launch.py:388).
\* The exceptions: a join that gave up on a thread that still ran (:389-390),
\* an interrupted detached run, a full disk and dg run stop.
EndIsRecorded ==
  /\ main.at \in {"endfile", "drain", "over"}
  /\ ~ main.late
  /\ faults.stop = 0 /\ faults.io = 0 /\ ~ (Supervised /\ main.broken)
  => Shown \in {EndDoc, FailDoc}

\* Progress must never break training (gym/config.py:244): no thread ends by
\* its write, and a job that exited with 0 is not turned into a failure.
ProgressNeverBreaksTraining ==
  /\ reader # "dead" /\ heartbeat # "dead"
  /\ Succeeded /\ ~ main.broken => main.at \notin {"fail", "failing", "failfile"}

\* "must [...] always record a terminal status (regression: dash said 'running'
\* after the job succeeded)" (tests/contracts/test_local_launch_progress.py:1-2):
\* an attached launch that is over, and in which nothing went wrong, has done so
\* (gym/config.py:317).
TerminalIsRecorded ==
  mode = "attached" /\ main.at = "over" /\ (\A kind \in FaultKinds : faults[kind] = 0)
    => Shown.status \in {"completed", "failed"}

\* wait() says completed only of a job that exited with 0.  It says failed only
\* if the job or the launch failed, somebody interrupted or asked to stop, the
\* network was down, or the end did not reach the host, because its upload
\* failed or a thread the launch gave up on noted something after it
\* (gym/run.py:305).
VerdictIsHonest ==
  /\ verdict = "completed" => Succeeded
  /\ verdict = "failed" =>
       \/ JobExited /\ code # 0
       \/ \E kind \in FaultKinds : faults[kind] > 0
       \/ /\ main.at \in {"failing", "failfile", "drain", "over"}
          /\ main.late \/ FailDoc \in {Shown, host.doc}
       \/ RunOver /\ host.doc # Shown

\* The list of runs and the page of a run agree on whether and how it ended,
\* for every document a reader can find, torn ones too
\* (telemetry/dashboard_data.py:104, telemetry/dashboard.py:791).
ViewsAgree ==
  \A doc \in {Shown, host.doc}, ready, idle \in BOOLEAN, seen \in {"never", "fresh", "silent"} :
    LET page == Snapshot(doc, ready, idle, seen)
        list == ListStatus(doc, ready, idle, seen)
    IN  /\ list \in Terminal <=> page.done
        /\ list \in Terminal => page.status = list
        /\ page.failed <=> list \in {"failed", "worker_lost"}

\* Block until training finishes (gym/run.py:149): who waits for a run that
\* is over comes back.
WaitReturns == RunOver /\ Watching ~> verdict # "none"

\* ... and does so if the ingest host has heard of the run, however it ended:
\* by its recorded end, or as a worker that is lost.
KnownRunIsConcluded ==
  RunOver /\ Watching /\ host.seen # "never" ~> verdict # "none"
=============================================================================
