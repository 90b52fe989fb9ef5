--------------------------- MODULE TrainingLaunch ---------------------------
(***************************************************************************)
(* One launch on the GPU host and what it records of itself.  "supervised" *)
(* is the detached child of gym/remote_job.py with the parent that waits   *)
(* for its status file; "attached" is TrainConfig._launch_local            *)
(* (gym/config.py).  Both run execute_plan (gym/launch.py), whose job has a *)
(* reader and a heartbeat thread beside the main one, and dg run stop      *)
(* (gym/run_cli.py) may write the progress file from another process.      *)
(*                                                                         *)
(* The main thread is a sequence of stages; each notes its phase once (the *)
(* code notes some phases several times over) and then does its work.      *)
(***************************************************************************)
EXTENDS ProgressFile, Integers, Sequences

CONSTANTS
  Modes,      \* which launches: a subset of {"supervised", "attached"}
  ExitCodes,  \* what the job may exit with; 0 is success
  MaxNotes    \* bound: boot hints of the reader and heartbeats together

ASSUME LaunchAssumption ==
  /\ Modes \subseteq {"supervised", "attached"}
  /\ Writers = {"main", "reader", "heartbeat", "stop"}
  /\ ExitCodes \subseteq Int
  /\ MaxNotes \in Nat

VARIABLES
  mode,        \* how this launch was made
  main,        \* the main thread: where it is, its stage, was it interrupted,
               \* did it give up on joining a thread that still ran
  job,         \* the ray job: not started, running, blocked on its output, exited
  code,        \* the job's exit code
  reader,      \* the thread that reads the job's output
  heartbeat,   \* the thread that reports that the job still runs
  shipping,    \* is the shipper running?
  statusFile,  \* the supervised child's status file
  parent,      \* spawn_detached_run in the parent process
  ingest,      \* is an ingest host configured?
  alive,       \* is the launching process alive?
  notes        \* hints and heartbeats so far

launchVars == <<mode, ingest, main, job, code, reader, heartbeat, shipping, statusFile, parent, alive, notes>>
vars == <<fileVars, faults, launchVars>>

modeVars   == <<mode, ingest>>
diskVars   == <<disk, path, tmp>>
threadVars == <<job, code, reader, heartbeat>>
recordVars == <<shipping, statusFile, parent>>
counters   == <<faults, notes>>

Supervised == mode = "supervised"

Stages == IF Supervised
          THEN <<"boot", "dataset", "starting", "ray_start", "training">>
          ELSE <<"starting", "ray_start", "training">>

Stage == Stages[main.stage]

Init ==
  /\ FileInit
  /\ mode \in Modes
  /\ ingest \in BOOLEAN
  /\ main = [at |-> "note", stage |-> 1, broken |-> FALSE, late |-> FALSE]
  /\ job = "none" /\ code = 0
  /\ reader = "none" /\ heartbeat = "none"
  /\ shipping = FALSE
  /\ statusFile = "none"
  /\ parent = IF Supervised THEN "polling" ELSE "none"
  /\ alive = TRUE
  /\ notes = 0

JobExited == job = "exited"
Succeeded == JobExited /\ code = 0

Goto(l) == main' = [main EXCEPT !.at = l]
Note == notes < MaxNotes /\ notes' = notes + 1

-----------------------------------------------------------------------------
(* The main thread *)

\* set_phase of _launch_local ignores an exception, that of remote_job does not.
Swallows == mode = "attached"

\* Phases before the end are told apart by nobody.
RunningDoc(first) ==
  Doc("active", IF first \/ mode = "attached" THEN "running" ELSE "", 0)

\* Mutant: the end is recorded without a look at the return code.
EndDocBlind == Doc("completed", "completed", 0)

EndDoc == IF code = 0 THEN Doc("completed", "completed", 0) ELSE Doc("failed", "failed", code)

FailDoc == Doc("failed", "failed", 2)

\* What the main thread writes at each point where it writes.
NoteOf == [note    |-> RunningDoc(main.stage = 1),
           publish |-> RunningDoc(FALSE),
           end     |-> EndDoc,
           fail    |-> FailDoc]
Writing == [note |-> "noting", publish |-> "publishing", end |-> "ending", fail |-> "failing"]

MainWrites ==
  /\ main.at \in DOMAIN Writing
  /\ Calls("main", NoteOf[main.at])
  /\ Goto(Writing[main.at])
  /\ UNCHANGED <<modeVars, threadVars, recordVars, alive, counters>>

\* Where the main thread goes when write_progress comes back.  The boot note
\* stands before the try, so its exception ends the child.
After(at) ==
  CASE at = "noting" -> IF Stage = "training" THEN "wait" ELSE "work"
    [] at = "publishing" -> IF main.broken THEN "interrupted" ELSE "end"
    [] at = "ending" -> IF Supervised THEN "endfile" ELSE "drain"
    [] at = "failing" -> IF Supervised THEN "failfile" ELSE "drain"

AfterError(at) ==
  IF Swallows \/ at = "failing" THEN After(at)
  ELSE IF Stage = "boot" THEN "over" ELSE "fail"

\* What is done as soon as a note is out: the boot stage has announced the run
\* id, the starting stage has started the shipper, the training stage the job.
MainResumes ==
  /\ main.at \in {"noting", "publishing", "ending", "failing"}
  /\ Returned("main") \/ Raised("main")
  /\ LET next == IF Returned("main") THEN After(main.at) ELSE AfterError(main.at) IN
       /\ main' = [main EXCEPT !.at = next]
       /\ statusFile' = IF next = "work" /\ Stage = "boot" THEN "run id" ELSE statusFile
       /\ shipping' = (shipping \/ (ingest /\ next = "work" /\ Stage = "starting"))
       /\ IF next = "wait"
          THEN job' = "running" /\ reader' = "reading" /\ heartbeat' = "beating" /\ UNCHANGED code
          ELSE UNCHANGED <<threadVars>>
  /\ Forgets("main")
  /\ UNCHANGED <<diskVars, modeVars, parent, alive, counters>>

\* A stage's work is done, or it raises.
WorksThrough(stages) ==
  /\ main.at = "work" /\ Stage \in stages
  /\ \/ main' = [main EXCEPT !.at = "note", !.stage = @ + 1]
     \/ Goto("fail")
  /\ UNCHANGED <<fileVars, modeVars, threadVars, recordVars, alive, counters>>

\* The dataset: a download or a file that came with the job.
LoadConfig == WorksThrough({"boot", "dataset"})

\* The key, the model's weights, and whether all paths exist.
Prepare == WorksThrough({"starting"})

\* The preflight, an empty save directory, a fresh Ray head.
ExecutePlan == WorksThrough({"ray_start"})

JobWaited ==
  /\ main.at = "wait" /\ JobExited
  /\ Goto("join")
  /\ UNCHANGED <<fileVars, modeVars, threadVars, recordVars, alive, counters>>

\* Mutant: the main thread does not wait for the other two.
JoinAtOnce ==
  /\ main.at = "join"
  /\ Goto("publish")
  /\ UNCHANGED <<fileVars, modeVars, threadVars, recordVars, alive, counters>>

\* The joins time out after 2 s and 1 s; a thread they give up on carries on.
\* A heartbeat that sleeps is woken by stop.set and ends.
Join ==
  /\ main.at = "join" /\ heartbeat # "beating"
  /\ main' = [main EXCEPT !.at = "publish",
                          !.late = ~ {reader, heartbeat} \subseteq {"ended", "dead"}]
  /\ UNCHANGED <<fileVars, modeVars, threadVars, recordVars, alive, counters>>

\* The status file's last version; not being able to write it fails the run,
\* and a failed run just ends.
StatusFileWritten ==
  /\ main.at \in {"endfile", "failfile"}
  /\ \/ /\ statusFile' = IF main.at = "endfile" THEN "done" ELSE "error"
        /\ Goto("drain")
        /\ UNCHANGED faults
     \/ /\ Fault("io")
        /\ Goto(IF main.at = "endfile" THEN "fail" ELSE "drain")
        /\ UNCHANGED statusFile
  /\ UNCHANGED <<fileVars, modeVars, threadVars, shipping, parent, alive, notes>>

\* shipper.stop(): RunHandle says what it ships.
Drained ==
  /\ main.at = "drain"
  /\ shipping' = FALSE
  /\ Goto("over")
  /\ UNCHANGED <<fileVars, modeVars, threadVars, statusFile, parent, alive, counters>>

\* Ctrl-C or SIGINT where the main thread spends its time.  _launch_local
\* catches BaseException; the child's except clauses do not match, so it runs
\* its finally and records nothing.  A wait for the job still joins first.
Interrupt ==
  /\ main.at \in {"work", "wait"}
  /\ Fault("break")
  /\ main' = [main EXCEPT !.at = IF main.at = "wait" THEN "join"
                                 ELSE IF Supervised THEN "drain" ELSE "fail",
                          !.broken = TRUE]
  /\ UNCHANGED <<fileVars, modeVars, threadVars, recordVars, alive, notes>>

Interrupted ==
  /\ main.at = "interrupted"
  /\ Goto(IF Supervised THEN "drain" ELSE "fail")
  /\ UNCHANGED <<fileVars, modeVars, threadVars, recordVars, alive, counters>>

\* The process ends, by itself or by a kill or with its machine: its threads
\* stop where they are and a document half written stays.
Dies ==
  /\ alive
  /\ IF main.at = "over" THEN UNCHANGED faults ELSE Fault("break")
  /\ alive' = FALSE
  /\ shipping' = FALSE
  /\ call' = [w \in Writers |-> IF w = "stop" THEN call[w] ELSE Idle]
  /\ UNCHANGED <<diskVars, modeVars, main, threadVars, statusFile, parent, notes>>

MainStep == \/ MainWrites \/ MainResumes \/ LoadConfig \/ Prepare \/ ExecutePlan
            \/ JobWaited \/ Join \/ StatusFileWritten \/ Drained \/ Interrupted

-----------------------------------------------------------------------------
(* The job and the threads beside it *)

\* A job whose output nobody reads any more stops when the pipe is full.
JobExits ==
  /\ job = "running"
  /\ job' = "exited"
  /\ code' \in ExitCodes
  /\ UNCHANGED <<fileVars, modeVars, main, reader, heartbeat, recordVars, alive, counters>>

JobBlocks ==
  /\ job = "running" /\ reader = "dead" /\ alive
  /\ job' = "blocked"
  /\ UNCHANGED <<fileVars, modeVars, main, code, reader, heartbeat, recordVars, alive, counters>>

\* A line with a new boot hint.
ReaderPublishes ==
  /\ reader = "reading" /\ call["reader"].at = "idle"
  /\ Note
  /\ Calls("reader", RunningDoc(FALSE))
  /\ reader' = "publishing"
  /\ UNCHANGED <<modeVars, main, job, code, heartbeat, recordVars, alive, faults>>

\* An exception in publish ends the thread, the for loop over the output too.
ReaderResumes ==
  /\ reader = "publishing"
  /\ Returned("reader") \/ Raised("reader")
  /\ reader' = IF Returned("reader") \/ Swallows THEN "reading" ELSE "dead"
  /\ Forgets("reader")
  /\ UNCHANGED <<diskVars, modeVars, main, job, code, heartbeat, recordVars, alive, counters>>

ReaderEnds ==
  /\ reader = "reading" /\ JobExited
  /\ reader' = "ended"
  /\ UNCHANGED <<fileVars, modeVars, main, job, code, heartbeat, recordVars, alive, counters>>

Stopped == main.at \notin {"note", "noting", "work", "wait"}

HeartbeatPublishes ==
  /\ heartbeat = "beating" /\ ~ Stopped /\ ~ JobExited
  /\ Note
  /\ Calls("heartbeat", RunningDoc(FALSE))
  /\ heartbeat' = "publishing"
  /\ UNCHANGED <<modeVars, main, job, code, reader, recordVars, alive, faults>>

HeartbeatResumes ==
  /\ heartbeat = "publishing"
  /\ Returned("heartbeat") \/ Raised("heartbeat")
  /\ heartbeat' = IF Returned("heartbeat") \/ Swallows THEN "beating" ELSE "dead"
  /\ Forgets("heartbeat")
  /\ UNCHANGED <<diskVars, modeVars, main, job, code, reader, recordVars, alive, counters>>

HeartbeatEnds ==
  /\ heartbeat = "beating" /\ (Stopped \/ JobExited)
  /\ heartbeat' = "ended"
  /\ UNCHANGED <<fileVars, modeVars, main, job, code, reader, recordVars, alive, counters>>

ThreadStep ==
  /\ alive
  /\ \/ ReaderPublishes \/ ReaderResumes \/ ReaderEnds
     \/ HeartbeatPublishes \/ HeartbeatResumes \/ HeartbeatEnds

-----------------------------------------------------------------------------
(* Other processes *)

\* dg run stop: no launch records its pid and nothing reads the .cancel file,
\* so all it does is to write that the run has failed.
Stop ==
  /\ path # NoFile /\ call["stop"].at = "idle"
  /\ Fault("stop")
  /\ Calls("stop", Doc("failed", "failed", 130))
  /\ UNCHANGED <<modeVars, main, threadVars, recordVars, alive, notes>>

\* spawn_detached_run polls the status file, and then whether the child lives.
ParentReads ==
  /\ parent = "polling"
  /\ parent' = CASE statusFile = "none" -> "unready"
                 [] statusFile = "error" -> "failed"
                 [] OTHER -> "handle"
  /\ UNCHANGED <<fileVars, modeVars, main, threadVars, shipping, statusFile, alive, counters>>

ParentChecks ==
  /\ parent = "unready"
  /\ \/ parent' = (IF alive THEN "polling" ELSE "child exited") /\ UNCHANGED faults
     \/ parent' = "timed out" /\ Fault("network")
  /\ UNCHANGED <<fileVars, modeVars, main, threadVars, shipping, statusFile, alive, notes>>

ParentStep == ParentReads \/ ParentChecks

WriteStep ==
  /\ \E w \in Writers : WriterStep(w)
  /\ UNCHANGED launchVars

LaunchNext ==
  \/ alive /\ (MainStep \/ Interrupt)
  \/ Dies
  \/ ThreadStep \/ JobExits \/ JobBlocks
  \/ Stop \/ ParentStep \/ WriteStep
=============================================================================
