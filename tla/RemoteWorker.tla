---------------------------- MODULE RemoteWorker ----------------------------
(***************************************************************************)
(* SshWorker.launch (gym/worker.py): the laptop puts a job file, a file of   *)
(* secrets and its own copy of the package on the machine, starts           *)
(* remote_job there (gym/remote_job.py) and makes a handle of the markers it *)
(* reads from the session.  By "exec" every step is a command with an exit   *)
(* status; by "shell" it is typed into a terminal (gym/ssh_shell.py) and      *)
(* only its end is seen.  The session may drop or be interrupted, the machine *)
(* may end, and a launch of another process may use the machine as well.     *)
(***************************************************************************)
EXTENDS GpuRental, FiniteSets

CONSTANT Launches   \* launches through the worker, numbered in the order they begin

ASSUME RemoteWorkerAssumption == Launches \subseteq Nat \ {0}

VARIABLES
  oneProcess,   \* do the launches come from one process, one after another?
  laptop,       \* each launch on the laptop: where it is, what was asked, its result
  disk,         \* what lies on the machine under names that launches share
  remote,       \* each launch's remote_job: the markers it has printed, and whether it is there
  job,          \* each launch's training, its session, and whether its run id is known
  ran,          \* the job file and the secrets a launch's remote_job was started with
  excuse        \* what befell a launch: "drop", "interrupt", "deadline", "crossed", or
                \* the stage whose command failed

remoteVars == <<oneProcess, laptop, disk, remote, job, ran, excuse>>

Nobody == 0
NoJob == [of |-> Nobody, detach |-> FALSE]
Results == {"none", "raised", "running", "completed", "failed"}

\* A machine may have been used before; one that is rented may come with the
\* directory, but without a clone in it.
RemoteInit ==
  /\ oneProcess \in BOOLEAN
  /\ laptop = [l \in Launches |-> [at |-> "off", detach |-> FALSE, result |-> "none"]]
  /\ \E repo \in BOOLEAN :
       disk = [job |-> [l \in Launches |-> NoJob], env |-> Nobody,
               repo |-> repo, package |-> repo /\ machine = "up"]
  /\ remote = [l \in Launches |-> [at |-> "none", detach |-> FALSE, printed |-> <<>>]]
  /\ job = [l \in Launches |-> [at |-> "none", session |-> "none", known |-> FALSE]]
  /\ ran = [l \in Launches |-> [job |-> Nobody, env |-> Nobody]]
  /\ excuse = [l \in Launches |-> {}]

Shell == rental.via = "shell"
Over(l) == laptop[l].result # "none"
Active(l) == laptop[l].at # "off" /\ ~ Over(l)
Alive(l) == job[l].at \in {"preparing", "published", "training"}

\* The job file bears the pid of the laptop's process.
NameOf(l) == IF oneProcess THEN CHOOSE k \in Launches : TRUE ELSE l

To(l, at) == laptop' = [laptop EXCEPT ![l].at = at]
Conclude(l, result) == laptop' = [laptop EXCEPT ![l].at = "over", ![l].result = result]
Excuse(l, what) == excuse' = [excuse EXCEPT ![l] = @ \cup {what}]

Launch(l) ==
  /\ rental.at = "worker" /\ laptop[l].at = "off"
  /\ \A k \in Launches : k < l => laptop[k].at # "off"
  /\ oneProcess => \A k \in Launches : ~ Active(k)
  /\ \E detach \in BOOLEAN :
       laptop' = [laptop EXCEPT ![l].at = IF Shell THEN "connect" ELSE "job", ![l].detach = detach]
  /\ excuse' = [k \in Launches |->
       IF (k = l \/ Active(k)) /\ (\E o \in Launches \ {l} : Active(o)) THEN excuse[k] \cup {"crossed"} ELSE excuse[k]]
  /\ UNCHANGED <<rentalVars, faults, oneProcess, disk, remote, job, ran>>

\* A prompt within the minute, or the launch raises.
Connect(l) ==
  /\ laptop[l].at = "connect"
  /\ IF machine = "up" THEN To(l, "clear") ELSE Conclude(l, "raised")
  /\ UNCHANGED <<rentalVars, faults, oneProcess, disk, remote, job, ran, excuse>>

-----------------------------------------------------------------------------
(* Putting things there *)

\* Mutant: the old job file is left for the new one to overwrite.
ClearedKeepingJob(l) == disk
Cleared(l) == [disk EXCEPT !.job[NameOf(l)] = NoJob]

\* What remote_job is told of the launch.
Payload(l) == [of |-> l, detach |-> laptop[l].detach]

\* Decoded from chunks in one step: whole, or not there.
JobPut(l) == [disk EXCEPT !.job[NameOf(l)] = Payload(l)]

\* One name for whoever launches; an older file goes first.
EnvPut(l) == [disk EXCEPT !.env = l]
EnvNotPut == [disk EXCEPT !.env = Nobody]

\* The clone brings the package with it.  A directory that is there already is
\* left as it is, unless there is no clone in it.
Cloned == [disk EXCEPT !.repo = TRUE, !.package = TRUE]
RepoPut == IF disk.repo THEN {disk, Cloned} ELSE {Cloned}

\* The package is not there while it is unpacked.
PackageRemoved == [disk EXCEPT !.repo = TRUE, !.package = FALSE]
PackagePut == [disk EXCEPT !.package = TRUE]

Done(l, stage) ==
  CASE stage = "clear"   -> {Cleared(l)}
    [] stage = "job"     -> {JobPut(l)}
    [] stage = "env"     -> {EnvPut(l)}
    [] stage = "repo"    -> RepoPut
    [] stage = "package" -> {PackageRemoved}
    [] stage = "unpack"  -> {PackagePut}

Failed(stage) == IF stage = "env" THEN EnvNotPut ELSE disk

Stages == {"clear", "job", "env", "repo", "package", "unpack"}
After(stage) ==
  CASE stage = "clear"   -> "job"
    [] stage = "job"     -> "env"
    [] stage = "env"     -> "repo"
    [] stage = "repo"    -> "package"
    [] stage = "package" -> "unpack"
    [] stage = "unpack"  -> "run"

\* Removing and unpacking are one command.
AfterFailure(stage) == IF stage = "package" THEN "run" ELSE After(stage)

Stage(l) ==
  /\ laptop[l].at \in Stages /\ machine = "up"
  /\ disk' \in Done(l, laptop[l].at)
  /\ To(l, After(laptop[l].at))
  /\ UNCHANGED <<rentalVars, faults, oneProcess, remote, job, ran, excuse>>

\* Typed into a terminal, the command ends with its marker whatever its status.
ShellStageFails(l) ==
  /\ Shell
  /\ To(l, AfterFailure(laptop[l].at))

\* exec looks at every status but the clone's.
ExecStageFails(l) ==
  /\ ~ Shell
  /\ IF laptop[l].at = "repo" THEN To(l, "package") ELSE Conclude(l, "raised")

StageFails(l) ==
  /\ laptop[l].at \in Stages /\ machine = "up"
  /\ Fault
  /\ disk' = Failed(laptop[l].at)
  /\ Excuse(l, laptop[l].at)
  /\ ShellStageFails(l) \/ ExecStageFails(l)
  /\ UNCHANGED <<rentalVars, oneProcess, remote, job, ran>>

-----------------------------------------------------------------------------
(* On the machine *)

Announce(l, at, markers) == remote' = [remote EXCEPT ![l].at = at, ![l].printed = @ \o markers]

ChildSession == "own"

\* remote_job does as the job file says.
StartsJob(l, payload) ==
  /\ job' = [job EXCEPT ![l] = [at |-> "preparing", known |-> FALSE,
               session |-> IF payload.detach THEN ChildSession ELSE IF Shell THEN "tty" ELSE "pipe"]]
  /\ remote' = [remote EXCEPT ![l].at = "running", ![l].detach = payload.detach]

\* Without the package or the job file Python ends with an error and no marker.
StartsNothing(l) == Announce(l, "gone", <<>>) /\ UNCHANGED job

\* The secrets are read and removed before remote_job starts.
EnvTaken == [disk EXCEPT !.env = Nobody]

Run(l) ==
  /\ laptop[l].at = "run" /\ machine = "up"
  /\ LET found == disk.job[NameOf(l)] IN
     IF disk.repo
     THEN /\ ran' = [ran EXCEPT ![l] = [job |-> found.of, env |-> disk.env]]
          /\ disk' = EnvTaken
          /\ IF disk.package /\ found # NoJob THEN StartsJob(l, found) ELSE StartsNothing(l)
     ELSE StartsNothing(l) /\ UNCHANGED <<ran, disk>>
  /\ To(l, "reading")
  /\ UNCHANGED <<rentalVars, faults, oneProcess, excuse>>

\* Before it prepares dataset or model, a supervised child writes its first
\* progress and its run id; an attached one tells nobody of it.
JobPublishes(l) ==
  /\ job[l].at = "preparing"
  /\ job' = [job EXCEPT ![l].at = "published", ![l].known = TRUE]
  /\ UNCHANGED <<rentalVars, faults, oneProcess, laptop, disk, remote, ran, excuse>>

\* The key for the sandboxes comes with the secrets, or lies on the machine.
\* Whoever starts resets the GPU and ends the training of another.
JobTrains(l) ==
  /\ job[l].at = "published"
  /\ job' = [k \in Launches |->
       IF k = l THEN [job[k] EXCEPT !.at = "training"]
       ELSE IF job[k].at = "training" THEN [job[k] EXCEPT !.at = "failed"] ELSE job[k]]
  /\ UNCHANGED <<rentalVars, faults, oneProcess, laptop, disk, remote, ran, excuse>>

JobEnds(l) ==
  /\ \/ Alive(l) /\ job' = [job EXCEPT ![l].at = "failed"]
     \/ job[l].at = "training" /\ job' = [job EXCEPT ![l].at = "trained"]
  /\ UNCHANGED <<rentalVars, faults, oneProcess, laptop, disk, remote, ran, excuse>>

\* The attached remote_job says nothing before the end: a run id and a return
\* code, code 2 for an error, nothing for an exception it does not expect.
AttachedReports(l) ==
  /\ remote[l].at = "running" /\ ~ remote[l].detach /\ job[l].at \in {"trained", "failed"}
  /\ IF job[l].at = "trained"
     THEN \E at \in {"gone", "dashboard"} : Announce(l, at, <<"run", "rc 0">>)
     ELSE \E markers \in {<<"run", "rc 1">>, <<"rc 2">>, <<>>} : Announce(l, "gone", markers)
  /\ UNCHANGED <<rentalVars, faults, oneProcess, laptop, disk, job, ran, excuse>>

\* The parent of a supervised child: a run id in the status file, an error
\* there, or a child that is gone without one.
DetachedReports(l) ==
  /\ remote[l].at = "running" /\ remote[l].detach
  /\ \/ job[l].known /\ Announce(l, "gone", <<"run", "detached", "rc 0">>)
     \/ job[l].at = "failed" /\ Announce(l, "gone", <<"rc 2">>)
  /\ UNCHANGED <<rentalVars, faults, oneProcess, laptop, disk, job, ran, excuse>>

\* Twenty minutes without a run id.  The child is left to go on.
DetachTimesOut(l) ==
  /\ remote[l].at = "running" /\ remote[l].detach /\ job[l].at = "preparing"
  /\ Announce(l, "gone", <<"rc 2">>)
  /\ Excuse(l, "deadline")
  /\ UNCHANGED <<rentalVars, faults, oneProcess, laptop, disk, job, ran>>

-----------------------------------------------------------------------------
(* On the laptop *)

\* The first n markers.
Read(l, n) == {remote[l].printed[i] : i \in 1..n}
All(l) == Len(remote[l].printed)

\* Mutant: a session that said nothing went well.
UnsaidIsFine == "rc 0"

\* The return code before any marker is read.
Unsaid == "rc 1"

Said(l, n) ==
  LET codes == {m \in Read(l, n) : m \in {"rc 0", "rc 1", "rc 2"}} IN
  IF codes = {} THEN Unsaid ELSE CHOOSE c \in codes : TRUE

ResultOf(l, n, code) ==
  IF "detached" \in Read(l, n) THEN "running" ELSE IF code = "rc 0" THEN "completed" ELSE "failed"

\* remote_job is gone and all it printed has been read.
Returns(l) ==
  /\ laptop[l].at = "reading" /\ remote[l].at = "gone" /\ machine = "up"
  /\ Conclude(l, ResultOf(l, All(l), Said(l, All(l))))
  /\ UNCHANGED <<rentalVars, faults, oneProcess, disk, remote, job, ran, excuse>>

\* The terminal is gone: what runs in it gets a hangup.  What writes to a
\* closed pipe may run on, or break at its next line.
HungUp(l) ==
  CASE Alive(l) /\ job[l].session = "tty"  -> {[job[l] EXCEPT !.at = "hung up"]}
    [] Alive(l) /\ job[l].session = "pipe" -> {job[l], [job[l] EXCEPT !.at = "failed"]}
    [] OTHER                               -> {job[l]}

\* Nobody reads what remote_job would print any more.  On exec the parent of a
\* detached child lives on, which makes no difference then.
SessionCloses(l) ==
  /\ remote' = [remote EXCEPT ![l].at = IF @ = "none" THEN "none" ELSE "cut"]
  /\ \E j \in HungUp(l) : job' = [job EXCEPT ![l] = j]

InSession(l) == laptop[l].at \in Stages \cup {"run", "reading"}

\* n markers had been read.  ssh ends with status 255.  The terminal's reader raises; exec raises too
\* while it prepares, and otherwise goes by the status of ssh.
DropResult(l, n) ==
  IF Shell \/ laptop[l].at # "reading" THEN "raised" ELSE ResultOf(l, n, "rc 255")

Drops(l) ==
  /\ InSession(l)
  /\ \/ machine = "up" /\ Fault
     \/ machine # "up" /\ UNCHANGED faults
  /\ SessionCloses(l)
  /\ \E n \in 0..All(l) : Conclude(l, DropResult(l, n))
  /\ Excuse(l, "drop")
  /\ \E d \in {disk, IF laptop[l].at \in Stages THEN Failed(laptop[l].at) ELSE disk} : disk' = d
  /\ UNCHANGED <<rentalVars, oneProcess, ran>>

\* Ctrl+C.  By shell it is caught and passed on, and what was read so far
\* makes the handle, but for the return code; by exec it is raised.
InterruptResult(l, n) == IF Shell THEN ResultOf(l, n, "rc 130") ELSE "raised"

\* A dashboard that remote_job keeps open is ended in no other way.
Interrupt(l) ==
  /\ InSession(l)
  /\ IF remote[l].at = "dashboard" THEN UNCHANGED faults ELSE Fault
  /\ SessionCloses(l)
  /\ \E n \in 0..All(l) : Conclude(l, InterruptResult(l, n))
  /\ Excuse(l, "interrupt")
  /\ UNCHANGED <<rentalVars, oneProcess, disk, ran>>

\* The machine is taken away, with everything on it.
MachineEnds ==
  /\ machine \in {"starting", "up"} /\ Fault
  /\ machine' = "gone"
  /\ job' = [l \in Launches |-> IF Alive(l) THEN [job[l] EXCEPT !.at = "lost"] ELSE job[l]]
  /\ UNCHANGED <<provider, rental, remote, oneProcess, laptop, disk, ran, excuse>>

LaunchStep(l) ==
  \/ Launch(l) \/ Connect(l) \/ Stage(l) \/ StageFails(l) \/ Run(l)
  \/ JobPublishes(l) \/ JobTrains(l) \/ JobEnds(l)
  \/ AttachedReports(l) \/ DetachedReports(l) \/ DetachTimesOut(l)
  \/ Returns(l) \/ Drops(l) \/ Interrupt(l)

RemoteNext ==
  \/ RentalNext /\ UNCHANGED remoteVars
  \/ MachineEnds
  \/ \E l \in Launches : LaunchStep(l)

-----------------------------------------------------------------------------

\* A handle says what became of the run.  "completed" is a run that trained,
\* "running" one whose run id is known; one said to have failed is neither
\* training nor trained, unless the session was cut, or the child took too long
\* to name its run (gym/worker.py:678, 840).
HandleIsHonest ==
  \A l \in Launches :
    /\ laptop[l].result = "completed" => job[l].at = "trained"
    /\ laptop[l].result = "running" => job[l].known
    /\ /\ laptop[l].result \in {"failed", "raised"}
       /\ Alive(l) \/ job[l].at = "trained"
       => excuse[l] \cap {"drop", "interrupt", "deadline"} # {}

\* What runs is the job of this launch with this launch's secrets, though the
\* files have fixed names and a failed step goes unseen in a terminal: an older
\* job only where neither removing nor writing its file succeeded
\* (gym/worker.py:127), and other secrets or none only after a failed step or
\* beside another launch (gym/worker.py:38).
JobIsOurs ==
  \A l \in Launches :
    /\ ran[l].job \in {l, Nobody} \/ {"clear", "job"} \subseteq excuse[l]
    /\ /\ remote[l].at # "none" /\ excuse[l] \cap (Stages \cup {"crossed"}) = {}
       => ran[l] = [job |-> l, env |-> l]

=============================================================================
