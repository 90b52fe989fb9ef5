-------------------------- MODULE RemoteWorkerProofs --------------------------
(***************************************************************************)
(* From the machine to the laptop's copy of a run: HandleIsHonest, JobIsOurs *)
(* and CopyNeverRegresses, for any number of launches through one worker and *)
(* any number of failures.                                                   *)
(***************************************************************************)
EXTENDS LaptopSync, TLAPS

Reasons ==
  {"none", "no offer", "refused", "answer lost", "poll broke", "status", "deadline",
   "resolve failed", "no endpoint"}

Stations == {"off", "connect", "run", "reading", "over"} \cup Stages
Excuses == {"drop", "interrupt", "deadline", "crossed"} \cup Stages
Owners == Launches \cup {Nobody}

\* What remote_job may have printed.
NothingSaid == <<>>
Trained == <<"run", "rc 0">>
NotTrained == <<"run", "rc 1">>
Error == <<"rc 2">>
Detached == <<"run", "detached", "rc 0">>
Sayings == {NothingSaid, Trained, NotTrained, Error, Detached}

JobStates ==
  {"none", "preparing", "published", "training", "trained", "failed", "hung up", "lost"}

RentalTyping ==
  /\ provider \in {"runpod", "vast"}
  /\ machine \in {"none", "starting", "up", "gone"}
  /\ rental \in [at : {"search", "create", "wait", "resolve", "worker", "raised"},
                 via : {"none", "shell", "exec"}, why : Reasons]
  /\ faults \in 0 .. MaxFaults

LaptopTyping ==
  /\ oneProcess \in BOOLEAN
  /\ laptop \in [Launches -> [at : Stations, detach : BOOLEAN, result : Results]]
  /\ excuse \in [Launches -> SUBSET Excuses]

DiskTyping ==
  /\ disk \in [job : [Launches -> [of : Owners, detach : BOOLEAN]], env : Owners,
               repo : BOOLEAN, package : BOOLEAN]
  /\ ran \in [Launches -> [job : Owners, env : Owners]]

RemoteTyping ==
  /\ remote \in [Launches -> [at : {"none", "running", "dashboard", "gone", "cut"},
                              detach : BOOLEAN, printed : Sayings]]
  /\ job \in [Launches -> [at : JobStates, session : {"none", "own", "tty", "pipe"},
                           known : BOOLEAN]]

Archived == [Launches -> Phases]

SyncTyping ==
  /\ syncing \subseteq Launches /\ doc \in [Launches -> Phases] /\ copy \in [Launches -> Phases]
  /\ round \in [Launches -> {"off", "live", "all", "packed", "failed"}]
  /\ archive \in [Launches -> Archived]

Typing == RentalTyping /\ LaptopTyping /\ DiskTyping /\ RemoteTyping /\ SyncTyping

-----------------------------------------------------------------------------
\* How far the launch on the laptop and its remote_job are of each other.
Course(l) ==
  /\ laptop[l].at = "over" <=> laptop[l].result # "none"
  /\ laptop[l].at # "off" => rental.at = "worker"
  /\ laptop[l].at \notin {"reading", "over"} => remote[l].at = "none"
  /\ remote[l].at = "none" => job[l].at = "none"
  /\ remote[l].at \in {"none", "running"} => remote[l].printed = NothingSaid

\* The training goes on, or went well.
Succeeds(l) == Alive(l) \/ job[l].at = "trained"

\* What remote_job has printed is so.
Told(l) ==
  /\ remote[l].printed = Trained => job[l].at = "trained"
  /\ remote[l].printed = Detached => job[l].known
  /\ remote[l].printed \in {NotTrained, Error} => ~ Succeeds(l) \/ "deadline" \in excuse[l]
  /\ remote[l].at = "gone" /\ remote[l].printed = NothingSaid => ~ Succeeds(l)

Honest(l) ==
  /\ laptop[l].result = "completed" => job[l].at = "trained"
  /\ laptop[l].result = "running" => job[l].known
  /\ laptop[l].result \in {"failed", "raised"} /\ Succeeds(l)
       => excuse[l] \cap {"drop", "interrupt", "deadline"} # {}

\* Launches beside each other are of several processes, and noted.
Beside ==
  \A k, l \in Launches :
    Active(k) /\ Active(l) /\ k # l => ~ oneProcess /\ "crossed" \in excuse[l]

\* The stages behind which a file, or the clone, is there.
HasJob == {"env", "repo", "package", "unpack", "run"}
HasEnv == HasJob \ {"env"}
HasRepo == HasEnv \ {"repo"}

JobFile(l) == disk.job[NameOf(l)]

\* What a launch finds on the machine when it runs is what it has put there,
\* but for what failed.
Placed(l) ==
  /\ Shell /\ laptop[l].at = "job" => JobFile(l) = NoJob \/ "clear" \in excuse[l]
  /\ laptop[l].at \in HasJob =>
       \/ JobFile(l) = Payload(l)
       \/ "job" \in excuse[l] /\ (JobFile(l) = NoJob \/ "clear" \in excuse[l])
  /\ laptop[l].at \in HasEnv => disk.env = l \/ excuse[l] \cap {"env", "crossed"} # {}
  /\ laptop[l].at \in HasRepo => disk.repo \/ "repo" \in excuse[l]

Ours(l) ==
  /\ ran[l].job \in {l, Nobody} \/ {"clear", "job"} \subseteq excuse[l]
  /\ remote[l].at # "none" /\ excuse[l] \cap (Stages \cup {"crossed"}) = {}
       => ran[l] = [job |-> l, env |-> l]

\* What the machine and the laptop show of the run.
Shows(l) ==
  /\ job[l].at \in {"none", "preparing"} => ~ job[l].known
  /\ ~ job[l].known => doc[l] = "none"
  /\ job[l].known => doc[l] \in {"boot", "training", "end"}
  /\ job[l].at = "published" => job[l].known /\ doc[l] = "boot"
  /\ job[l].at = "training" => job[l].known /\ doc[l] = "training"
  /\ job[l].at = "trained" => job[l].known
  /\ job[l].at \in {"trained", "failed"} /\ job[l].known => doc[l] = "end"
  /\ l \in syncing => laptop[l].result = "running" /\ round[l] # "off"
  /\ copy[l] \in Seen => Rank(copy[l]) <= Rank(doc[l])
  /\ \A k \in Launches :
       archive[k][l] # "none" =>
         /\ archive[k][l] \in Seen /\ Rank(archive[k][l]) <= Rank(doc[l])
         /\ round[k] = "packed"

\* What a run that alone is followed has packed of itself is no older than what
\* the laptop shows of it.
NoneOlder ==
  \A l \in Launches :
    syncing \subseteq {l} /\ archive[l][l] # "none" => Rank(copy[l]) <= Rank(archive[l][l])

Inv ==
  /\ Typing /\ Beside /\ NoneOlder
  /\ \A l \in Launches : Course(l) /\ Told(l) /\ Honest(l) /\ Placed(l) /\ Ours(l) /\ Shows(l)
-----------------------------------------------------------------------------
(* Names and records *)

LEMMA NobodyIsNone == Nobody \notin Launches
BY RemoteWorkerAssumption DEF Nobody

LEMMA NameIsLaunch ==
  ASSUME NEW l \in Launches
  PROVE  NameOf(l) \in Launches
BY DEF NameOf

LEMMA Ranks ==
  /\ Rank("torn") = 0 /\ Rank("none") = 1 /\ Rank("waiting") = 2 /\ Rank("syncing") = 3
  /\ Rank("boot") = 4 /\ Rank("training") = 5 /\ Rank("end") = 6
BY DEF Rank

LEMMA RankNumbers ==
  /\ \A p \in Phases : Rank(p) \in 0 .. 6
  /\ \A p \in Seen : p \in Phases /\ Rank(p) > 3
  /\ \A p \in Phases \ Seen : Rank(p) <= 3
BY Ranks DEF Phases, Seen

\* A launch goes on to the next station.
LEMMA Going ==
  ASSUME LaptopTyping, NEW l \in Launches, NEW at \in Stations, To(l, at)
  PROVE  /\ laptop' \in [Launches -> [at : Stations, detach : BOOLEAN, result : Results]]
         /\ \A k \in Launches \ {l} : laptop'[k] = laptop[k]
         /\ laptop'[l].at = at /\ laptop'[l].detach = laptop[l].detach
         /\ laptop'[l].result = laptop[l].result
BY DEF LaptopTyping, To

LEMMA Concluding ==
  ASSUME LaptopTyping, NEW l \in Launches, NEW r \in Results, Conclude(l, r)
  PROVE  /\ laptop' \in [Launches -> [at : Stations, detach : BOOLEAN, result : Results]]
         /\ \A k \in Launches \ {l} : laptop'[k] = laptop[k]
         /\ laptop'[l].at = "over" /\ laptop'[l].detach = laptop[l].detach
         /\ laptop'[l].result = r
BY DEF LaptopTyping, Conclude, Stations

LEMMA Excusing ==
  ASSUME LaptopTyping, NEW l \in Launches, NEW what \in Excuses, Excuse(l, what)
  PROVE  /\ excuse' \in [Launches -> SUBSET Excuses]
         /\ \A k \in Launches \ {l} : excuse'[k] = excuse[k]
         /\ excuse'[l] = excuse[l] \cup {what}
BY DEF LaptopTyping, Excuse

Remotes ==
  [at : {"none", "running", "dashboard", "gone", "cut"}, detach : BOOLEAN, printed : Sayings]
Trainings == [at : JobStates, session : {"none", "own", "tty", "pipe"}, known : BOOLEAN]
-----------------------------------------------------------------------------
(* What a step does to the launches it is not about *)

\* The training starts, tells its run id, trains, ends, or is ended.
JobMoves(l) ==
  \/ job'[l] = job[l]
  \/ job[l].at = "none" /\ job'[l].at = "preparing" /\ ~ job'[l].known
  \/ job[l].at = "preparing" /\ job'[l].at = "published" /\ job'[l].known
  \/ job[l].at = "published" /\ job'[l].at = "training" /\ job'[l].known = job[l].known
  \/ job[l].at = "training" /\ job'[l].at = "trained" /\ job'[l].known = job[l].known
  \/ /\ Alive(l) /\ job'[l].at \in {"failed", "hung up", "lost"}
     /\ job'[l].known = job[l].known

\* The progress that is written follows the training, and never goes back.
LEMMA WrittenFollows ==
  ASSUME Inv, NEW l \in Launches, Typing', JobMoves(l), doc'[l] = Written(l),
         UNCHANGED syncVars,
         laptop[l].result = "running" => laptop'[l].result = "running"
  PROVE  Shows(l)' /\ Rank(doc[l]) <= Rank(doc'[l])
<1>1. job[l] \in Trainings /\ job'[l] \in Trainings /\ doc[l] \in Phases /\ copy[l] \in Phases
  BY DEF Inv, Typing, RemoteTyping, SyncTyping, Trainings
<1>0. copy' = copy /\ syncing' = syncing /\ round' = round /\ archive' = archive
  BY DEF syncVars
<1>2. Shows(l)
  BY DEF Inv
<1>3. /\ job'[l].at \in {"none", "preparing"} => ~ job'[l].known
      /\ ~ job'[l].known => doc'[l] = "none"
      /\ job'[l].known => doc'[l] \in {"boot", "training", "end"}
      /\ job'[l].at = "published" => job'[l].known /\ doc'[l] = "boot"
      /\ job'[l].at = "training" => job'[l].known /\ doc'[l] = "training"
      /\ job'[l].at = "trained" => job'[l].known
      /\ job'[l].at \in {"trained", "failed"} /\ job'[l].known => doc'[l] = "end"
  BY <1>1, <1>2 DEF Shows, JobMoves, Written, Alive, Trainings, JobStates
<1>4. Rank(doc[l]) <= Rank(doc'[l])
  <2>1. \/ doc'[l] = doc[l]
        \/ doc[l] = "none"
        \/ doc[l] \in {"boot", "training"} /\ doc'[l] = "end"
        \/ doc[l] = "boot" /\ doc'[l] = "training"
    BY <1>1, <1>2 DEF Shows, JobMoves, Written, Alive, Trainings, JobStates
  <2>2. doc'[l] \in {"none", "boot", "training", "end"} /\ doc'[l] \in Phases
    BY <1>1, <1>3 DEF Trainings, Phases
  <2>3. Rank(doc[l]) \in 0 .. 6 /\ Rank(doc'[l]) \in 0 .. 6
    BY <1>1, <2>2, RankNumbers
  <2>4. CASE doc'[l] = doc[l]
    BY <2>3, <2>4
  <2>5. CASE doc[l] = "none"
    BY <2>2, <2>5, Ranks
  <2>6. CASE doc[l] \in {"boot", "training"} /\ doc'[l] = "end"
    BY <2>6, Ranks
  <2>7. CASE doc[l] = "boot" /\ doc'[l] = "training"
    BY <2>7, Ranks
  <2> QED  BY <2>1, <2>4, <2>5, <2>6, <2>7
<1>5. ASSUME NEW p \in Seen, Rank(p) <= Rank(doc[l])
      PROVE  Rank(p) <= Rank(doc'[l])
  <2>1. doc'[l] \in Phases
    BY DEF Typing, SyncTyping
  <2>2. Rank(p) \in 0 .. 6 /\ Rank(doc[l]) \in 0 .. 6 /\ Rank(doc'[l]) \in 0 .. 6
    BY <1>1, <2>1, RankNumbers
  <2> QED  BY <1>4, <1>5, <2>2
<1>6. copy'[l] \in Seen => Rank(copy'[l]) <= Rank(doc'[l])
  BY <1>0, <1>2, <1>5 DEF Shows
<1>7. ASSUME NEW k \in Launches, archive'[k][l] # "none"
      PROVE  /\ archive'[k][l] \in Seen /\ Rank(archive'[k][l]) <= Rank(doc'[l])
             /\ round'[k] = "packed"
  BY <1>0, <1>2, <1>5, <1>7 DEF Shows
<1>8. l \in syncing' => laptop'[l].result = "running" /\ round'[l] # "off"
  BY <1>0, <1>2 DEF Shows
<1> QED  BY <1>3, <1>4, <1>6, <1>7, <1>8 DEF Shows

Own(l) == Course(l) /\ Told(l) /\ Honest(l) /\ Ours(l)

\* Nothing happens to a launch but that more befalls it.
LEMMA OwnStays ==
  ASSUME Inv, NEW l \in Launches, laptop'[l] = laptop[l], remote'[l] = remote[l],
         job'[l] = job[l], ran'[l] = ran[l], excuse[l] \subseteq excuse'[l],
         laptop[l].at # "off" => rental'.at = "worker"
  PROVE  Own(l)'
BY DEF Inv, Own, Course, Told, Honest, Ours, Succeeds, Alive

LEMMA PlacedStays ==
  ASSUME Inv, NEW l \in Launches, laptop'[l] = laptop[l], excuse[l] \subseteq excuse'[l],
         oneProcess' = oneProcess, laptop[l].at # "off" => rental'.via = rental.via,
         Active(l) => /\ disk'.job[NameOf(l)] = disk.job[NameOf(l)]
                      /\ disk'.env = disk.env \/ "crossed" \in excuse[l],
         disk.repo => disk'.repo
  PROVE  Placed(l)'
<1>1. NameOf(l)' = NameOf(l) /\ Payload(l)' = Payload(l) /\ NoJob' = NoJob
  BY DEF NameOf, Payload, NoJob
<1>2. Placed(l) /\ Course(l)
  BY DEF Inv
<1>3. laptop[l].at \in HasJob \cup {"job"} => Active(l)
  BY <1>2 DEF Active, Over, Course, HasJob
<1> QED
  BY <1>1, <1>2, <1>3 DEF Placed, JobFile, Shell, HasJob, HasEnv, HasRepo

LEMMA BesideStays ==
  ASSUME Inv, \A l \in Launches : Active(l)' => Active(l),
         \A l \in Launches : excuse[l] \subseteq excuse'[l], oneProcess' = oneProcess
  PROVE  Beside'
BY DEF Inv, Beside

\* A step of launch l on the laptop or on the machine leaves the others alone.
Alone(l) ==
  /\ UNCHANGED <<rentalVars, oneProcess, syncVars>>
  /\ \A k \in Launches \ {l} :
       /\ laptop'[k] = laptop[k] /\ remote'[k] = remote[k] /\ job'[k] = job[k]
       /\ ran'[k] = ran[k] /\ excuse'[k] = excuse[k]
  /\ excuse[l] \subseteq excuse'[l]
  /\ Active(l)' => Active(l)
  /\ laptop[l].result = "running" => laptop'[l].result = "running"

\* And so does what it does to the files, since launches beside each other have
\* files of their own, all but the secrets.
OwnFiles(l) ==
  /\ disk' # disk => Active(l)
  /\ \A name \in Launches \ {NameOf(l)} : disk'.job[name] = disk.job[name]
  /\ disk.repo => disk'.repo

LEMMA StepOfOne ==
  ASSUME Inv, NEW l \in Launches, Typing', Alone(l), OwnFiles(l), JobMoves(l),
         doc' = [k \in Launches |-> Written(k)], Own(l)', Placed(l)'
  PROVE  Inv'
<1>1. \A k \in Launches : Shows(k)'
  <2> SUFFICES ASSUME NEW k \in Launches PROVE Shows(k)'
    OBVIOUS
  <2>1. JobMoves(k)
    BY DEF JobMoves, Alone
  <2>2. doc'[k] = Written(k) /\ UNCHANGED syncVars
    BY DEF Alone
  <2>3. laptop[k].result = "running" => laptop'[k].result = "running"
    BY DEF Alone
  <2> QED  BY <2>1, <2>2, <2>3, WrittenFollows
<1>2. Beside'
  <2>1. \A k \in Launches : Active(k)' => Active(k)
    BY DEF Alone, Active, Over
  <2>2. \A k \in Launches : excuse[k] \subseteq excuse'[k]
    BY DEF Alone
  <2> QED  BY <2>1, <2>2, BesideStays DEF Alone
<1>3. ASSUME NEW k \in Launches, k # l
      PROVE  Own(k)' /\ Placed(k)'
  <2>1. Course(k)
    BY DEF Inv
  <2>2. rental' = rental /\ oneProcess' = oneProcess
    BY DEF Alone, rentalVars
  <2>3. Own(k)'
    BY <1>3, <2>1, <2>2, OwnStays DEF Alone, Course
  <2>4. Active(k) => /\ disk'.job[NameOf(k)] = disk.job[NameOf(k)]
                     /\ disk'.env = disk.env \/ "crossed" \in excuse[k]
    <3> SUFFICES ASSUME Active(k), disk' # disk
                 PROVE  disk'.job[NameOf(k)] = disk.job[NameOf(k)] /\ "crossed" \in excuse[k]
      OBVIOUS
    <3>1. ~ oneProcess /\ "crossed" \in excuse[k]
      BY <1>3 DEF Inv, Beside, OwnFiles
    <3>2. NameOf(k) = k /\ NameOf(l) = l
      BY <3>1 DEF NameOf
    <3> QED  BY <1>3, <3>1, <3>2 DEF OwnFiles
  <2>5. Placed(k)'
    BY <1>3, <2>2, <2>4, PlacedStays DEF Alone, OwnFiles
  <2> QED  BY <2>3, <2>5
<1>4. NoneOlder'
  BY DEF Alone, syncVars, Inv, NoneOlder
<1> QED  BY <1>1, <1>2, <1>3, <1>4 DEF Inv, Own
-----------------------------------------------------------------------------
(* The trainings go on, with nothing else done to the launches *)

Documents == doc' = [l \in Launches |-> Written(l)] /\ UNCHANGED syncVars

LEMMA DocumentsTyping ==
  ASSUME Inv, Documents
  PROVE  SyncTyping'
<1>1. \A l \in Launches : Written(l) \in Phases
  <2> SUFFICES ASSUME NEW l \in Launches PROVE Written(l) \in Phases
    OBVIOUS
  <2>1. doc[l] \in Phases
    BY DEF Inv, Typing, SyncTyping
  <2> QED  BY <2>1 DEF Written, Phases
<1> QED  BY <1>1 DEF Documents, Inv, Typing, SyncTyping, syncVars

\* A job that has started does not succeed any more once it does not.
LEMMA OwnGoesOn ==
  ASSUME Inv, NEW l \in Launches, laptop'[l] = laptop[l], remote'[l] = remote[l],
         ran'[l] = ran[l], excuse'[l] = excuse[l],
         laptop[l].at # "off" => rental'.at = "worker",
         JobMoves(l), job[l].at = "none" => job'[l] = job[l]
  PROVE  Own(l)'
<1>1. Succeeds(l)' => Succeeds(l)
  BY DEF JobMoves, Succeeds, Alive
<1>2. job[l].at = "trained" => job'[l].at = "trained"
  BY DEF JobMoves, Alive
<1>3. job[l].known => job'[l].known
  <2>1. Shows(l)
    BY DEF Inv
  <2> QED  BY <2>1 DEF JobMoves, Shows
<1>4. Course(l) /\ Told(l) /\ Honest(l) /\ Ours(l)
  BY DEF Inv
<1>5. Course(l)'
  BY <1>4 DEF Course
<1>6. Told(l)'
  BY <1>1, <1>2, <1>3, <1>4 DEF Told
<1>7. Honest(l)'
  BY <1>1, <1>2, <1>3, <1>4 DEF Honest
<1>8. Ours(l)'
  BY <1>4 DEF Ours
<1> QED  BY <1>5, <1>6, <1>7, <1>8 DEF Own

LEMMA JobsMove ==
  ASSUME Inv, Typing', Documents,
         UNCHANGED <<oneProcess, laptop, disk, remote, ran, excuse>>,
         \A l \in Launches :
           /\ JobMoves(l) /\ (job[l].at = "none" => job'[l] = job[l])
           /\ laptop[l].at # "off" => rental' = rental
  PROVE  Inv'
<1>1. ASSUME NEW l \in Launches
      PROVE  Shows(l)' /\ Own(l)' /\ Placed(l)'
  <2>1. Shows(l)'
    BY WrittenFollows DEF Documents
  <2>2. laptop[l].at # "off" => rental'.at = "worker" /\ rental'.via = rental.via
    BY DEF Inv, Course
  <2>3. Own(l)'
    BY <2>2, OwnGoesOn
  <2>4. Placed(l)'
    BY <2>2, PlacedStays
  <2> QED  BY <2>1, <2>3, <2>4
<1>2. Beside'
  BY BesideStays DEF Active, Over
<1>3. NoneOlder'
  BY DEF Documents, syncVars, Inv, NoneOlder
<1> QED  BY <1>1, <1>2, <1>3 DEF Inv, Own

LEMMA FaultCounted ==
  ASSUME RentalTyping, Fault \/ faults' = faults
  PROVE  faults' \in 0 .. MaxFaults
BY GpuRentalAssumption DEF RentalTyping, Fault

Rentals ==
  [at : {"search", "create", "wait", "resolve", "worker", "raised"},
   via : {"none", "shell", "exec"}, why : Reasons]

LEMMA Raising ==
  ASSUME RentalTyping, NEW why \in Reasons, RentalRaises(why)
  PROVE  rental' \in Rentals /\ rental'.at = "raised" /\ rental'.why = why
BY DEF RentalTyping, RentalRaises, Rentals

LEMMA RentalStep ==
  ASSUME Inv, RentalNext, UNCHANGED remoteVars, Documents
  PROVE  Inv'
<1>1. RentalTyping' /\ (rental.at = "worker" => rental' = rental)
  <2>1. RentalTyping
    BY DEF Inv, Typing
  <2>2. CASE SearchOffers
    BY <2>1, <2>2 DEF SearchOffers, NoOffer, RentalRaises, RentalTyping, Reasons
  <2>3. CASE CreateMachine
    <3>1. faults' \in 0 .. MaxFaults /\ provider' = provider
      BY <2>1, <2>3, FaultCounted DEF CreateMachine, Refused, AnswerLost
    <3>2. CASE machine' = "starting" /\ rental' = [rental EXCEPT !.at = "wait"]
      BY <2>1, <2>3, <3>1, <3>2 DEF RentalTyping, CreateMachine
    <3>3. CASE Refused
      <4>1. rental' \in Rentals
        BY <2>1, <3>3, Raising DEF Refused, Reasons
      <4> QED  BY <2>1, <2>3, <3>1, <3>3, <4>1 DEF RentalTyping, Rentals, CreateMachine, Refused
    <3>4. CASE AnswerLost
      <4>1. rental' \in Rentals
        BY <2>1, <3>4, Raising DEF AnswerLost, Reasons
      <4> QED  BY <2>1, <2>3, <3>1, <3>4, <4>1 DEF RentalTyping, Rentals, CreateMachine, AnswerLost
    <3> QED  BY <2>3, <3>2, <3>3, <3>4 DEF CreateMachine
  <2>4. CASE Poll
    <3>1. \/ rental' = rental
          \/ rental' = [rental EXCEPT !.at = "resolve"]
          \/ rental' = [rental EXCEPT !.at = "worker", !.via = "exec"]
          \/ \E why \in {"status", "poll broke"} : RentalRaises(why)
      <4>1. CASE PollRunPod
        BY <4>1 DEF PollRunPod
      <4>2. CASE PollVast
        BY <4>2 DEF PollVast
      <4>3. CASE PollFails \/ PollBreaks
        BY <4>3 DEF PollFails, PollBreaks
      <4> QED  BY <2>4, <4>1, <4>2, <4>3 DEF Poll
    <3>2. faults' \in 0 .. MaxFaults /\ provider' = provider /\ machine' = machine
      BY <2>1, <2>4, GpuRentalAssumption DEF Poll, Fault, RentalTyping
    <3>3. rental.at = "wait"
      BY <2>4 DEF Poll
    <3>4. rental' \in Rentals
      <4>1. ASSUME NEW why \in {"status", "poll broke"}, RentalRaises(why)
            PROVE  rental' \in Rentals
        BY <2>1, <4>1, Raising DEF Reasons
      <4> QED  BY <2>1, <3>1, <4>1 DEF RentalTyping, Rentals
    <3> QED  BY <2>1, <3>2, <3>3, <3>4 DEF RentalTyping, Rentals
  <2>5. CASE WaitTimesOut
    BY <2>1, <2>5 DEF WaitTimesOut, RentalRaises, RentalTyping, Reasons
  <2>6. CASE Resolve
    <3>1. faults' \in 0 .. MaxFaults /\ provider' = provider /\ machine' = machine
      BY <2>1, <2>6, FaultCounted DEF Resolve, LookUpFails
    <3>2. rental.at = "resolve"
      BY <2>6 DEF Resolve
    <3>3. ASSUME NEW endpoint, rental' = [rental EXCEPT !.at = "worker", !.via = Transport(endpoint)]
          PROVE  rental' \in Rentals
      <4>1. Transport(endpoint) \in {"none", "shell", "exec"}
        BY DEF Transport
      <4> QED  BY <2>1, <3>3, <4>1 DEF RentalTyping, Rentals
    <3>4. ASSUME NEW why \in {"no endpoint", "resolve failed"}, RentalRaises(why)
          PROVE  rental' \in Rentals
      BY <2>1, <3>4, Raising DEF Reasons
    <3>5. rental' \in Rentals
      BY <2>6, <3>3, <3>4 DEF Resolve, LookUpFails
    <3> QED  BY <2>1, <3>1, <3>2, <3>5 DEF RentalTyping, Rentals
  <2>7. CASE MachineStarts
    BY <2>1, <2>7 DEF MachineStarts, RentalTyping
  <2> QED  BY <2>2, <2>3, <2>4, <2>5, <2>6, <2>7 DEF RentalNext
<1>2. Typing'
  BY <1>1, DocumentsTyping DEF Inv, Typing, LaptopTyping, DiskTyping, RemoteTyping, remoteVars
<1>3. \A l \in Launches : laptop[l].at # "off" => rental' = rental
  BY <1>1 DEF Inv, Course
<1>4. \A l \in Launches : JobMoves(l) /\ job'[l] = job[l]
  BY DEF remoteVars, JobMoves
<1> QED  BY <1>1, <1>2, <1>3, <1>4, JobsMove DEF remoteVars

\* What a step of the trainings shows, machine and laptop being left alone.
LEMMA TrainingsOnly ==
  ASSUME Inv, Documents,
         UNCHANGED <<rentalVars, faults, oneProcess, laptop, disk, remote, ran, excuse>>,
         job' \in [Launches -> Trainings],
         \A l \in Launches : JobMoves(l) /\ (job[l].at = "none" => job'[l] = job[l])
  PROVE  Inv'
<1>1. Typing'
  BY DocumentsTyping
     DEF Inv, Typing, RentalTyping, LaptopTyping, DiskTyping, RemoteTyping, rentalVars, Trainings
<1> QED  BY <1>1, JobsMove DEF rentalVars

LEMMA TrainingStep ==
  ASSUME Inv, Documents, NEW l \in Launches, JobPublishes(l) \/ JobTrains(l) \/ JobEnds(l)
  PROVE  Inv'
<1>1. job \in [Launches -> Trainings]
  BY DEF Inv, Typing, RemoteTyping, Trainings
<1>2. CASE JobPublishes(l)
  <2>1. job' \in [Launches -> Trainings]
    BY <1>1, <1>2 DEF JobPublishes, Trainings, JobStates
  <2>2. \A k \in Launches : JobMoves(k) /\ (job[k].at = "none" => job'[k] = job[k])
    BY <1>1, <1>2 DEF JobPublishes, Trainings, JobMoves
  <2> QED  BY <1>2, <2>1, <2>2, TrainingsOnly DEF JobPublishes
<1>3. CASE JobTrains(l)
  <2>1. job' \in [Launches -> Trainings]
    BY <1>1, <1>3 DEF JobTrains, Trainings, JobStates
  <2>2. \A k \in Launches : JobMoves(k) /\ (job[k].at = "none" => job'[k] = job[k])
    <3> SUFFICES ASSUME NEW k \in Launches
                 PROVE  JobMoves(k) /\ (job[k].at = "none" => job'[k] = job[k])
      OBVIOUS
    <3>1. /\ job[l].at = "published"
          /\ job'[k] = IF k = l THEN [job[k] EXCEPT !.at = "training"]
                       ELSE IF job[k].at = "training" THEN [job[k] EXCEPT !.at = "failed"]
                       ELSE job[k]
      BY <1>3 DEF JobTrains
    <3>2. job[k] \in Trainings
      BY <1>1
    <3>3. CASE k = l
      BY <3>1, <3>2, <3>3 DEF JobMoves, Trainings
    <3>4. CASE k # l /\ job[k].at = "training"
      BY <3>1, <3>2, <3>4 DEF JobMoves, Trainings, Alive
    <3>5. CASE k # l /\ job[k].at # "training"
      BY <3>1, <3>5 DEF JobMoves
    <3> QED  BY <3>3, <3>4, <3>5
  <2> QED  BY <1>3, <2>1, <2>2, TrainingsOnly DEF JobTrains
<1>4. CASE JobEnds(l)
  <2>1. job' \in [Launches -> Trainings]
    BY <1>1, <1>4 DEF JobEnds, Trainings, JobStates
  <2>2. \A k \in Launches : JobMoves(k) /\ (job[k].at = "none" => job'[k] = job[k])
    <3>1. \A k \in Launches \ {l} : job'[k] = job[k]
      BY <1>1, <1>4 DEF JobEnds
    <3>2. \/ Alive(l) /\ job'[l].at = "failed" /\ job'[l].known = job[l].known
          \/ job[l].at = "training" /\ job'[l].at = "trained" /\ job'[l].known = job[l].known
      BY <1>1, <1>4 DEF JobEnds, Trainings
    <3> QED  BY <3>1, <3>2 DEF JobMoves, Alive
  <2> QED  BY <1>4, <2>1, <2>2, TrainingsOnly DEF JobEnds
<1> QED  BY <1>2, <1>3, <1>4

LEMMA MachineEndsStep ==
  ASSUME Inv, Documents, MachineEnds
  PROVE  Inv'
<1>1. job \in [Launches -> Trainings]
  BY DEF Inv, Typing, RemoteTyping, Trainings
<1>2. job' \in [Launches -> Trainings]
  BY <1>1 DEF MachineEnds, Trainings, JobStates
<1>3. \A l \in Launches : JobMoves(l) /\ (job[l].at = "none" => job'[l] = job[l])
  BY <1>1 DEF MachineEnds, Trainings, JobMoves, Alive
<1>4. RentalTyping'
  BY FaultCounted DEF Inv, Typing, RentalTyping, MachineEnds
<1>5. Typing'
  BY <1>2, <1>4, DocumentsTyping
     DEF Inv, Typing, LaptopTyping, DiskTyping, RemoteTyping, MachineEnds, Trainings
<1> QED  BY <1>3, <1>4, <1>5, JobsMove DEF MachineEnds
-----------------------------------------------------------------------------
(* A launch puts its things on the machine *)

\* A launch that is neither off nor over is active.
LEMMA Activity ==
  ASSUME Inv, NEW l \in Launches
  PROVE  Active(l) <=> laptop[l].at \notin {"off", "over"}
BY DEF Inv, Active, Over, Course

\* The laptop goes on; nothing on the machine but its files changes.
LEMMA StagePassed ==
  ASSUME Inv, Documents, NEW l \in Launches, NEW at \in Stations \ {"off", "over", "reading"},
         laptop[l].at \notin {"off", "over", "reading"}, To(l, at),
         UNCHANGED <<rentalVars, oneProcess, remote, job, ran>>,
         faults' \in 0 .. MaxFaults, disk' # disk => Active(l), DiskTyping',
         excuse' = excuse \/ \E what \in Excuses : Excuse(l, what),
         \A name \in Launches \ {NameOf(l)} : disk'.job[name] = disk.job[name],
         disk.repo => disk'.repo, Placed(l)'
  PROVE  Inv'
<1>0. LaptopTyping
  BY DEF Inv, Typing
<1>1. at \in Stations /\ Active(l)
  BY Activity
<1>2. /\ laptop' \in [Launches -> [at : Stations, detach : BOOLEAN, result : Results]]
      /\ \A k \in Launches \ {l} : laptop'[k] = laptop[k]
      /\ laptop'[l].at = at /\ laptop'[l].result = laptop[l].result
  BY <1>0, <1>1, Going
<1>3. /\ excuse' \in [Launches -> SUBSET Excuses]
      /\ \A k \in Launches \ {l} : excuse'[k] = excuse[k]
      /\ excuse[l] \subseteq excuse'[l]
  <2>1. CASE excuse' = excuse
    BY <1>0, <2>1 DEF LaptopTyping
  <2>2. ASSUME NEW what \in Excuses, Excuse(l, what)
        PROVE  <1>3!1 /\ <1>3!2 /\ <1>3!3
    BY <1>0, <2>2, Excusing
  <2> QED  BY <2>1, <2>2
<1>4. Typing'
  BY <1>2, <1>3, DocumentsTyping
     DEF Inv, Typing, RentalTyping, LaptopTyping, RemoteTyping, rentalVars
<1>5. Alone(l)
  BY <1>1, <1>2, <1>3 DEF Alone, Documents, rentalVars
<1>6. OwnFiles(l) /\ JobMoves(l)
  BY <1>1 DEF OwnFiles, JobMoves
<1>7. Own(l)'
  <2>1. Course(l) /\ Told(l) /\ Honest(l) /\ Ours(l)
    BY DEF Inv
  <2>2. Course(l)'
    BY <1>2, <2>1 DEF Course, rentalVars
  <2>3. Told(l)' /\ Honest(l)' /\ Ours(l)'
    BY <1>2, <1>3, <2>1 DEF Course, Told, Honest, Ours, Succeeds, Alive
  <2> QED  BY <2>2, <2>3 DEF Own
<1> QED  BY <1>4, <1>5, <1>6, <1>7, StepOfOne DEF Documents

\* A launch that raises before it has started remote_job.
LEMMA StageRaised ==
  ASSUME Inv, Documents, NEW l \in Launches,
         laptop[l].at \notin {"off", "over", "reading"}, Conclude(l, "raised"),
         UNCHANGED <<rentalVars, oneProcess, remote, job, ran>>,
         faults' \in 0 .. MaxFaults, disk' # disk => Active(l), DiskTyping',
         excuse' = excuse \/ \E what \in Excuses : Excuse(l, what),
         \A name \in Launches \ {NameOf(l)} : disk'.job[name] = disk.job[name],
         disk.repo => disk'.repo
  PROVE  Inv'
<1>0. LaptopTyping /\ "raised" \in Results
  BY DEF Inv, Typing, Results
<1>1. Active(l)
  BY Activity
<1>2. /\ laptop' \in [Launches -> [at : Stations, detach : BOOLEAN, result : Results]]
      /\ \A k \in Launches \ {l} : laptop'[k] = laptop[k]
      /\ laptop'[l].at = "over" /\ laptop'[l].result = "raised"
  BY <1>0, Concluding
<1>3. /\ excuse' \in [Launches -> SUBSET Excuses]
      /\ \A k \in Launches \ {l} : excuse'[k] = excuse[k]
      /\ excuse[l] \subseteq excuse'[l]
  <2>1. CASE excuse' = excuse
    BY <1>0, <2>1 DEF LaptopTyping
  <2>2. ASSUME NEW what \in Excuses, Excuse(l, what)
        PROVE  <1>3!1 /\ <1>3!2 /\ <1>3!3
    BY <1>0, <2>2, Excusing
  <2> QED  BY <2>1, <2>2
<1>4. Typing'
  BY <1>2, <1>3, DocumentsTyping
     DEF Inv, Typing, RentalTyping, LaptopTyping, RemoteTyping, rentalVars
<1>5. Course(l) /\ Told(l) /\ Ours(l) /\ job[l].at = "none"
  BY DEF Inv, Course
<1>6. Alone(l)
  BY <1>1, <1>2, <1>3 DEF Alone, Documents, rentalVars, Active, Over
<1>7. OwnFiles(l) /\ JobMoves(l)
  BY <1>1 DEF OwnFiles, JobMoves
<1>8. Own(l)'
  <2>1. Course(l)'
    BY <1>2, <1>5 DEF Course, rentalVars
  <2>2. Told(l)' /\ Honest(l)' /\ Ours(l)'
    BY <1>2, <1>3, <1>5 DEF Course, Told, Honest, Ours, Succeeds, Alive
  <2> QED  BY <2>1, <2>2 DEF Own
<1>9. Placed(l)'
  BY <1>2 DEF Placed, HasJob, HasEnv, HasRepo
<1> QED  BY <1>4, <1>6, <1>7, <1>8, <1>9, StepOfOne DEF Documents

LEMMA ConnectStep ==
  ASSUME Inv, Documents, NEW l \in Launches, Connect(l)
  PROVE  Inv'
<1>1. faults' \in 0 .. MaxFaults /\ DiskTyping'
  BY FaultCounted DEF Connect, Inv, Typing, DiskTyping
<1>2. laptop[l].at = "connect" /\ disk' = disk /\ excuse' = excuse
  BY DEF Connect
<1>3. CASE To(l, "clear")
  <2>1. laptop'[l].at = "clear"
    BY <1>3, Going DEF Inv, Typing, Stations, Stages
  <2>2. Placed(l)'
    BY <2>1 DEF Placed, HasJob, HasEnv, HasRepo
  <2> QED  BY <1>1, <1>2, <1>3, <2>2, StagePassed DEF Connect, Stations, Stages
<1>4. CASE Conclude(l, "raised")
  BY <1>1, <1>2, <1>4, StageRaised DEF Connect
<1> QED  BY <1>3, <1>4 DEF Connect

\* What a command leaves on the disk.
LEMMA DiskAfter ==
  ASSUME Inv, NEW l \in Launches, NEW d, d \in {disk, EnvNotPut} \cup Done(l, laptop[l].at),
         laptop[l].at \in Stages
  PROVE  /\ d \in [job : [Launches -> [of : Owners, detach : BOOLEAN]], env : Owners,
                   repo : BOOLEAN, package : BOOLEAN]
         /\ \A name \in Launches \ {NameOf(l)} : d.job[name] = disk.job[name]
         /\ disk.repo => d.repo
<1>1. disk \in [job : [Launches -> [of : Owners, detach : BOOLEAN]], env : Owners,
                repo : BOOLEAN, package : BOOLEAN]
  BY DEF Inv, Typing, DiskTyping
<1>2. NameOf(l) \in Launches /\ NoJob \in [of : Owners, detach : BOOLEAN]
  BY NameIsLaunch DEF NoJob, Owners
<1>3. Payload(l) \in [of : Owners, detach : BOOLEAN]
  BY DEF Inv, Typing, LaptopTyping, Payload, Owners
<1>4. CASE d = disk
  BY <1>1, <1>4
<1>5. CASE d = EnvNotPut
  BY <1>1, <1>5 DEF EnvNotPut, Owners
<1>6. CASE d \in Done(l, laptop[l].at)
  <2>1. \/ d = Cleared(l) \/ d = JobPut(l) \/ d = EnvPut(l)
        \/ d = disk \/ d = Cloned \/ d = PackageRemoved \/ d = PackagePut
    BY <1>6 DEF Done, Stages, RepoPut
  <2>2. CASE d = Cleared(l)
    BY <1>1, <1>2, <2>2 DEF Cleared
  <2>3. CASE d = JobPut(l)
    BY <1>1, <1>2, <1>3, <2>3 DEF JobPut
  <2>4. CASE d = EnvPut(l)
    BY <1>1, <2>4 DEF EnvPut, Owners
  <2>5. CASE d = Cloned \/ d = PackageRemoved \/ d = PackagePut
    BY <1>1, <2>5 DEF Cloned, PackageRemoved, PackagePut
  <2> QED  BY <1>4, <2>1, <2>2, <2>3, <2>4, <2>5
<1> QED  BY <1>4, <1>5, <1>6

LEMMA AfterStage ==
  /\ \A stage \in Stages : /\ After(stage) \in Stations \ {"off", "over", "reading"}
                           /\ AfterFailure(stage) \in Stations \ {"off", "over", "reading"}
  /\ After("clear") = "job" /\ AfterFailure("clear") = "job"
  /\ After("job") = "env" /\ AfterFailure("job") = "env"
  /\ After("env") = "repo" /\ AfterFailure("env") = "repo"
  /\ After("repo") = "package" /\ AfterFailure("repo") = "package"
  /\ After("package") = "unpack" /\ AfterFailure("package") = "run"
  /\ After("unpack") = "run" /\ AfterFailure("unpack") = "run"
BY DEF After, AfterFailure, Stages, Stations

LEMMA StageStep ==
  ASSUME Inv, Documents, NEW l \in Launches, Stage(l)
  PROVE  Inv'
<1> DEFINE stage == laptop[l].at
<1>1. stage \in Stages /\ disk' \in Done(l, stage) /\ To(l, After(stage))
  BY DEF Stage
<1>2. /\ DiskTyping'
      /\ \A name \in Launches \ {NameOf(l)} : disk'.job[name] = disk.job[name]
      /\ disk.repo => disk'.repo
  BY <1>1, DiskAfter DEF Stage, Inv, Typing, DiskTyping
<1>3. After(stage) \in Stations \ {"off", "over", "reading"}
  BY <1>1, AfterStage
<1>4. laptop'[l].at = After(stage) /\ laptop'[l].detach = laptop[l].detach
  BY <1>1, <1>3, Going DEF Inv, Typing
<1>5. faults' \in 0 .. MaxFaults
  BY FaultCounted DEF Stage, Inv, Typing
<1>6. Placed(l)'
  <2>1. Placed(l) /\ disk \in [job : [Launches -> [of : Owners, detach : BOOLEAN]], env : Owners,
                               repo : BOOLEAN, package : BOOLEAN]
    BY DEF Inv, Typing, DiskTyping
  <2>2. /\ NameOf(l) \in Launches /\ JobFile(l)' = disk'.job[NameOf(l)]
        /\ Payload(l)' = Payload(l) /\ NoJob' = NoJob /\ Shell' = Shell /\ excuse' = excuse
    BY <1>4, NameIsLaunch DEF JobFile, NameOf, Payload, NoJob, Shell, Stage, rentalVars
  <2>3. CASE stage = "clear"
    <3>1. laptop'[l].at = "job" /\ disk' = Cleared(l)
      BY <1>1, <1>4, <2>3, AfterStage DEF Done
    <3> QED  BY <2>1, <2>2, <3>1 DEF Placed, Cleared, HasJob, HasEnv, HasRepo
  <2>4. CASE stage = "job"
    <3>1. laptop'[l].at = "env" /\ disk' = JobPut(l)
      BY <1>1, <1>4, <2>4, AfterStage DEF Done
    <3> QED  BY <2>1, <2>2, <3>1 DEF Placed, JobPut, HasJob, HasEnv, HasRepo
  <2>5. CASE stage = "env"
    <3>1. laptop'[l].at = "repo" /\ disk' = EnvPut(l)
      BY <1>1, <1>4, <2>5, AfterStage DEF Done
    <3>2. JobFile(l)' = JobFile(l) /\ disk'.env = l
      BY <2>1, <2>2, <3>1 DEF EnvPut, JobFile
    <3> QED  BY <2>1, <2>2, <2>5, <3>1, <3>2 DEF Placed, HasJob, HasEnv, HasRepo
  <2>6. CASE stage = "repo"
    <3>1. laptop'[l].at = "package" /\ disk' \in RepoPut
      BY <1>1, <1>4, <2>6, AfterStage DEF Done
    <3>2. JobFile(l)' = JobFile(l) /\ disk'.env = disk.env /\ disk'.repo
      BY <2>1, <2>2, <3>1 DEF RepoPut, Cloned, JobFile
    <3> QED  BY <2>1, <2>2, <2>6, <3>1, <3>2 DEF Placed, HasJob, HasEnv, HasRepo
  <2>7. CASE stage = "package" \/ stage = "unpack"
    <3>1. /\ laptop'[l].at \in {"unpack", "run"} /\ (disk' = PackageRemoved \/ disk' = PackagePut)
      BY <1>1, <1>4, <2>7, AfterStage DEF Done
    <3>2. JobFile(l)' = JobFile(l) /\ disk'.env = disk.env /\ (disk.repo => disk'.repo)
      BY <1>2, <2>1, <2>2, <3>1 DEF PackageRemoved, PackagePut, JobFile
    <3> QED  BY <2>1, <2>2, <2>7, <3>1, <3>2 DEF Placed, HasJob, HasEnv, HasRepo
  <2> QED  BY <1>1, <2>3, <2>4, <2>5, <2>6, <2>7 DEF Stages
<1>7. Active(l) /\ laptop[l].at \notin {"off", "over", "reading"}
  BY <1>1, Activity DEF Stages
<1> QED  BY <1>1, <1>2, <1>3, <1>5, <1>6, <1>7, StagePassed DEF Stage

LEMMA StageFailsStep ==
  ASSUME Inv, Documents, NEW l \in Launches, StageFails(l)
  PROVE  Inv'
<1> DEFINE stage == laptop[l].at
<1>1. /\ stage \in Stages /\ disk' = Failed(stage) /\ Excuse(l, stage) /\ stage \in Excuses
      /\ disk' \in {disk, EnvNotPut} \cup Done(l, stage)
      /\ stage # "env" => disk' = disk
  BY DEF StageFails, Excuses, Failed
<1>2. /\ DiskTyping'
      /\ \A name \in Launches \ {NameOf(l)} : disk'.job[name] = disk.job[name]
      /\ disk.repo => disk'.repo
  <2>1. PICK d : d = disk'
    OBVIOUS
  <2>2. /\ d \in [job : [Launches -> [of : Owners, detach : BOOLEAN]], env : Owners,
                 repo : BOOLEAN, package : BOOLEAN]
        /\ \A name \in Launches \ {NameOf(l)} : d.job[name] = disk.job[name]
        /\ disk.repo => d.repo
    BY <1>1, <2>1, DiskAfter
  <2> QED  BY <2>1, <2>2 DEF StageFails, Inv, Typing, DiskTyping
<1>3. faults' \in 0 .. MaxFaults
  BY FaultCounted DEF StageFails, Inv, Typing
<1>4. Active(l) /\ laptop[l].at \notin {"off", "over", "reading"}
  BY <1>1, Activity DEF Stages
<1>5. CASE Conclude(l, "raised")
  BY <1>1, <1>2, <1>3, <1>4, <1>5, StageRaised DEF StageFails
<1>6. ASSUME NEW at, at \in Stations \ {"off", "over", "reading"}, To(l, at),
             (Shell /\ at = AfterFailure(stage)) \/ (stage = "repo" /\ at = "package")
      PROVE  Inv'
  <2>1. laptop'[l].at = at /\ laptop'[l].detach = laptop[l].detach
    BY <1>6, Going DEF Inv, Typing
  <2>2. excuse'[l] = excuse[l] \cup {stage}
    BY <1>1, Excusing DEF Inv, Typing
  <2>3. Placed(l) /\ disk \in [job : [Launches -> [of : Owners, detach : BOOLEAN]], env : Owners,
                               repo : BOOLEAN, package : BOOLEAN]
    BY DEF Inv, Typing, DiskTyping
  <2>4. /\ JobFile(l)' = JobFile(l) /\ (stage # "env" => disk'.env = disk.env)
        /\ Payload(l)' = Payload(l) /\ NoJob' = NoJob /\ Shell' = Shell
    BY <1>1, <2>1, <2>3
       DEF JobFile, NameOf, Payload, NoJob, Shell, StageFails, rentalVars, Failed, EnvNotPut
  <2>5. Placed(l)'
    <3>1. CASE stage = "clear"
      <4>1. at = "job"
        BY <1>6, <3>1, AfterStage
      <4> QED  BY <2>1, <2>2, <3>1, <4>1 DEF Placed, HasJob, HasEnv, HasRepo
    <3>2. CASE stage = "job"
      <4>1. at = "env" /\ Shell
        BY <1>6, <3>2, AfterStage
      <4> QED  BY <2>1, <2>2, <2>3, <2>4, <3>2, <4>1 DEF Placed, HasJob, HasEnv, HasRepo
    <3>3. CASE stage = "env"
      <4>1. at = "repo"
        BY <1>6, <3>3, AfterStage
      <4> QED  BY <2>1, <2>2, <2>3, <2>4, <3>3, <4>1 DEF Placed, HasJob, HasEnv, HasRepo
    <3>4. CASE stage = "repo"
      <4>1. at = "package"
        BY <1>6, <3>4, AfterStage
      <4> QED  BY <2>1, <2>2, <2>3, <2>4, <3>4, <4>1 DEF Placed, HasJob, HasEnv, HasRepo
    <3>5. CASE stage \in {"package", "unpack"}
      <4>1. at = "run"
        BY <1>6, <3>5, AfterStage
      <4> QED  BY <1>2, <2>1, <2>2, <2>3, <2>4, <3>5, <4>1 DEF Placed, HasJob, HasEnv, HasRepo
    <3> QED  BY <1>1, <3>1, <3>2, <3>3, <3>4, <3>5 DEF Stages
  <2> QED  BY <1>1, <1>2, <1>3, <1>4, <1>6, <2>5, StagePassed DEF StageFails
<1>7. CASE ShellStageFails(l)
  <2>1. AfterFailure(stage) \in Stations \ {"off", "over", "reading"}
    BY <1>1, AfterStage
  <2>2. PICK at : at = AfterFailure(stage)
    OBVIOUS
  <2>3. Shell /\ To(l, at)
    BY <1>7, <2>2 DEF ShellStageFails
  <2>4. at \in Stations \ {"off", "over", "reading"}
    BY <2>1, <2>2
  <2> QED  BY <1>6, <2>2, <2>3, <2>4
<1>8. CASE ExecStageFails(l) /\ stage = "repo"
  BY <1>6, <1>8 DEF ExecStageFails, Stations, Stages
<1> QED  BY <1>5, <1>7, <1>8 DEF StageFails, ExecStageFails

LEMMA LaunchStarts ==
  ASSUME Inv, Documents, NEW l \in Launches, Launch(l)
  PROVE  Inv'
<1>1. LaptopTyping /\ Course(l)
  BY DEF Inv, Typing
<1>2. /\ laptop' \in [Launches -> [at : Stations, detach : BOOLEAN, result : Results]]
      /\ \A k \in Launches \ {l} : laptop'[k] = laptop[k]
      /\ laptop'[l].at = (IF Shell THEN "connect" ELSE "job")
      /\ laptop'[l].result = laptop[l].result
  <2>1. PICK detach \in BOOLEAN :
          laptop' = [laptop EXCEPT ![l].at = IF Shell THEN "connect" ELSE "job", ![l].detach = detach]
    BY DEF Launch
  <2>2. PICK place : place = IF Shell THEN "connect" ELSE "job"
    OBVIOUS
  <2>3. place \in Stations
    BY <2>2 DEF Stations, Stages
  <2>4. laptop' = [laptop EXCEPT ![l].at = place, ![l].detach = detach]
    BY <2>1, <2>2
  <2> QED  BY <1>1, <2>2, <2>3, <2>4 DEF LaptopTyping
<1>3. /\ excuse' \in [Launches -> SUBSET Excuses]
      /\ \A k \in Launches : excuse[k] \subseteq excuse'[k]
  BY <1>1 DEF LaptopTyping, Launch, Excuses
<1>4. /\ rental.at = "worker" /\ laptop[l].at = "off" /\ laptop[l].result = "none"
      /\ UNCHANGED <<rentalVars, faults, oneProcess, disk, remote, job, ran>>
      /\ oneProcess => \A k \in Launches : ~ Active(k)
  BY <1>1 DEF Launch, Course
<1>5. Typing'
  BY <1>2, <1>3, <1>4, DocumentsTyping
     DEF Inv, Typing, RentalTyping, LaptopTyping, DiskTyping, RemoteTyping, rentalVars
<1>6. Beside'
  <2> SUFFICES ASSUME NEW j \in Launches, NEW k \in Launches, Active(j)', Active(k)', j # k
               PROVE  ~ oneProcess /\ "crossed" \in excuse'[k]
    BY <1>4 DEF Beside
  <2>1. CASE j # l /\ k # l
    BY <1>2, <1>3, <2>1 DEF Inv, Beside, Active, Over
  <2>2. CASE j = l
    <3>1. Active(k)
      BY <1>2, <2>2 DEF Active, Over
    <3> QED  BY <1>1, <1>4, <2>2, <3>1 DEF Launch, LaptopTyping
  <2>3. CASE k = l
    <3>1. Active(j)
      BY <1>2, <2>3 DEF Active, Over
    <3> QED  BY <1>1, <1>4, <2>3, <3>1 DEF Launch, LaptopTyping
  <2> QED  BY <2>1, <2>2, <2>3
<1>7. NoneOlder'
  BY DEF Documents, syncVars, Inv, NoneOlder
<1>8. ASSUME NEW k \in Launches
      PROVE  Shows(k)' /\ Own(k)' /\ Placed(k)'
  <2>1. JobMoves(k) /\ doc'[k] = Written(k)
    BY <1>4 DEF JobMoves, Documents
  <2>2. Shows(k)'
    BY <1>2, <1>5, <2>1, WrittenFollows DEF Documents
  <2>3. CASE k # l
    <3>1. Own(k)'
      BY <1>2, <1>3, <1>4, <2>3, OwnStays DEF rentalVars
    <3>2. Placed(k)'
      BY <1>2, <1>3, <1>4, <2>3, PlacedStays DEF rentalVars
    <3> QED  BY <2>2, <3>1, <3>2
  <2>4. CASE k = l
    <3>1. Told(l) /\ Ours(l) /\ Honest(l)
      BY DEF Inv
    <3>2. Course(l)'
      BY <1>1, <1>2, <1>4 DEF Course, rentalVars
    <3>3. Told(l)' /\ Ours(l)' /\ Honest(l)'
      BY <1>1, <1>2, <1>3, <1>4, <3>1 DEF Course, Told, Ours, Honest, Succeeds, Alive
    <3>4. Placed(l)'
      BY <1>2, <1>4 DEF Placed, Shell, HasJob, HasEnv, HasRepo, rentalVars
    <3> QED  BY <2>2, <2>4, <3>2, <3>3, <3>4 DEF Own
  <2> QED  BY <2>3, <2>4
<1> QED  BY <1>5, <1>6, <1>7, <1>8 DEF Inv, Own
-----------------------------------------------------------------------------
(* remote_job starts and speaks *)

LEMMA RunStep ==
  ASSUME Inv, Documents, NEW l \in Launches, Run(l)
  PROVE  Inv'
<1> DEFINE found == disk.job[NameOf(l)]
<1>1. /\ laptop[l].at = "run" /\ To(l, "reading") /\ excuse' = excuse
      /\ UNCHANGED <<rentalVars, faults, oneProcess>>
  BY DEF Run
<1>2. Course(l) /\ Told(l) /\ Placed(l) /\ Ours(l) /\ Active(l) /\ Honest(l)
  BY <1>1, Activity DEF Inv
<1>3. /\ laptop[l].result = "none" /\ remote[l].at = "none" /\ job[l].at = "none"
      /\ remote[l].printed = NothingSaid
  BY <1>1, <1>2 DEF Course
<1>4. /\ laptop' \in [Launches -> [at : Stations, detach : BOOLEAN, result : Results]]
      /\ \A k \in Launches \ {l} : laptop'[k] = laptop[k]
      /\ laptop'[l].at = "reading" /\ laptop'[l].result = "none"
  BY <1>1, <1>3, Going DEF Inv, Typing, Stations
<1>5. /\ disk \in [job : [Launches -> [of : Owners, detach : BOOLEAN]], env : Owners,
                   repo : BOOLEAN, package : BOOLEAN]
      /\ ran \in [Launches -> [job : Owners, env : Owners]]
      /\ remote \in [Launches -> Remotes] /\ job \in [Launches -> Trainings]
      /\ found \in [of : Owners, detach : BOOLEAN]
  BY NameIsLaunch DEF Inv, Typing, DiskTyping, RemoteTyping, Remotes, Trainings
<1>6. \/ /\ disk.repo /\ disk' = EnvTaken
         /\ ran' = [ran EXCEPT ![l] = [job |-> found.of, env |-> disk.env]]
      \/ ~ disk.repo /\ UNCHANGED <<ran, disk>>
  BY DEF Run
<1>7. StartsNothing(l) \/ StartsJob(l, found)
  BY DEF Run
<1>8. /\ DiskTyping' /\ \A name \in Launches \ {NameOf(l)} : disk'.job[name] = disk.job[name]
      /\ disk.repo => disk'.repo
      /\ \A k \in Launches \ {l} : ran'[k] = ran[k]
  <2>1. CASE disk.repo /\ disk' = EnvTaken /\ ran' = [ran EXCEPT ![l] = [job |-> found.of, env |-> disk.env]]
    BY <1>5, <2>1 DEF DiskTyping, EnvTaken, Owners
  <2>2. CASE UNCHANGED <<ran, disk>>
    BY <1>5, <2>2 DEF DiskTyping
  <2> QED  BY <1>6, <2>1, <2>2
<1>9. /\ remote' \in [Launches -> Remotes] /\ job' \in [Launches -> Trainings]
      /\ \A k \in Launches \ {l} : remote'[k] = remote[k] /\ job'[k] = job[k]
      /\ remote'[l].printed = NothingSaid
      /\ \/ remote'[l].at = "gone" /\ job'[l] = job[l]
         \/ remote'[l].at = "running" /\ job'[l].at = "preparing" /\ ~ job'[l].known
  <2>1. CASE StartsNothing(l)
    <3>1. remote[l].printed \o <<>> = NothingSaid
      BY <1>3 DEF NothingSaid
    <3>2. remote' = [remote EXCEPT ![l].at = "gone", ![l].printed = NothingSaid] /\ job' = job
      BY <2>1, <3>1 DEF StartsNothing, Announce
    <3> QED  BY <1>5, <3>2 DEF Remotes, Sayings
  <2>2. CASE StartsJob(l, found)
    <3>1. PICK session :
            session = IF found.detach THEN "own" ELSE IF Shell THEN "tty" ELSE "pipe"
      OBVIOUS
    <3>2. PICK started : started = [at |-> "preparing", known |-> FALSE, session |-> session]
      OBVIOUS
    <3>3. started \in Trainings /\ started.at = "preparing" /\ ~ started.known
      BY <3>1, <3>2 DEF Trainings, JobStates
    <3>4. job' = [job EXCEPT ![l] = started]
      BY <2>2, <3>1, <3>2 DEF StartsJob, ChildSession
    <3>5. /\ job' \in [Launches -> Trainings] /\ job'[l] = started
          /\ \A k \in Launches \ {l} : job'[k] = job[k]
      BY <1>5, <3>3, <3>4
    <3>6. found.detach \in BOOLEAN
      BY <1>5
    <3>7. remote' = [remote EXCEPT ![l].at = "running", ![l].detach = found.detach]
      BY <2>2 DEF StartsJob
    <3>8. /\ remote' \in [Launches -> Remotes] /\ remote'[l].at = "running"
          /\ remote'[l].printed = NothingSaid
          /\ \A k \in Launches \ {l} : remote'[k] = remote[k]
      BY <1>3, <1>5, <3>6, <3>7 DEF Remotes
    <3> QED  BY <3>3, <3>5, <3>8
  <2> QED  BY <1>7, <2>1, <2>2
<1>10. Typing'
  BY <1>1, <1>4, <1>8, <1>9, DocumentsTyping
     DEF Inv, Typing, RentalTyping, LaptopTyping, RemoteTyping, rentalVars, Remotes, Trainings
<1>11. Alone(l) /\ OwnFiles(l) /\ JobMoves(l)
  BY <1>1, <1>2, <1>3, <1>4, <1>8, <1>9 DEF Alone, OwnFiles, JobMoves, Documents
<1>12. Course(l)' /\ Told(l)' /\ Honest(l)'
  BY <1>1, <1>2, <1>3, <1>4, <1>9
     DEF Course, Told, Honest, Succeeds, Alive, rentalVars, NothingSaid, Trained, NotTrained,
         Error, Detached
<1>13. Ours(l)'
  <2>1. CASE disk.repo /\ ran' = [ran EXCEPT ![l] = [job |-> found.of, env |-> disk.env]]
    <3>1. ran'[l] = [job |-> found.of, env |-> disk.env]
      BY <1>5, <2>1
    <3>2. \/ found.of = l
          \/ "job" \in excuse[l] /\ (found.of = Nobody \/ "clear" \in excuse[l])
      BY <1>1, <1>2 DEF Placed, HasJob, JobFile, Payload, NoJob
    <3>3. disk.env = l \/ excuse[l] \cap {"env", "crossed"} # {}
      BY <1>1, <1>2 DEF Placed, HasJob, HasEnv
    <3> QED  BY <1>1, <3>1, <3>2, <3>3 DEF Ours, Stages
  <2>2. CASE ~ disk.repo /\ ran' = ran
    <3>1. "repo" \in excuse[l]
      BY <1>1, <1>2, <2>2 DEF Placed, HasJob, HasEnv, HasRepo
    <3> QED  BY <1>1, <1>2, <2>2, <3>1 DEF Ours, Stages
  <2> QED  BY <1>6, <2>1, <2>2
<1>14. Placed(l)'
  BY <1>4 DEF Placed, HasJob, HasEnv, HasRepo
<1> QED  BY <1>10, <1>11, <1>12, <1>13, <1>14, StepOfOne DEF Own, Documents

(* What is printed *)

LEMMA SaidFirst ==
  ASSUME NEW markers \in Sayings
  PROVE  NothingSaid \o markers = markers
<1>1. /\ <<>> \o Trained = Trained /\ <<>> \o NotTrained = NotTrained
      /\ <<>> \o Error = Error /\ <<>> \o Detached = Detached
  BY DEF Trained, NotTrained, Error, Detached
<1>2. <<>> \o <<>> = <<>>
  OBVIOUS
<1> QED  BY <1>1, <1>2 DEF Sayings, NothingSaid

\* The first n markers of what remote_job says.
Markers(printed, n) == {printed[i] : i \in 1 .. n}

LEMMA Lengths ==
  /\ Len(NothingSaid) = 0 /\ Len(Trained) = 2 /\ Len(NotTrained) = 2 /\ Len(Error) = 1
  /\ Len(Detached) = 3
BY DEF NothingSaid, Trained, NotTrained, Error, Detached

LEMMA AllMarkers ==
  /\ Markers(NothingSaid, 0) = {}
  /\ Markers(Trained, 2) = {"run", "rc 0"}
  /\ Markers(NotTrained, 2) = {"run", "rc 1"}
  /\ Markers(Error, 1) = {"rc 2"}
  /\ Markers(Detached, 3) = {"run", "detached", "rc 0"}
<1>1. 1 .. 0 = {} /\ 1 .. 1 = {1} /\ 1 .. 2 = {1, 2} /\ 1 .. 3 = {1, 2, 3}
  OBVIOUS
<1>2. Trained[1] = "run" /\ Trained[2] = "rc 0" /\ NotTrained[1] = "run" /\ NotTrained[2] = "rc 1"
  BY DEF Trained, NotTrained
<1>3. Error[1] = "rc 2" /\ Detached[1] = "run" /\ Detached[2] = "detached" /\ Detached[3] = "rc 0"
  BY DEF Error, Detached
<1>4. Markers(NothingSaid, 0) = {}
  BY <1>1 DEF Markers
<1>5. Markers(Trained, 2) = {"run", "rc 0"} /\ Markers(NotTrained, 2) = {"run", "rc 1"}
  BY <1>1, <1>2 DEF Markers
<1>6. Markers(Error, 1) = {"rc 2"} /\ Markers(Detached, 3) = {"run", "detached", "rc 0"}
  BY <1>1, <1>3 DEF Markers
<1> QED  BY <1>4, <1>5, <1>6

\* remote_job says how it went, and says what is so.
LEMMA Speaks ==
  ASSUME Inv, Documents, NEW l \in Launches, NEW at \in {"gone", "dashboard"},
         NEW markers \in Sayings, remote[l].at = "running", Announce(l, at, markers),
         UNCHANGED <<rentalVars, faults, oneProcess, laptop, disk, job, ran>>,
         excuse' = excuse \/ \E what \in Excuses : Excuse(l, what),
         markers = Trained => job[l].at = "trained",
         markers = Detached => job[l].known,
         markers \in {NotTrained, Error} => ~ Succeeds(l) \/ "deadline" \in excuse'[l],
         markers = NothingSaid => ~ Succeeds(l)
  PROVE  Inv'
<1>1. /\ LaptopTyping /\ remote \in [Launches -> Remotes]
      /\ Course(l) /\ Told(l) /\ Honest(l) /\ Ours(l) /\ Placed(l)
  BY DEF Inv, Typing, RemoteTyping, Remotes
<1>2. remote' = [remote EXCEPT ![l].at = at, ![l].printed = markers]
  <2>1. remote[l].printed \o markers = markers
    BY <1>1, SaidFirst DEF Course
  <2> QED  BY <2>1 DEF Announce
<1>3. /\ remote' \in [Launches -> Remotes]
      /\ \A k \in Launches \ {l} : remote'[k] = remote[k]
      /\ remote'[l].at = at /\ remote'[l].printed = markers
  BY <1>1, <1>2 DEF Remotes
<1>4. /\ excuse' \in [Launches -> SUBSET Excuses]
      /\ \A k \in Launches \ {l} : excuse'[k] = excuse[k]
      /\ excuse[l] \subseteq excuse'[l]
  <2>1. CASE excuse' = excuse
    BY <1>1, <2>1 DEF LaptopTyping
  <2>2. ASSUME NEW what \in Excuses, Excuse(l, what)
        PROVE  <1>4!1 /\ <1>4!2 /\ <1>4!3
    BY <1>1, <2>2, Excusing
  <2> QED  BY <2>1, <2>2
<1>5. Typing'
  BY <1>3, <1>4, DocumentsTyping
     DEF Inv, Typing, RentalTyping, LaptopTyping, DiskTyping, RemoteTyping, rentalVars, Remotes
<1>6. Alone(l)
  BY <1>3, <1>4 DEF Alone, Documents, Active, Over
<1>7. OwnFiles(l) /\ JobMoves(l)
  BY DEF OwnFiles, JobMoves
<1>8. Course(l)' /\ Ours(l)'
  BY <1>1, <1>3, <1>4 DEF Course, Ours, rentalVars
<1>9. Told(l)' /\ Honest(l)'
  BY <1>1, <1>3, <1>4 DEF Told, Honest, Succeeds, Alive
<1>10. Placed(l)'
  BY <1>4, PlacedStays DEF rentalVars
<1> QED  BY <1>5, <1>6, <1>7, <1>8, <1>9, <1>10, StepOfOne DEF Own, Documents

LEMMA ReportStep ==
  ASSUME Inv, Documents, NEW l \in Launches,
         AttachedReports(l) \/ DetachedReports(l) \/ DetachTimesOut(l)
  PROVE  Inv'
<1>1. {NothingSaid, Trained, NotTrained, Error, Detached} = Sayings
  BY DEF Sayings
<1>2. job[l].at = "failed" => ~ Succeeds(l)
  BY DEF Succeeds, Alive
<1>3. /\ NothingSaid \notin {Trained, NotTrained, Error, Detached}
      /\ Trained \notin {NotTrained, Error, Detached}
      /\ Detached \notin {NotTrained, Error}
  BY DEF NothingSaid, Trained, NotTrained, Error, Detached
<1>4. CASE AttachedReports(l)
  <2>1. CASE job[l].at = "trained"
    <3>1. PICK at \in {"gone", "dashboard"} : Announce(l, at, Trained)
      BY <1>4, <2>1 DEF AttachedReports, Trained
    <3> QED  BY <1>1, <1>3, <1>4, <2>1, <3>1, Speaks DEF AttachedReports
  <2>2. CASE job[l].at = "failed"
    <3>1. PICK markers \in {NotTrained, Error, NothingSaid} : Announce(l, "gone", markers)
      BY <1>4, <2>2 DEF AttachedReports, NotTrained, Error, NothingSaid
    <3> QED  BY <1>1, <1>2, <1>3, <1>4, <2>2, <3>1, Speaks DEF AttachedReports
  <2> QED  BY <1>4, <2>1, <2>2 DEF AttachedReports
<1>5. CASE DetachedReports(l)
  <2>1. CASE job[l].known /\ Announce(l, "gone", Detached)
    BY <1>1, <1>3, <1>5, <2>1, Speaks DEF DetachedReports
  <2>2. CASE job[l].at = "failed" /\ Announce(l, "gone", Error)
    BY <1>1, <1>2, <1>3, <1>5, <2>2, Speaks DEF DetachedReports
  <2> QED  BY <1>5, <2>1, <2>2 DEF DetachedReports, Detached, Error
<1>6. CASE DetachTimesOut(l)
  <2>1. Announce(l, "gone", Error) /\ Excuse(l, "deadline") /\ "deadline" \in Excuses
    BY <1>6 DEF DetachTimesOut, Error, Excuses
  <2>2. "deadline" \in excuse'[l]
    BY <2>1, Excusing DEF Inv, Typing
  <2> QED  BY <1>1, <1>3, <1>6, <2>1, <2>2, Speaks DEF DetachTimesOut
<1> QED  BY <1>4, <1>5, <1>6
-----------------------------------------------------------------------------
(* The launch is over *)

\* What was read is what was printed, or the beginning of it.
LEMMA ReadIsPrinted ==
  ASSUME Inv, NEW l \in Launches, NEW n \in 0 .. All(l)
  PROVE  "detached" \in Read(l, n) => remote[l].printed = Detached
<1>1. remote[l].printed \in Sayings
  BY DEF Inv, Typing, RemoteTyping
<1>2. PICK p : p = remote[l].printed
  OBVIOUS
<1>3. n \in 0 .. Len(p) /\ Read(l, n) = Markers(p, n) /\ Len(p) \in Nat
  BY <1>1, <1>2, Lengths DEF All, Read, Markers, Sayings
<1>4. Read(l, n) \subseteq Markers(p, Len(p))
  BY <1>3 DEF Markers
<1>5. ASSUME p \in {NothingSaid, Trained, NotTrained, Error}
      PROVE  "detached" \notin Markers(p, Len(p))
  BY <1>5, Lengths, AllMarkers
<1> QED  BY <1>1, <1>2, <1>4, <1>5 DEF Sayings

\* The handle of a session that was read to its end.
LEMMA Outcome ==
  ASSUME Inv, NEW l \in Launches, NEW r, r = ResultOf(l, All(l), Said(l, All(l)))
  PROVE  \/ remote[l].printed = Trained /\ r = "completed"
         \/ remote[l].printed = Detached /\ r = "running"
         \/ remote[l].printed \in {NothingSaid, NotTrained, Error} /\ r = "failed"
<1>1. remote[l].printed \in Sayings
  BY DEF Inv, Typing, RemoteTyping
<1> DEFINE read == Read(l, All(l))
<1>0. PICK p : p = remote[l].printed
  OBVIOUS
<1>9. read = Markers(p, Len(p))
  BY <1>0 DEF Read, All, Markers
<1> HIDE DEF read
<1>2. /\ remote[l].printed = NothingSaid => read = {}
      /\ remote[l].printed = Trained => read = {"run", "rc 0"}
      /\ remote[l].printed = NotTrained => read = {"run", "rc 1"}
      /\ remote[l].printed = Error => read = {"rc 2"}
      /\ remote[l].printed = Detached => read = {"run", "detached", "rc 0"}
  BY <1>0, <1>9, Lengths, AllMarkers
<1> DEFINE codes == {m \in read : m \in {"rc 0", "rc 1", "rc 2"}}
<1>3. Said(l, All(l)) = IF codes = {} THEN "rc 1" ELSE CHOOSE c \in codes : TRUE
  BY DEF Said, Unsaid, read
<1>4. CASE remote[l].printed = NothingSaid
  <2>1. Said(l, All(l)) = "rc 1"
    BY <1>2, <1>3, <1>4
  <2> QED  BY <1>2, <1>4, <2>1 DEF ResultOf, read
<1>5. CASE remote[l].printed = Trained
  <2>1. codes = {"rc 0"}
    BY <1>2, <1>5
  <2>2. Said(l, All(l)) = "rc 0"
    BY <1>3, <2>1
  <2> QED  BY <1>2, <1>5, <2>2 DEF ResultOf, read
<1>6. CASE remote[l].printed = NotTrained
  <2>1. codes = {"rc 1"}
    BY <1>2, <1>6
  <2>2. Said(l, All(l)) = "rc 1"
    BY <1>3, <2>1
  <2> QED  BY <1>2, <1>6, <2>2 DEF ResultOf, read
<1>7. CASE remote[l].printed = Error
  <2>1. codes = {"rc 2"}
    BY <1>2, <1>7
  <2>2. Said(l, All(l)) = "rc 2"
    BY <1>3, <2>1
  <2> QED  BY <1>2, <1>7, <2>2 DEF ResultOf, read
<1>8. CASE remote[l].printed = Detached
  BY <1>2, <1>8 DEF ResultOf, read
<1> QED  BY <1>1, <1>4, <1>5, <1>6, <1>7, <1>8 DEF Sayings

\* A launch comes to its end, and only its training may change with it.
LEMMA Ends ==
  ASSUME Inv, Documents, NEW l \in Launches, NEW r \in Results \ {"none"},
         laptop[l].at \notin {"off", "over"}, Conclude(l, r),
         UNCHANGED <<rentalVars, oneProcess, ran>>, faults' \in 0 .. MaxFaults,
         DiskTyping', \A name \in Launches \ {NameOf(l)} : disk'.job[name] = disk.job[name],
         disk.repo => disk'.repo,
         excuse' = excuse \/ \E what \in Excuses : Excuse(l, what),
         remote' \in [Launches -> Remotes], job' \in [Launches -> Trainings],
         \A k \in Launches \ {l} : remote'[k] = remote[k] /\ job'[k] = job[k],
         remote'[l].at \in {remote[l].at, "cut"}, remote[l].at = "none" => remote'[l].at = "none",
         remote'[l].printed = remote[l].printed,
         JobMoves(l), job[l].at = "none" => job'[l] = job[l], Honest(l)'
  PROVE  Inv'
<1>1. LaptopTyping /\ Course(l) /\ Told(l) /\ Ours(l) /\ Shows(l)
  BY DEF Inv, Typing
<1>2. /\ laptop' \in [Launches -> [at : Stations, detach : BOOLEAN, result : Results]]
      /\ \A k \in Launches \ {l} : laptop'[k] = laptop[k]
      /\ laptop'[l].at = "over" /\ laptop'[l].result = r
  BY <1>1, Concluding
<1>3. /\ excuse' \in [Launches -> SUBSET Excuses]
      /\ \A k \in Launches \ {l} : excuse'[k] = excuse[k]
      /\ excuse[l] \subseteq excuse'[l]
  <2>1. CASE excuse' = excuse
    BY <1>1, <2>1 DEF LaptopTyping
  <2>2. ASSUME NEW what \in Excuses, Excuse(l, what)
        PROVE  <1>3!1 /\ <1>3!2 /\ <1>3!3
    BY <1>1, <2>2, Excusing
  <2> QED  BY <2>1, <2>2
<1>4. Typing'
  BY <1>2, <1>3, DocumentsTyping
     DEF Inv, Typing, RentalTyping, LaptopTyping, RemoteTyping, rentalVars, Remotes, Trainings
<1>5. Alone(l) /\ OwnFiles(l)
  <2>1. laptop[l].result = "none" /\ Active(l)
    BY <1>1, Activity DEF Course
  <2>2. ran' = ran /\ UNCHANGED <<rentalVars, oneProcess, syncVars>>
    BY DEF Documents
  <2> QED  BY <1>2, <1>3, <2>1, <2>2 DEF Alone, OwnFiles, Active, Over
<1>6. Course(l)'
  BY <1>1, <1>2 DEF Course, rentalVars
<1>7. Told(l)'
  <2>1. Succeeds(l)' => Succeeds(l)
    BY DEF JobMoves, Succeeds, Alive
  <2>2. job[l].at = "trained" => job'[l].at = "trained"
    BY DEF JobMoves, Alive
  <2>3. job[l].known => job'[l].known
    BY <1>1 DEF JobMoves, Shows
  <2> QED  BY <1>1, <1>3, <2>1, <2>2, <2>3 DEF Told
<1>8. Ours(l)'
  BY <1>1, <1>3 DEF Ours
<1>9. Placed(l)'
  BY <1>2 DEF Placed, HasJob, HasEnv, HasRepo
<1> QED  BY <1>4, <1>5, <1>6, <1>7, <1>8, <1>9, StepOfOne DEF Own, Documents

LEMMA ReturnsStep ==
  ASSUME Inv, Documents, NEW l \in Launches, Returns(l)
  PROVE  Inv'
<1>1. Told(l) /\ DiskTyping /\ LaptopTyping /\ RentalTyping
  BY DEF Inv, Typing
<1>2. remote \in [Launches -> Remotes] /\ job \in [Launches -> Trainings]
  BY DEF Inv, Typing, RemoteTyping, Remotes, Trainings
<1>3. PICK r : r = ResultOf(l, All(l), Said(l, All(l)))
  OBVIOUS
<1>4. \/ remote[l].printed = Trained /\ r = "completed"
      \/ remote[l].printed = Detached /\ r = "running"
      \/ remote[l].printed \in {NothingSaid, NotTrained, Error} /\ r = "failed"
  BY <1>3, Outcome
<1>5. r \in Results \ {"none"}
  BY <1>4 DEF Results
<1>6. /\ Conclude(l, r) /\ laptop[l].at = "reading" /\ remote[l].at = "gone"
      /\ UNCHANGED <<rentalVars, faults, oneProcess, disk, remote, job, ran, excuse>>
  BY <1>3 DEF Returns
<1>7. laptop'[l].result = r
  BY <1>1, <1>5, <1>6, Concluding
<1>8. Honest(l)'
  BY <1>1, <1>4, <1>6, <1>7 DEF Honest, Told, Succeeds, Alive
<1>9. DiskTyping' /\ faults' \in 0 .. MaxFaults /\ JobMoves(l)
  BY <1>1, <1>6 DEF DiskTyping, RentalTyping, JobMoves
<1> QED  BY <1>2, <1>5, <1>6, <1>8, <1>9, Ends

LEMMA SessionClosed ==
  ASSUME Inv, NEW l \in Launches, SessionCloses(l)
  PROVE  /\ remote' \in [Launches -> Remotes] /\ job' \in [Launches -> Trainings]
         /\ \A k \in Launches \ {l} : remote'[k] = remote[k] /\ job'[k] = job[k]
         /\ remote'[l].at \in {remote[l].at, "cut"}
         /\ remote[l].at = "none" => remote'[l].at = "none"
         /\ remote'[l].printed = remote[l].printed
         /\ JobMoves(l) /\ (job[l].at = "none" => job'[l] = job[l])
<1>1. remote \in [Launches -> Remotes] /\ job \in [Launches -> Trainings]
  BY DEF Inv, Typing, RemoteTyping, Remotes, Trainings
<1>2. PICK at : at = IF remote[l].at = "none" THEN "none" ELSE "cut"
  OBVIOUS
<1>3. remote' = [remote EXCEPT ![l].at = at]
  BY <1>2 DEF SessionCloses
<1>4. /\ remote' \in [Launches -> Remotes] /\ remote'[l].at = at
      /\ \A k \in Launches \ {l} : remote'[k] = remote[k]
      /\ remote'[l].printed = remote[l].printed
  BY <1>1, <1>2, <1>3 DEF Remotes
<1>5. PICK j \in HungUp(l) : job' = [job EXCEPT ![l] = j]
  BY DEF SessionCloses
<1>6. \/ j = job[l]
      \/ Alive(l) /\ j = [job[l] EXCEPT !.at = "hung up"]
      \/ Alive(l) /\ j = [job[l] EXCEPT !.at = "failed"]
  BY <1>5 DEF HungUp
<1>7. /\ j \in Trainings
      /\ j = job[l] \/ (Alive(l) /\ j.at \in {"failed", "hung up"} /\ j.known = job[l].known)
  BY <1>1, <1>6 DEF Trainings, JobStates
<1>8. /\ job' \in [Launches -> Trainings] /\ job'[l] = j
      /\ \A k \in Launches \ {l} : job'[k] = job[k]
  BY <1>1, <1>5, <1>7
<1> QED  BY <1>2, <1>4, <1>7, <1>8 DEF JobMoves, Alive

\* The session ends early, and the handle is made of what was read.
LEMMA Cut ==
  ASSUME Inv, Documents, NEW l \in Launches, InSession(l), SessionCloses(l),
         NEW r \in {"running", "failed", "raised"}, Conclude(l, r),
         r = "running" => remote[l].printed = Detached,
         NEW what \in {"drop", "interrupt"}, Excuse(l, what),
         UNCHANGED <<rentalVars, oneProcess, ran>>, Fault \/ faults' = faults,
         disk' \in {disk, EnvNotPut}
  PROVE  Inv'
<1>1. Told(l) /\ Shows(l) /\ LaptopTyping /\ RentalTyping
  BY DEF Inv, Typing
<1>2. laptop[l].at \notin {"off", "over"}
  BY DEF InSession, Stages
<1>3. r \in Results \ {"none"} /\ what \in Excuses
  BY DEF Results, Excuses
<1>4. laptop'[l].result = r /\ excuse'[l] = excuse[l] \cup {what}
  BY <1>1, <1>3, Concluding, Excusing
<1>5. job[l].known => job'[l].known
  BY <1>1, SessionClosed DEF JobMoves, Shows
<1>6. Honest(l)'
  BY <1>1, <1>4, <1>5 DEF Honest, Told
<1>7. /\ DiskTyping' /\ \A name \in Launches \ {NameOf(l)} : disk'.job[name] = disk.job[name]
      /\ disk.repo => disk'.repo
  <2>1. DiskTyping
    BY DEF Inv, Typing
  <2>2. CASE disk' = disk
    BY <2>1, <2>2 DEF DiskTyping
  <2>3. CASE disk' = EnvNotPut
    BY <2>1, <2>3 DEF DiskTyping, EnvNotPut, Owners
  <2> QED  BY <2>2, <2>3
<1>8. faults' \in 0 .. MaxFaults
  BY <1>1, FaultCounted
<1> QED  BY <1>2, <1>3, <1>6, <1>7, <1>8, SessionClosed, Ends

LEMMA DropsStep ==
  ASSUME Inv, Documents, NEW l \in Launches, Drops(l)
  PROVE  Inv'
<1>1. PICK n \in 0 .. All(l) : Conclude(l, DropResult(l, n))
  BY DEF Drops
<1>2. PICK r : r = DropResult(l, n)
  OBVIOUS
<1>3. /\ r \in {"running", "failed", "raised"}
      /\ r = "running" => "detached" \in Read(l, n)
  BY <1>2 DEF DropResult, ResultOf
<1>4. r = "running" => remote[l].printed = Detached
  BY <1>3, ReadIsPrinted
<1>5. disk' \in {disk, EnvNotPut}
  BY DEF Drops, Failed
<1> QED  BY <1>1, <1>2, <1>3, <1>4, <1>5, Cut DEF Drops

LEMMA InterruptStep ==
  ASSUME Inv, Documents, NEW l \in Launches, Interrupt(l)
  PROVE  Inv'
<1>1. PICK n \in 0 .. All(l) : Conclude(l, InterruptResult(l, n))
  BY DEF Interrupt
<1>2. PICK r : r = InterruptResult(l, n)
  OBVIOUS
<1>3. /\ r \in {"running", "failed", "raised"}
      /\ r = "running" => "detached" \in Read(l, n)
  BY <1>2 DEF InterruptResult, ResultOf
<1>4. r = "running" => remote[l].printed = Detached
  BY <1>3, ReadIsPrinted
<1> QED  BY <1>1, <1>2, <1>3, <1>4, Cut DEF Interrupt
-----------------------------------------------------------------------------
(* The laptop's copy *)

\* What there is to be shown of a run, and who follows it.
LEMMA Showing ==
  ASSUME Inv, NEW l \in Launches
  PROVE  /\ doc[l] \in {"none"} \cup Seen /\ copy[l] \in Phases /\ doc[l] \in Phases
         /\ l \in syncing => doc[l] \in Seen
         /\ Rank(copy[l]) \in 0 .. 6 /\ Rank(doc[l]) \in 0 .. 6
         /\ doc[l] \in Seen => Rank(copy[l]) <= Rank(doc[l])
         /\ \A k \in Launches : archive[k][l] \in Phases
<1>1. /\ Shows(l) /\ Honest(l) /\ copy[l] \in Phases /\ doc[l] \in Phases
      /\ \A k \in Launches : archive[k][l] \in Phases
  BY DEF Inv, Typing, SyncTyping, Archived
<1>2. doc[l] \in {"none"} \cup Seen /\ (l \in syncing => doc[l] \in Seen)
  BY <1>1 DEF Shows, Honest, Seen
<1>3. Rank(copy[l]) \in 0 .. 6 /\ Rank(doc[l]) \in 0 .. 6
  BY <1>1, RankNumbers
<1>4. ASSUME doc[l] \in Seen
      PROVE  Rank(copy[l]) <= Rank(doc[l])
  <2>1. CASE copy[l] \in Seen
    BY <1>1, <2>1 DEF Shows
  <2>2. CASE copy[l] \notin Seen
    BY <1>1, <1>3, <1>4, <2>2, RankNumbers
  <2> QED  BY <2>1, <2>2
<1> QED  BY <1>1, <1>2, <1>3, <1>4

\* How the copy of a run is left by a step of the round of launch l.
Left(l, k) ==
  \/ copy'[k] = copy[k]
  \/ k = l /\ copy[k] \in {"none", "torn"} /\ copy'[k] = "waiting"
  \/ k = l /\ l \in syncing /\ copy'[k] = doc[k]
  \/ k = l /\ l \in syncing /\ copy'[k] = "boot" /\ PullGarbled(l)
  \/ l \in syncing /\ copy'[k] = archive[l][k] /\ archive[l][k] # "none"
  \/ copy'[k] = "torn"
  \/ k = l /\ copy[k] \in {"none", "torn", "waiting", "syncing"} /\ copy'[k] = "syncing"

\* How the thread of launch l, and what it has packed, are left.
Thread(l) ==
  /\ l \in syncing' /\ round'[l] # "off"
  /\ syncing' = syncing \/ (syncing' = syncing \cup {l} /\ laptop[l].result = "running")
  /\ \A k \in Launches \ {l} : round'[k] = round[k] /\ archive'[k] = archive[k]
  /\ \/ archive'[l] = archive[l] /\ round'[l] # "packed" /\ round[l] # "packed"
     \/ archive'[l] = NothingPacked /\ round'[l] # "packed"
     \/ archive'[l] \in {doc, NothingPacked} /\ round'[l] = "packed" /\ copy' = copy

LEMMA SyncRound ==
  ASSUME Inv, NEW l \in Launches, SyncStep(l)
  PROVE  /\ SyncTyping' /\ faults' \in 0 .. MaxFaults
         /\ UNCHANGED <<rentalVars, remoteVars, doc>>
         /\ Thread(l) /\ \A k \in Launches : Left(l, k)
<1>1. RentalTyping /\ SyncTyping /\ NothingPacked \in Archived /\ doc \in Archived
  BY DEF Inv, Typing, SyncTyping, NothingPacked, Archived, Phases
<1>2. /\ faults' \in 0 .. MaxFaults /\ UNCHANGED <<rentalVars, remoteVars, doc>>
  <2>1. Fault \/ faults' = faults
    BY DEF SyncStep, StartSync, PullLive, PullGarbled, LiveFails, PackAll, UnpackAll, BreaksOff, PullFails
  <2>2. UNCHANGED <<rentalVars, remoteVars, doc>>
    BY DEF SyncStep, StartSync, PullLive, PullGarbled, LiveFails, PackAll, UnpackAll, BreaksOff, PullFails
  <2> QED
    BY <1>1, <2>1, <2>2, FaultCounted
<1> DEFINE Stepped == SyncTyping' /\ Thread(l) /\ \A k \in Launches : Left(l, k)
<1>3. CASE StartSync(l)
  <2>1. PICK p \in Phases : /\ copy' = [copy EXCEPT ![l] = p]
                            /\ p = copy[l] \/ (copy[l] \in {"none", "torn"} /\ p = "waiting")
    <3>1. copy[l] \in Phases /\ "waiting" \in Phases
      BY <1>1 DEF SyncTyping, Phases
    <3>2. copy' = [copy EXCEPT ![l] = IF copy[l] \in {"none", "torn"} THEN "waiting" ELSE copy[l]]
      BY <1>3 DEF StartSync
    <3> QED  BY <3>1, <3>2
  <2>2. SyncTyping'
    BY <1>1, <1>2, <1>3, <2>1 DEF SyncTyping, StartSync
  <2>3. Thread(l)
    <3>1. round'[l] = "live" /\ \A k \in Launches \ {l} : round'[k] = round[k]
      BY <1>1, <1>3 DEF SyncTyping, StartSync
    <3> QED  BY <1>3, <3>1 DEF Thread, StartSync
  <2>4. \A k \in Launches : Left(l, k)
    BY <1>1, <2>1 DEF SyncTyping, Left
  <2> QED  BY <1>2, <2>2, <2>3, <2>4
<1>4. CASE PullLive(l)
  <2>1. l \in syncing /\ round[l] = "live" /\ copy' = [copy EXCEPT ![l] = doc[l]]
        /\ UNCHANGED <<syncing, doc, round, archive>>
    BY <1>4 DEF PullLive, Rounds
  <2>2. SyncTyping' /\ Thread(l)
    BY <1>1, <2>1 DEF SyncTyping, Thread
  <2> QED  BY <1>2, <1>1, <2>1, <2>2 DEF SyncTyping, Left
<1>5. CASE PullGarbled(l)
  <2>1. PICK p \in Phases : /\ copy' = [copy EXCEPT ![l] = p]
                            /\ p = copy[l] \/ p = "boot"
    <3>1. copy[l] \in Phases /\ "boot" \in Phases
      BY <1>1 DEF SyncTyping, Phases
    <3>2. copy' = [copy EXCEPT ![l] = IF Shell THEN "boot" ELSE copy[l]]
      BY <1>5 DEF PullGarbled
    <3> QED  BY <3>1, <3>2
  <2>2. l \in syncing /\ round[l] = "live" /\ UNCHANGED <<syncing, doc, round, archive>>
    BY <1>5 DEF PullGarbled, Rounds
  <2>3. SyncTyping' /\ Thread(l)
    BY <1>1, <2>1, <2>2 DEF SyncTyping, Thread
  <2> QED  BY <1>2, <1>1, <1>5, <2>1, <2>2, <2>3 DEF SyncTyping, Left
<1>6. CASE LiveFails(l)
  <2>1. l \in syncing /\ round[l] = "live" /\ round' = [round EXCEPT ![l] = "all"]
        /\ UNCHANGED <<syncing, doc, copy, archive>>
    BY <1>6 DEF LiveFails, Rounds, Goes
  <2>2. SyncTyping' /\ Thread(l)
    BY <1>1, <2>1 DEF SyncTyping, Thread
  <2> QED  BY <1>2, <2>1, <2>2 DEF Left
<1>7. CASE PackAll(l)
  <2>1. PICK packed \in Archives : archive' = [archive EXCEPT ![l] = packed]
    BY <1>7 DEF PackAll
  <2>2. l \in syncing /\ round' = [round EXCEPT ![l] = "packed"]
        /\ UNCHANGED <<syncing, doc, copy>>
    BY <1>7 DEF PackAll, Rounds, Goes
  <2>3. packed \in Archived
    BY <1>1, <2>1 DEF Archives
  <2>4. SyncTyping' /\ Thread(l)
    BY <1>1, <2>1, <2>2, <2>3 DEF SyncTyping, Thread, Archives
  <2> QED  BY <1>2, <2>2, <2>4 DEF Left
<1>8. CASE UnpackAll(l) \/ BreaksOff(l)
  <2>1. PICK at \in {"live", "failed"} : round' = [round EXCEPT ![l] = at]
    BY <1>8 DEF UnpackAll, BreaksOff, Goes
  <2>2. l \in syncing /\ archive' = [archive EXCEPT ![l] = NothingPacked]
        /\ UNCHANGED <<syncing, doc>>
    BY <1>8 DEF UnpackAll, BreaksOff, Rounds
  <2>3. ASSUME NEW runs
        PROVE  /\ Unpacked(l, runs) \in [Launches -> Phases]
               /\ \A k \in Launches : \/ Unpacked(l, runs)[k] = copy[k]
                                      \/ /\ Unpacked(l, runs)[k] = archive[l][k]
                                         /\ archive[l][k] # "none"
    BY <1>1 DEF SyncTyping, Archived, Unpacked
  <2>4. copy' \in [Launches -> Phases] /\ \A k \in Launches : Left(l, k)
    <3>1. CASE UnpackAll(l)
      <4>1. copy' = Unpacked(l, Launches)
        BY <3>1 DEF UnpackAll
      <4> QED  BY <2>2, <2>3, <4>1 DEF Left
    <3>2. CASE BreaksOff(l)
      <4>1. PICK j \in Launches, before \in SUBSET Launches :
              copy' = [Unpacked(l, before) EXCEPT ![j] = "torn"]
        BY <3>2 DEF BreaksOff
      <4>2. PICK left \in [Launches -> Phases] : left = Unpacked(l, before)
        BY <2>3
      <4>3. copy' = [left EXCEPT ![j] = "torn"] /\ "torn" \in Phases
        BY <4>1, <4>2 DEF Phases
      <4>4. \A k \in Launches : left[k] = copy[k] \/ (left[k] = archive[l][k] /\ archive[l][k] # "none")
        BY <2>3, <4>2
      <4> QED  BY <2>2, <4>3, <4>4 DEF Left
    <3> QED  BY <1>8, <3>1, <3>2
  <2>5. SyncTyping' /\ Thread(l)
    BY <1>1, <2>1, <2>2, <2>4 DEF SyncTyping, Thread
  <2> QED  BY <1>2, <2>4, <2>5
<1>9. CASE PullFails(l)
  <2>1. l \in syncing /\ round[l] \in {"all", "failed"} /\ round' = [round EXCEPT ![l] = "live"]
        /\ UNCHANGED <<syncing, doc, archive>>
    BY <1>9 DEF PullFails, Rounds, Goes, NextRound
  <2>2. PICK p \in Phases : /\ copy' = [copy EXCEPT ![l] = p]
                            /\ \/ p = copy[l]
                               \/ copy[l] \in {"none", "torn", "waiting", "syncing"} /\ p = "syncing"
    <3>1. copy[l] \in Phases /\ "syncing" \in Phases
      BY <1>1 DEF SyncTyping, Phases
    <3>2. copy' = [copy EXCEPT ![l] =
                    IF copy[l] \in {"none", "torn", "waiting", "syncing"} THEN "syncing" ELSE copy[l]]
      BY <1>9 DEF PullFails, Announced
    <3> QED  BY <3>1, <3>2
  <2>3. SyncTyping' /\ Thread(l)
    BY <1>1, <2>1, <2>2 DEF SyncTyping, Thread
  <2> QED  BY <1>2, <1>1, <2>2, <2>3 DEF SyncTyping, Left
<1>10. Stepped
  BY <1>3, <1>4, <1>5, <1>6, <1>7, <1>8, <1>9 DEF SyncStep
<1> QED  BY <1>2, <1>10

\* A step of a round never shows more than there is, and takes back what is shown
\* for the named reasons only.
LEMMA CopyKept ==
  ASSUME Inv, NEW l \in Launches, NEW k \in Launches, l \in syncing \/ ~ PullGarbled(l), Left(l, k)
  PROVE  /\ copy'[k] \in Seen => Rank(copy'[k]) <= Rank(doc[k])
         /\ Rank(copy'[k]) < Rank(copy[k]) =>
              \/ PullGarbled(k)
              \/ copy'[k] = "torn"
              \/ ~ syncing \subseteq {k} /\ \E j \in syncing : copy'[k] = archive[j][k]
<1>1. /\ Shows(k) /\ copy[k] \in Phases /\ doc[k] \in {"none"} \cup Seen
      /\ k \in syncing => doc[k] \in Seen
      /\ Rank(copy[k]) \in 0 .. 6 /\ Rank(doc[k]) \in 0 .. 6
      /\ doc[k] \in Seen => Rank(copy[k]) <= Rank(doc[k])
  BY Showing DEF Inv
<1>2. CASE copy'[k] = copy[k]
  BY <1>1, <1>2 DEF Shows
<1>3. CASE copy[k] \in {"none", "torn"} /\ copy'[k] = "waiting"
  BY <1>3, Ranks DEF Seen
<1>4. CASE k = l /\ l \in syncing /\ copy'[k] = doc[k]
  BY <1>1, <1>4
<1>5. CASE k = l /\ l \in syncing /\ copy'[k] = "boot" /\ PullGarbled(l)
  BY <1>1, <1>5, Ranks DEF Seen
<1>6. CASE l \in syncing /\ copy'[k] = archive[l][k] /\ archive[l][k] # "none"
  <2>1. archive[l][k] \in Seen /\ Rank(archive[l][k]) <= Rank(doc[k])
    BY <1>1, <1>6 DEF Shows
  <2>2. CASE ~ syncing \subseteq {k}
    BY <1>6, <2>1, <2>2
  <2>3. CASE syncing \subseteq {k}
    <3>1. l = k
      BY <1>6, <2>3
    <3>2. Rank(copy[k]) <= Rank(archive[k][k])
      BY <1>6, <2>3, <3>1 DEF Inv, NoneOlder
    <3>3. Rank(archive[k][k]) \in 0 .. 6
      BY <2>1, <3>1, RankNumbers
    <3> QED  BY <1>1, <1>6, <2>1, <3>1, <3>2, <3>3
  <2> QED  BY <2>2, <2>3
<1>7. CASE copy'[k] = "torn"
  BY <1>7 DEF Seen
<1>8. CASE copy[k] \in {"none", "torn", "waiting", "syncing"} /\ copy'[k] = "syncing"
  BY <1>8, Ranks DEF Seen
<1> QED  BY <1>2, <1>3, <1>4, <1>5, <1>6, <1>7, <1>8 DEF Left

LEMMA SyncStepStays ==
  ASSUME Inv, NEW l \in Launches, SyncStep(l)
  PROVE  Inv'
<1>1. /\ SyncTyping' /\ faults' \in 0 .. MaxFaults
      /\ UNCHANGED <<rentalVars, remoteVars, doc>>
      /\ Thread(l) /\ \A k \in Launches : Left(l, k)
  BY SyncRound
<1>2. Typing'
  BY <1>1 DEF Inv, Typing, RentalTyping, LaptopTyping, DiskTyping, RemoteTyping, rentalVars, remoteVars
<1>3. Beside'
  BY <1>1 DEF Inv, Beside, Active, Over, rentalVars, remoteVars
<1>4. l \in syncing \/ ~ PullGarbled(l)
  BY DEF PullGarbled, Rounds
<1>5. ASSUME NEW k \in Launches
      PROVE  Shows(k)'
  <2>1. Shows(k) /\ doc[k] \in {"none"} \cup Seen /\ doc'[k] = doc[k] /\ Rank(doc[k]) \in 0 .. 6
    BY <1>1, Showing DEF Inv
  <2>2. copy'[k] \in Seen => Rank(copy'[k]) <= Rank(doc[k])
    BY <1>1, <1>4, CopyKept
  <2>3. k \in syncing' => laptop[k].result = "running" /\ round'[k] # "off"
    BY <1>1, <2>1 DEF Thread, Shows
  <2>4. ASSUME NEW j \in Launches, archive'[j][k] # "none"
        PROVE  /\ archive'[j][k] \in Seen /\ Rank(archive'[j][k]) <= Rank(doc[k])
               /\ round'[j] = "packed"
    <3>1. CASE j # l
      BY <1>1, <2>1, <2>4, <3>1 DEF Thread, Shows
    <3>2. CASE j = l
      <4>1. NothingPacked[k] = "none"
        BY DEF NothingPacked
      <4>2. CASE archive'[l] = archive[l] /\ round'[l] # "packed" /\ round[l] # "packed"
        BY <2>1, <2>4, <3>2, <4>2 DEF Shows
      <4>3. CASE archive'[l] \in {doc, NothingPacked} /\ round'[l] = "packed"
        BY <2>1, <2>4, <3>2, <4>1, <4>3
      <4> QED  BY <1>1, <2>4, <3>2, <4>1, <4>2, <4>3 DEF Thread
    <3> QED  BY <3>1, <3>2
  <2>5. job' = job /\ laptop' = laptop
    BY <1>1 DEF remoteVars
  <2> QED  BY <2>1, <2>2, <2>3, <2>4, <2>5 DEF Shows
<1>6. NoneOlder'
  <2> SUFFICES ASSUME NEW k \in Launches, syncing' \subseteq {k}, archive'[k][k] # "none"
               PROVE  Rank(copy'[k]) <= Rank(archive'[k][k])
    BY DEF NoneOlder
  <2>1. k = l
    BY <1>1 DEF Thread
  <2>2. round'[k] = "packed"
    BY <1>5 DEF Shows
  <2>3. NothingPacked[k] = "none"
    BY DEF NothingPacked
  <2>4. archive'[l] = doc /\ copy' = copy
    BY <1>1, <2>1, <2>2, <2>3 DEF Thread
  <2>5. doc[k] \in Seen
    BY <2>1, <2>4, Showing
  <2> QED  BY <2>1, <2>4, <2>5, Showing
<1>7. ASSUME NEW k \in Launches
      PROVE  Own(k)' /\ Placed(k)'
  <2>1. Course(k)
    BY DEF Inv
  <2>2. Own(k)'
    BY <1>1, <2>1, OwnStays DEF remoteVars, rentalVars, Course
  <2>3. Placed(k)'
    BY <1>1, PlacedStays DEF remoteVars, rentalVars
  <2> QED  BY <2>2, <2>3
<1> QED  BY <1>2, <1>3, <1>5, <1>6, <1>7 DEF Inv, Own
-----------------------------------------------------------------------------
(* The invariant *)

LEMMA InitInv == Init => Inv
<1> SUFFICES ASSUME Init PROVE Inv
  OBVIOUS
<1>1. RentalTyping
  <2>1. PICK start \in {"search", "resolve"} :
          rental = [at |-> start, via |-> "none", why |-> "none"]
    BY DEF Init, RentalInit
  <2>2. rental \in Rentals /\ rental.at = start
    BY <2>1 DEF Rentals, Reasons
  <2>3. /\ provider \in {"runpod", "vast"} /\ machine \in {"none", "up"}
    BY <2>1 DEF Init, RentalInit
  <2>4. faults \in 0 .. MaxFaults
    BY GpuRentalAssumption DEF Init, RentalInit
  <2> QED  BY <2>2, <2>3, <2>4 DEF RentalTyping, Rentals
<1>2. LaptopTyping /\ RemoteTyping /\ SyncTyping
  BY DEF Init, RemoteInit, LaptopTyping, RemoteTyping, SyncTyping, Stations, Results,
         Sayings, NothingSaid, JobStates, Phases, Archived, NothingPacked
<1>5. DiskTyping
  <2>1. PICK repo \in BOOLEAN, package \in BOOLEAN :
          disk = [job |-> [l \in Launches |-> NoJob], env |-> Nobody, repo |-> repo, package |-> package]
    BY DEF Init, RemoteInit
  <2>2. NoJob \in [of : Owners, detach : BOOLEAN] /\ Nobody \in Owners
    BY DEF NoJob, Owners
  <2>3. ran \in [Launches -> [job : Owners, env : Owners]]
    BY <2>2 DEF Init, RemoteInit
  <2> QED  BY <2>1, <2>2, <2>3 DEF DiskTyping
<1>6. NoneOlder
  BY DEF Init, NoneOlder, NothingPacked
<1>3. Beside
  BY DEF Init, RemoteInit, Beside, Active, Over
<1>4. ASSUME NEW l \in Launches
      PROVE  Course(l) /\ Told(l) /\ Honest(l) /\ Placed(l) /\ Ours(l) /\ Shows(l)
  <2>1. /\ laptop[l].at = "off" /\ laptop[l].result = "none" /\ remote[l].at = "none"
        /\ remote[l].printed = <<>> /\ job[l].at = "none" /\ ~ job[l].known
        /\ ran[l].job = Nobody /\ doc[l] = "none" /\ copy[l] = "none" /\ l \notin syncing
    BY DEF Init, RemoteInit
  <2>2. Course(l) /\ Told(l) /\ Honest(l)
    BY <2>1 DEF Course, Told, Honest, Succeeds, Alive, NothingSaid, Trained, NotTrained, Error, Detached
  <2>3. Placed(l) /\ Ours(l)
    BY <2>1 DEF Placed, Ours, HasJob, HasEnv, HasRepo
  <2>4. Shows(l)
    <3>1. \A k \in Launches : archive[k][l] = "none"
      BY DEF Init, NothingPacked
    <3> QED  BY <2>1, <3>1 DEF Shows, Seen
  <2> QED  BY <2>2, <2>3, <2>4
<1> QED  BY <1>1, <1>2, <1>3, <1>4, <1>5, <1>6 DEF Inv, Typing

LEMMA ElsewhereInv ==
  ASSUME Inv, Elsewhere
  PROVE  Inv'
<1>1. Documents
  BY DEF Elsewhere, Documents
<1>2. CASE RentalNext /\ UNCHANGED remoteVars
  BY <1>1, <1>2, RentalStep
<1>3. CASE MachineEnds
  BY <1>1, <1>3, MachineEndsStep
<1>4. ASSUME NEW l \in Launches, LaunchStep(l)
      PROVE  Inv'
  <2>1. CASE Launch(l)
    BY <1>1, <2>1, LaunchStarts
  <2>2. CASE Connect(l)
    BY <1>1, <2>2, ConnectStep
  <2>3. CASE Stage(l)
    BY <1>1, <2>3, StageStep
  <2>4. CASE StageFails(l)
    BY <1>1, <2>4, StageFailsStep
  <2>5. CASE Run(l)
    BY <1>1, <2>5, RunStep
  <2>6. CASE JobPublishes(l) \/ JobTrains(l) \/ JobEnds(l)
    BY <1>1, <2>6, TrainingStep
  <2>7. CASE AttachedReports(l) \/ DetachedReports(l) \/ DetachTimesOut(l)
    BY <1>1, <2>7, ReportStep
  <2>8. CASE Returns(l)
    BY <1>1, <2>8, ReturnsStep
  <2>9. CASE Drops(l)
    BY <1>1, <2>9, DropsStep
  <2>10. CASE Interrupt(l)
    BY <1>1, <2>10, InterruptStep
  <2> QED  BY <1>4, <2>1, <2>2, <2>3, <2>4, <2>5, <2>6, <2>7, <2>8, <2>9, <2>10 DEF LaunchStep
<1> QED  BY <1>2, <1>3, <1>4 DEF Elsewhere, RemoteNext

LEMMA NextInv == Inv /\ [Next]_vars => Inv'
<1> SUFFICES ASSUME Inv, [Next]_vars PROVE Inv'
  OBVIOUS
<1>1. CASE Elsewhere
  BY <1>1, ElsewhereInv
<1>2. ASSUME NEW l \in Launches, SyncStep(l)
      PROVE  Inv'
  BY <1>2, SyncStepStays
<1>3. CASE UNCHANGED vars
  <2>1. Typing' /\ Beside' /\ NoneOlder'
    <3>1. UNCHANGED <<rentalVars, faults, remoteVars, syncing, doc, copy, round, archive>>
      BY <1>3 DEF vars
    <3>2. RentalTyping'
      BY <3>1 DEF Inv, Typing, RentalTyping, rentalVars
    <3>3. LaptopTyping' /\ Beside'
      BY <3>1 DEF Inv, Typing, LaptopTyping, Beside, Active, Over, remoteVars
    <3>4. DiskTyping' /\ RemoteTyping'
      BY <3>1 DEF Inv, Typing, DiskTyping, RemoteTyping, remoteVars
    <3>5. SyncTyping' /\ NoneOlder'
      BY <3>1 DEF Inv, Typing, SyncTyping, NoneOlder
    <3> QED  BY <3>2, <3>3, <3>4, <3>5 DEF Typing
  <2>2. ASSUME NEW k \in Launches
        PROVE  Own(k)' /\ Placed(k)' /\ Shows(k)'
    <3>1. Course(k) /\ Shows(k)
      BY DEF Inv
    <3>2. Own(k)'
      BY <1>3, <3>1, OwnStays DEF vars, remoteVars, rentalVars, Course
    <3>3. Placed(k)'
      BY <1>3, PlacedStays DEF vars, remoteVars, rentalVars
    <3>4. Shows(k)'
      BY <1>3, <3>1 DEF Shows, vars, remoteVars
    <3> QED  BY <3>2, <3>3, <3>4
  <2> QED  BY <2>1, <2>2 DEF Inv, Own
<1> QED  BY <1>1, <1>2, <1>3 DEF Next

LEMMA SpecInv == Spec => []Inv
BY InitInv, NextInv, PTL DEF Spec
-----------------------------------------------------------------------------

\* The laptop, the machine and the copy keep to their states: what a launch is
\* told, what lies on the disk, and what the copy shows are of the kinds that
\* the code reads.
THEOREM TypeCorrect == Spec => []TypeOK
<1>1. Inv => TypeOK
  BY DEF Inv, Typing, RentalTyping, LaptopTyping, DiskTyping, RemoteTyping, SyncTyping, Archived, TypeOK, Owners
<1> QED  BY <1>1, SpecInv, PTL

\* The handle that SshWorker.launch makes of the markers says what became of the
\* run, by whichever transport, however many launches use the machine and
\* whatever of them fails (gym/worker.py).
THEOREM HandleIsHonestCorrect == Spec => []HandleIsHonest
<1>1. Inv => HandleIsHonest
  BY DEF Inv, Honest, Succeeds, HandleIsHonest
<1> QED  BY <1>1, SpecInv, PTL

\* remote_job is started with the job file and the secrets of its own launch,
\* though launches share their names and a terminal hides a step that fails; an
\* older job only where both the removal and the writing of its file failed
\* (gym/worker.py).
THEOREM JobIsOursCorrect == Spec => []JobIsOurs
<1>1. Inv => JobIsOurs
  BY DEF Inv, Ours, JobIsOurs
<1> QED  BY <1>1, SpecInv, PTL

\* Whatever rounds of whatever runs fail, and however late an archive is unpacked,
\* the laptop never shows more of a run than the machine has written, and takes
\* back what it shows only for a record that could not be decoded, a file that
\* broke off, or the archive of another run's round
\* (gym/worker.py, telemetry/dashboard_sync.py).
THEOREM CopyNeverRegressesCorrect == Spec => CopyNeverRegresses
<1> DEFINE Kept(l) ==
      /\ copy'[l] \in Seen => Rank(copy'[l]) <= Rank(doc'[l])
      /\ Rank(copy'[l]) < Rank(copy[l]) =>
           \/ PullGarbled(l)
           \/ copy'[l] = "torn"
           \/ ~ syncing \subseteq {l} /\ \E k \in syncing : copy'[l] = archive[k][l]
<1>1. Inv /\ Inv' /\ [Next]_vars => [\A l \in Launches : Kept(l)]_vars
  <2> SUFFICES ASSUME Inv, Inv', Next, NEW l \in Launches
               PROVE  Kept(l)
    OBVIOUS
  <2>1. copy'[l] \in Seen => Rank(copy'[l]) <= Rank(doc'[l])
    BY DEF Inv, Shows
  <2>2. CASE Elsewhere
    <3>1. copy' = copy /\ Rank(copy[l]) \in 0 .. 6
      BY <2>2, Showing DEF Elsewhere, syncVars
    <3> QED  BY <2>1, <3>1
  <2>3. ASSUME NEW k \in Launches, SyncStep(k)
        PROVE  Kept(l)
    <3>1. Left(k, l) /\ doc' = doc
      BY <2>3, SyncRound
    <3>2. k \in syncing \/ ~ PullGarbled(k)
      BY DEF PullGarbled, Rounds
    <3> QED  BY <2>1, <3>1, <3>2, CopyKept
  <2> QED  BY <2>2, <2>3 DEF Next
<1> QED  BY <1>1, SpecInv, PTL DEF Spec, CopyNeverRegresses
=============================================================================
