----------------------------- MODULE LaptopSync -----------------------------
(***************************************************************************)
(* The copy of a detached run's progress that the laptop shows              *)
(* (gym/worker.py _start_laptop_dash_for_run, telemetry/dashboard_sync.py):  *)
(* every three seconds the progress and the end of the log are pulled        *)
(* through a terminal; if that fails the whole of runs/ is packed, in one of  *)
(* three ways, and unpacked over what the laptop has; if that fails too, the  *)
(* copy says so, unless it has better to say.  The launches are made in one    *)
(* directory and share its runs/.  With an ingest host there is no copy.       *)
(***************************************************************************)
EXTENDS RemoteWorker

VARIABLES
  syncing,  \* the launches whose copy is kept up to date, each by a thread of its own
  doc,      \* each run's progress as it stands on the machine
  copy,     \* and as the laptop has it
  round,    \* how far the round of a launch's thread is
  archive   \* what that round has packed of all runs, and not yet unpacked

vars == <<rentalVars, faults, remoteVars, syncing, doc, copy, round, archive>>

Phases == {"none", "torn", "waiting", "syncing", "boot", "training", "end"}

NothingPacked == [l \in Launches |-> "none"]

Init ==
  /\ RentalInit
  /\ RemoteInit
  /\ syncing = {}
  /\ doc = [l \in Launches |-> "none"]
  /\ copy = [l \in Launches |-> "none"]
  /\ round = [l \in Launches |-> "off"]
  /\ archive = [l \in Launches |-> NothingPacked]

syncVars == <<syncing, copy, round, archive>>

\* What a step of the run writes: its first progress comes with its run id, a
\* run that is killed writes nothing more.
Written(l) ==
  CASE job'[l].at = "published" -> "boot"
    [] job'[l].at = "training" -> "training"
    [] job'[l].at \in {"trained", "failed"} -> IF job[l].known THEN "end" ELSE "none"
    [] OTHER -> doc[l]

Elsewhere ==
  /\ RemoteNext
  /\ doc' = [l \in Launches |-> Written(l)]
  /\ UNCHANGED syncVars

\* The handle of a detached run comes with the copy, but not after Ctrl+C.  The
\* thread is started once.  A copy that another launch's archive has brought is
\* left as it is.
StartSync(l) ==
  /\ laptop[l].result = "running" /\ "interrupt" \notin excuse[l]
  /\ round[l] = "off"
  /\ syncing' = syncing \cup {l}
  /\ round' = [round EXCEPT ![l] = "live"]
  /\ copy' = [copy EXCEPT ![l] = IF @ \in {"none", "torn"} THEN "waiting" ELSE @]
  /\ UNCHANGED <<rentalVars, faults, remoteVars, doc, archive>>

Goes(l, at) == round' = [round EXCEPT ![l] = at]
Rounds(l, at) == l \in syncing /\ round[l] = at

\* Pulled, decoded and written with the log's lines.
PullLive(l) ==
  /\ Rounds(l, "live") /\ machine = "up"
  /\ doc[l] # "none"
  /\ copy' = [copy EXCEPT ![l] = doc[l]]
  /\ UNCHANGED <<rentalVars, faults, remoteVars, syncing, doc, round, archive>>

\* The progress cannot be decoded.  The lines of the log, which only a terminal
\* launch names, make a record of a run that boots.
PullGarbled(l) ==
  /\ Rounds(l, "live") /\ machine = "up" /\ Fault
  /\ copy' = [copy EXCEPT ![l] = IF Shell THEN "boot" ELSE @]
  /\ UNCHANGED <<rentalVars, remoteVars, syncing, doc, round, archive>>

\* The pull fails, and all of runs/ is to be had instead.
LiveFails(l) ==
  /\ Rounds(l, "live")
  /\ IF machine = "up" THEN Fault ELSE UNCHANGED faults
  /\ Goes(l, "all")
  /\ UNCHANGED <<rentalVars, remoteVars, syncing, doc, copy, archive>>

\* Every run's progress, as it is now; or nothing, which by the first of the
\* three ways is as good.
Archives == {doc, NothingPacked}

\* One way after another.
PackAll(l) ==
  /\ machine = "up"
  /\ \/ Rounds(l, "all") /\ UNCHANGED faults
     \/ Rounds(l, "failed") /\ Fault
  /\ \E packed \in Archives : archive' = [archive EXCEPT ![l] = packed]
  /\ Goes(l, "packed")
  /\ UNCHANGED <<rentalVars, remoteVars, syncing, doc, copy>>

\* The runs of a directory are written one after another, over what is there.
Unpacked(l, runs) ==
  [k \in Launches |-> IF k \in runs /\ archive[l][k] # "none" THEN archive[l][k] ELSE copy[k]]

\* Minutes may have passed since it was packed.
UnpackAll(l) ==
  /\ Rounds(l, "packed")
  /\ copy' = Unpacked(l, Launches)
  /\ archive' = [archive EXCEPT ![l] = NothingPacked]
  /\ Goes(l, "live")
  /\ UNCHANGED <<rentalVars, faults, remoteVars, syncing, doc>>

\* It breaks off while a file is written.
BreaksOff(l) ==
  /\ Rounds(l, "packed")
  /\ \E k \in Launches : \E before \in SUBSET (Launches \ {k}) :
       /\ archive[l][k] # "none"
       /\ copy' = [Unpacked(l, before) EXCEPT ![k] = "torn"]
  /\ archive' = [archive EXCEPT ![l] = NothingPacked]
  /\ Goes(l, "failed")
  /\ UNCHANGED <<rentalVars, faults, remoteVars, syncing, doc>>

\* Mutant: the failure is written over whatever the copy holds.
AnnouncedAlways(l) == [copy EXCEPT ![l] = "syncing"]

\* A failure is told to whoever has seen nothing of the run yet, or has a copy
\* that cannot be read.
Announced(l) ==
  [copy EXCEPT ![l] = IF @ \in {"none", "torn", "waiting", "syncing"} THEN "syncing" ELSE @]

\* Mutant: the thread ends with the first round that fails.
LastRound(l) == syncing' = syncing \ {l}

\* The thread goes on to the next round.
NextRound(l) == UNCHANGED syncing

PullFails(l) ==
  /\ Rounds(l, "all") \/ Rounds(l, "failed")
  /\ copy' = Announced(l)
  /\ NextRound(l)
  /\ Goes(l, "live")
  /\ UNCHANGED <<rentalVars, faults, remoteVars, doc, archive>>

SyncStep(l) ==
  \/ StartSync(l) \/ PullLive(l) \/ PullGarbled(l) \/ LiveFails(l)
  \/ PackAll(l) \/ UnpackAll(l) \/ BreaksOff(l) \/ PullFails(l)

Next == Elsewhere \/ \E l \in Launches : SyncStep(l)

\* The thread runs as long as the laptop's process does, and no way of pulling
\* keeps it for ever.
SyncFairness ==
  \A l \in Launches :
    WF_vars(StartSync(l)) /\ WF_vars(PullLive(l)) /\ WF_vars(UnpackAll(l) \/ PullFails(l))

Spec == Init /\ [][Next]_vars /\ SyncFairness

-----------------------------------------------------------------------------

TypeOK ==
  /\ provider \in {"runpod", "vast"} /\ machine \in {"none", "starting", "up", "gone"}
  /\ faults \in 0..MaxFaults /\ oneProcess \in BOOLEAN
  /\ \A l \in Launches :
       /\ laptop[l].result \in Results
       /\ job[l].known \in BOOLEAN
       /\ disk.job[l].of \in Launches \cup {Nobody}
       /\ doc[l] \in Phases /\ copy[l] \in Phases
       /\ round[l] \in {"off", "live", "all", "packed", "failed"}
       /\ \A k \in Launches : archive[k][l] \in Phases
  /\ syncing \subseteq Launches

Rank(p) ==
  CASE p = "torn" -> 0 [] p = "none" -> 1 [] p = "waiting" -> 2 [] p = "syncing" -> 3
    [] p = "boot" -> 4 [] p = "training" -> 5 [] p = "end" -> 6

Seen == {"boot", "training", "end"}

\* What the laptop shows of a run never runs ahead of the machine, and goes back
\* for three reasons only: a record that could not be decoded, a file whose
\* writing broke off, and the older archive of runs/ that another run's round
\* unpacks over it.  A round that fails never takes back what is shown, and a
\* run that alone is followed is not taken back by its own rounds' archives
\* (gym/worker.py:313, telemetry/dashboard_sync.py:439).
CopyNeverRegresses ==
  [][\A l \in Launches :
       /\ copy'[l] \in Seen => Rank(copy'[l]) <= Rank(doc'[l])
       /\ Rank(copy'[l]) < Rank(copy[l]) =>
            \/ PullGarbled(l)
            \/ copy'[l] = "torn"
            \/ ~ syncing \subseteq {l} /\ \E k \in syncing : copy'[l] = archive[k][l]]_vars

\* The end of a run that the laptop follows is shown there, unless the machine
\* ends first: a round that fails is followed by another
\* (gym/worker.py:327).
EndReachesLaptop ==
  \A l \in Launches :
    (l \in syncing /\ doc[l] = "end") ~> (copy[l] = "end" \/ machine # "up")
=============================================================================
