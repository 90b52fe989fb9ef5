----------------------------- MODULE Preparation -----------------------------
(***************************************************************************)
(* What launches on one GPU host find, make and leave behind before they   *)
(* train: the prompt file (gym/dataset.py), the model's weights and their   *)
(* Megatron conversion (gym/model_prep.py).  All of them are kept for the   *)
(* next launch and taken as ready by a look at the directory.  Making one  *)
(* takes time in which the launch may fail or be killed, and a second       *)
(* launch may run beside the first.                                         *)
(***************************************************************************)
EXTENDS Naturals, FiniteSets

CONSTANTS
  Launches,   \* launches on this host
  Prompts,    \* what a configuration's rows may be, beyond what its cache key says
  MaxBreaks   \* bound: preparations that fail or are killed

ASSUME PreparationAssumption == MaxBreaks \in Nat /\ Prompts \subseteq Nat \ {0} /\ Prompts # {}

VARIABLES
  config,    \* each launch's dataset: its kind, and the rows it stands for
  store,     \* the files and directories on the host's disk
  launch,    \* each launch: where it is, and what it has made so far
  used,      \* what a launch's trainer read when it started
  breaks,    \* preparations broken off so far
  crossed    \* have two launches prepared at the same time?

vars == <<config, store, launch, used, breaks, crossed>>

\* HarborDataset with a name is "registry", without one it travels "inline".
Kinds == {"inline", "hub", "registry"}

\* materialize_inline names the file by its digest; each cache_key leaves out
\* some of what the rows depend on: the system prompt and the names of the
\* columns for one from the hub, the template, the test command and the files
\* to collect for one from the registry.
InlineName(c) == <<"inline", c.rows>>
HubKey == <<"hub">>
RegistryKey == <<"registry">>

PathOf(c) == CASE c.kind = "inline"   -> InlineName(c)
               [] c.kind = "hub"      -> HubKey
               [] c.kind = "registry" -> RegistryKey

Paths == {PathOf(c) : c \in [kind : Kinds, rows : Prompts]}
Dirs  == {<<"tasks">>, <<"weights">>, <<"ref">>}
Names == Paths \cup Dirs

\* "bare": there, but nothing in it yet that would be recognised.
States == {"absent", "bare", "part", "whole"}
Nobody == 0

Thing(state, rows) == [state |-> state, rows |-> rows]

Init ==
  /\ config \in [Launches -> [kind : Kinds, rows : Prompts]]
  /\ store = [n \in Names |-> Thing("absent", Nobody)]
  /\ launch = [l \in Launches |-> [at |-> "off", making |-> "nothing"]]
  /\ used = [l \in Launches |-> <<>>]
  /\ breaks = 0
  /\ crossed = FALSE

Path(l) == PathOf(config[l])

Goto(l, at, making) == launch' = [launch EXCEPT ![l] = [at |-> at, making |-> making]]
Put(n, state, rows) == store' = [store EXCEPT ![n] = Thing(state, rows)]

Over == {"off", "trained", "failed", "killed"}
Preparing(l) == launch[l].at \notin Over \cup {"training"}

Start(l) ==
  /\ launch[l].at = "off"
  /\ Goto(l, "dataset", "nothing")
  /\ crossed' = (crossed \/ \E k \in Launches \ {l} : launch[k].at \notin Over)
  /\ UNCHANGED <<config, store, used, breaks>>

-----------------------------------------------------------------------------
(* The dataset *)

\* Mutant: any file under the name is taken, whatever its digest.
VerifiedByName(l) == store[Path(l)].state \in {"part", "whole"}

\* materialize_inline reads the file it finds and compares digests.
Verified(l) == store[Path(l)] = Thing("whole", config[l].rows)

\* materialize_dataset takes a file that is not empty.
Cached(l) == store[Path(l)].state \in {"part", "whole"}

FindDataset(l) ==
  /\ launch[l].at = "dataset"
  /\ LET there == IF config[l].kind = "inline" THEN Verified(l) ELSE Cached(l) IN
       Goto(l, IF there THEN "weights" ELSE "open", "nothing")
  /\ UNCHANGED <<config, store, used, breaks, crossed>>

\* Opening the file empties it; only then does the generator of the rows run,
\* which may have tasks to download.
OpenDataset(l) ==
  /\ launch[l].at = "open"
  /\ Put(Path(l), "bare", config[l].rows)
  /\ Goto(l, IF config[l].kind = "registry" THEN "tasks" ELSE "rows", "nothing")
  /\ UNCHANGED <<config, used, breaks, crossed>>

\* _resolve_task_root looks for one instruction file anywhere in the cache.
FindTasks(l) ==
  /\ launch[l].at = "tasks"
  /\ Goto(l, IF store[<<"tasks">>].state \in {"part", "whole"} THEN "rows" ELSE "fetch", "nothing")
  /\ UNCHANGED <<config, store, used, breaks, crossed>>

\* Two moves each: some of it is there, then all of it.
Fetch(l) ==
  /\ launch[l].at = "fetch"
  /\ \/ /\ launch[l].making = "nothing"
        /\ \E some \in {"bare", "part"} : Put(<<"tasks">>, some, Nobody)
        /\ Goto(l, "fetch", "tasks")
     \/ /\ launch[l].making = "tasks"
        /\ Put(<<"tasks">>, "whole", Nobody)
        /\ Goto(l, "rows", "nothing")
  /\ UNCHANGED <<config, used, breaks, crossed>>

\* Rows of tasks that are not all there make a file that looks complete.
RowsMade(l) ==
  IF config[l].kind = "registry" /\ store[<<"tasks">>].state # "whole" THEN "part" ELSE "whole"

WriteRows(l) ==
  /\ launch[l].at = "rows"
  /\ \/ /\ launch[l].making = "nothing"
        /\ Put(Path(l), "part", config[l].rows)
        /\ Goto(l, "rows", "rows")
     \/ /\ launch[l].making = "rows"
        /\ Put(Path(l), RowsMade(l), config[l].rows)
        /\ Goto(l, "weights", "nothing")
  /\ UNCHANGED <<config, used, breaks, crossed>>

-----------------------------------------------------------------------------
(* The model *)

\* Mutant: always download.
LooksLikeNothing == FALSE

\* A config.json or one file of weights will do.
LooksLikeHfCheckpoint == store[<<"weights">>].state \in {"part", "whole"}

\* A directory with anything in it will do.
LooksLikeTorchDist == store[<<"ref">>].state \in {"part", "whole"}

FindWeights(l) ==
  /\ launch[l].at = "weights"
  /\ Goto(l, IF LooksLikeHfCheckpoint THEN "ref" ELSE "download", "nothing")
  /\ UNCHANGED <<config, store, used, breaks, crossed>>

\* The download adds to what there is.
DownloadHf(l) ==
  /\ launch[l].at = "download"
  /\ \/ /\ launch[l].making = "nothing"
        /\ \E some \in {"bare", "part"} : Put(<<"weights">>, some, Nobody)
        /\ Goto(l, "download", "weights")
     \/ /\ launch[l].making = "weights"
        /\ Put(<<"weights">>, "whole", Nobody)
        /\ Goto(l, "ref", "nothing")
  /\ UNCHANGED <<config, used, breaks, crossed>>

FindRef(l) ==
  /\ launch[l].at = "ref"
  /\ Goto(l, IF LooksLikeTorchDist THEN "validate" ELSE "convert", "nothing")
  /\ UNCHANGED <<config, store, used, breaks, crossed>>

\* Mutant: the launch does not wait for the tool to end.
ConvertTorchDistUnwaited(l) ==
  /\ launch[l].at = "convert"
  /\ Put(<<"ref">>, "part", Nobody)
  /\ Goto(l, "validate", "nothing")
  /\ UNCHANGED <<config, used, breaks, crossed>>

\* rmtree first; then the tool writes the directory.
ConvertTorchDist(l) ==
  /\ launch[l].at = "convert"
  /\ \/ /\ launch[l].making = "nothing"
        /\ Put(<<"ref">>, "absent", Nobody)
        /\ Goto(l, "convert", "clear")
     \/ /\ launch[l].making = "clear"
        /\ \E some \in {"bare", "part"} : Put(<<"ref">>, some, Nobody)
        /\ Goto(l, "convert", "ref")
     \/ /\ launch[l].making = "ref"
        /\ Put(<<"ref">>, IF store[<<"weights">>].state = "whole" THEN "whole" ELSE "part", Nobody)
        /\ Goto(l, "validate", "nothing")
  /\ UNCHANGED <<config, used, breaks, crossed>>

-----------------------------------------------------------------------------
(* Training *)

\* TrainConfig.validate: do the paths exist?
Validate(l) ==
  /\ launch[l].at = "validate"
  /\ Goto(l, IF \A n \in {Path(l), <<"weights">>, <<"ref">>} : store[n].state # "absent"
             THEN "reset" ELSE "failed", "nothing")
  /\ UNCHANGED <<config, store, used, breaks, crossed>>

\* _reset_ray kills whatever trains on this host; the job's exit makes that
\* launch a failed one.
ResetRay(l) ==
  /\ launch[l].at = "reset"
  /\ launch' = [k \in Launches |->
                  IF k = l THEN [at |-> "training", making |-> "nothing"]
                  ELSE IF launch[k].at = "training" THEN [at |-> "failed", making |-> "nothing"]
                  ELSE launch[k]]
  /\ used' = [used EXCEPT ![l] = <<store[Path(l)], store[<<"weights">>].state, store[<<"ref">>].state>>]
  /\ UNCHANGED <<config, store, breaks, crossed>>

JobEnds(l) ==
  /\ launch[l].at = "training"
  /\ Goto(l, "trained", "nothing")
  /\ UNCHANGED <<config, store, used, breaks, crossed>>

\* A tool that exits with an error, a row that cannot be formatted, a kill:
\* what was made so far stays.
BreaksOff(l) ==
  /\ Preparing(l)
  /\ breaks < MaxBreaks
  /\ breaks' = breaks + 1
  /\ \E how \in {"failed", "killed"} : Goto(l, how, "nothing")
  /\ UNCHANGED <<config, store, used, crossed>>

Step(l) ==
  \/ FindDataset(l) \/ OpenDataset(l) \/ FindTasks(l) \/ Fetch(l) \/ WriteRows(l)
  \/ FindWeights(l) \/ DownloadHf(l) \/ FindRef(l) \/ ConvertTorchDist(l)
  \/ Validate(l) \/ ResetRay(l) \/ JobEnds(l)

Next == \E l \in Launches : Start(l) \/ Step(l) \/ BreaksOff(l)

Spec == Init /\ [][Next]_vars

-----------------------------------------------------------------------------

Trains(l) == used[l] # <<>>
Complete(l) == used[l][1].state = "whole" /\ used[l][2] = "whole" /\ used[l][3] = "whole"

\* A launch trains on a whole dataset, whole weights and a whole conversion,
\* unless an earlier preparation was broken off or two crossed: every file is
\* complete before the step that would recognise it (gym/model_prep.py:68).
TrainsOnWhole == \A l \in Launches : Trains(l) /\ breaks = 0 /\ ~ crossed => Complete(l)

\* A dataset that travels with the job is trained on as it was sent, whatever
\* was broken off before and whatever else is in runs/data: it is read back
\* and compared before it is used again (gym/dataset.py:617).  Only a launch
\* beside it may empty the file just then.
InlineIsExact ==
  \A l \in Launches :
    Trains(l) /\ config[l].kind = "inline" /\ ~ crossed => used[l][1] = Thing("whole", config[l].rows)

\* What is whole stays whole: no launch clears or overwrites it
\* (gym/model_prep.py:74, gym/dataset.py:543), if they come one after another.
WholeIsKept ==
  [][\A n \in Names : store[n].state = "whole" /\ ~ crossed => store'[n] = store[n]]_vars

\* What a launch trains on is what its configuration describes, when launches
\* come one after another and none was broken off.
TrainsOnItsConfig ==
  \A l \in Launches :
    Trains(l) /\ breaks = 0 /\ ~ crossed => Complete(l) /\ used[l][1].rows = config[l].rows
=============================================================================
