-------------------------- MODULE PreparationProofs --------------------------
(***************************************************************************)
(* What a launch trains on is whole, an inline dataset is exact, and what  *)
(* is whole is kept: TrainsOnWhole, InlineIsExact and WholeIsKept of       *)
(* Preparation, for any number of launches and any datasets.               *)
(***************************************************************************)
EXTENDS Preparation, Sequences, TLAPS

Stations ==
    Over \cup {"dataset", "open", "tasks", "fetch", "rows", "weights", "download", "ref",
               "convert", "validate", "reset", "training"}

Making == {"nothing", "tasks", "rows", "weights", "clear", "ref"}

Configs == [kind : Kinds, rows : Prompts]
Things == [state : States, rows : Prompts \cup {Nobody}]

\* The types of the host's disk and of its launches.
Typing ==
    /\ config \in [Launches -> Configs]
    /\ store \in [Names -> Things]
    /\ launch \in [Launches -> [at : Stations, making : Making]]
    /\ used = [l \in Launches |-> used[l]]
    /\ \A l \in Launches :
          Trains(l) => \E data \in Things, weights, ref \in States : used[l] = <<data, weights, ref>>
    /\ breaks \in 0 .. MaxBreaks
    /\ crossed \in BOOLEAN

Active(l) == launch[l].at \notin Over

\* Launches that did not cross come one after another.
OneAtATime == \A k, l \in Launches : Active(k) /\ Active(l) => k = l

\* A file under the name of a digest holds these rows, or some of them.
InlineNamed ==
    \A c \in Configs : c.kind = "inline" /\ store[PathOf(c)].state # "absent"
                          => store[PathOf(c)].rows = c.rows

\* The stations after the dataset's.
HasDataset == {"weights", "download", "ref", "convert", "validate", "reset"}

\* What a launch makes was not whole, and an inline dataset that it has passed
\* is the one it was sent.
Local(l) ==
    /\ launch[l].at \in {"open", "tasks", "fetch", "rows"} => store[Path(l)].state # "whole"
    /\ launch[l].at = "fetch" => store[<<"tasks">>].state # "whole"
    /\ launch[l].at = "download" => store[<<"weights">>].state # "whole"
    /\ launch[l].at = "convert" => store[<<"ref">>].state # "whole"
    /\ launch[l].at \in HasDataset /\ config[l].kind = "inline"
          => store[Path(l)] = Thing("whole", config[l].rows)

\* What a launch may have made in part.
Makes(l, n) ==
    \/ n = Path(l) /\ launch[l].at \in {"tasks", "fetch", "rows"}
    \/ n = <<"tasks">> /\ launch[l].at = "fetch"
    \/ n = <<"weights">> /\ launch[l].at = "download"
    \/ n = <<"ref">> /\ launch[l].at = "convert"

\* Without a preparation that was broken off, nothing in part is left behind,
\* and a launch has passed a station only with what it needs.
Leftovers ==
    \A n \in Names : store[n].state \in {"bare", "part"} => \E l \in Launches : Makes(l, n)

Ready(l) ==
    /\ launch[l].at \in HasDataset => store[Path(l)].state = "whole"
    /\ launch[l].at = "rows" /\ config[l].kind = "registry" => store[<<"tasks">>].state = "whole"
    /\ launch[l].at \in {"ref", "convert", "validate", "reset"}
          => store[<<"weights">>].state = "whole"
    /\ launch[l].at \in {"validate", "reset"} => store[<<"ref">>].state = "whole"

Unbroken ==
    /\ Leftovers
    /\ \A l \in Launches : Ready(l) /\ (Trains(l) => Complete(l))

ExactTraining ==
    \A l \in Launches :
        Trains(l) /\ config[l].kind = "inline" => used[l][1] = Thing("whole", config[l].rows)

Uncrossed ==
    /\ OneAtATime /\ ExactTraining
    /\ \A l \in Launches : Local(l)
    /\ breaks = 0 => Unbroken

Inv == Typing /\ InlineNamed /\ (~ crossed => Uncrossed)

-----------------------------------------------------------------------------
(* Names on the host's disk *)

LEMMA DirsApart ==
    /\ <<"tasks">> \in Names /\ <<"weights">> \in Names /\ <<"ref">> \in Names
    /\ <<"tasks">> # <<"weights">> /\ <<"tasks">> # <<"ref">> /\ <<"weights">> # <<"ref">>
BY DEF Names, Dirs

\* The file of a dataset is none of the directories, and the file of an inline
\* one is that of its rows alone.
LEMMA PathsApart ==
    ASSUME NEW c \in Configs
    PROVE  /\ PathOf(c) \in Names
           /\ PathOf(c) # <<"tasks">> /\ PathOf(c) # <<"weights">> /\ PathOf(c) # <<"ref">>
           /\ \A d \in Configs :
                 c.kind = "inline" /\ PathOf(c) = PathOf(d) => c.rows = d.rows
<1>1. PathOf(c) \in Names
  BY DEF Names, Paths, Configs
<1>2. \A d \in Configs :
         \/ d.kind = "inline" /\ PathOf(d) = <<"inline", d.rows>>
         \/ d.kind = "hub" /\ PathOf(d) = <<"hub">>
         \/ d.kind = "registry" /\ PathOf(d) = <<"registry">>
  BY DEF Configs, Kinds, PathOf, InlineName, HubKey, RegistryKey
<1>3. \A r : /\ Len(<<"inline", r>>) = 2 /\ <<"inline", r>>[2] = r
  OBVIOUS
<1>4. \A s \in {"hub", "registry", "tasks", "weights", "ref"} : Len(<<s>>) = 1
  OBVIOUS
<1>5. PathOf(c) # <<"tasks">> /\ PathOf(c) # <<"weights">> /\ PathOf(c) # <<"ref">>
  BY <1>2, <1>3, <1>4
<1>6. ASSUME NEW d \in Configs, c.kind = "inline", PathOf(c) = PathOf(d)
      PROVE  c.rows = d.rows
  <2>1. PathOf(c) = <<"inline", c.rows>>
    BY <1>2, <1>6
  <2>2. PathOf(c) # <<"hub">> /\ PathOf(c) # <<"registry">>
    BY <1>3, <1>4, <2>1
  <2>3. PathOf(d) = <<"inline", d.rows>>
    BY <1>2, <1>6, <2>2
  <2> QED  BY <1>3, <1>6, <2>1, <2>3
<1> QED  BY <1>1, <1>5, <1>6

-----------------------------------------------------------------------------
(* How a launch moves *)

LEMMA GotoMoves ==
    ASSUME Typing, NEW l \in Launches, NEW at \in Stations, NEW making \in Making,
           Goto(l, at, making)
    PROVE  /\ launch' \in [Launches -> [at : Stations, making : Making]]
           /\ launch'[l].at = at /\ launch'[l].making = making
           /\ \A k \in Launches \ {l} : launch'[k] = launch[k]
BY DEF Goto, Typing

LEMMA PutChanges ==
    ASSUME Typing, NEW n \in Names, NEW state \in States, NEW rows \in Prompts \cup {Nobody},
           Put(n, state, rows)
    PROVE  /\ store' \in [Names -> Things]
           /\ store'[n].state = state /\ store'[n].rows = rows
           /\ store'[n] = Thing(state, rows)
           /\ \A m \in Names \ {n} : store'[m] = store[m]
<1>1. Thing(state, rows) \in Things
  BY DEF Thing, Things
<1> QED  BY <1>1 DEF Put, Typing, Thing, Things

\* What holds of a launch that is alone, and of the disk it finds.
Whole(l) ==
    /\ Ready(l)
    /\ \A n \in Names : store[n].state \in {"bare", "part"} => Makes(l, n)

Alone(l) == Local(l) /\ (breaks = 0 => Whole(l))

LEMMA AloneHolds ==
    ASSUME Inv, ~ crossed, NEW l \in Launches, Active(l)
    PROVE  Alone(l)
<1>1. Local(l)
  BY DEF Inv, Uncrossed
<1>2. ASSUME breaks = 0  PROVE Whole(l)
  <2>1. Ready(l) /\ Leftovers
    BY <1>2 DEF Inv, Uncrossed, Unbroken
  <2>2. ASSUME NEW n \in Names, NEW k \in Launches, Makes(k, n)  PROVE k = l
    BY <2>2 DEF Makes, Inv, Uncrossed, OneAtATime, Active, Over
  <2> QED  BY <2>1, <2>2 DEF Leftovers, Whole
<1> QED  BY <1>1, <1>2 DEF Alone

\* A move of a launch that keeps what holds of it alone keeps the invariant.
LEMMA MoveKeeps ==
    ASSUME Inv, NEW l \in Launches, Active(l),
           launch' \in [Launches -> [at : Stations, making : Making]],
           \A k \in Launches \ {l} : launch'[k] = launch[k],
           store' \in [Names -> Things], InlineNamed',
           UNCHANGED <<config, used, breaks, crossed>>,
           ~ crossed => Alone(l)'
    PROVE  Inv'
<1>1. Typing'
  BY DEF Inv, Typing, Trains
<1>2. ASSUME ~ crossed  PROVE Uncrossed'
  <2>1. \A k \in Launches \ {l} : launch'[k].at \in Over /\ ~ Active(k)'
    BY <1>2 DEF Inv, Uncrossed, OneAtATime, Active
  <2>2. OneAtATime'
    BY <2>1 DEF OneAtATime
  <2>3. ExactTraining'
    BY <1>2 DEF Inv, Uncrossed, ExactTraining, Trains
  <2>4. ASSUME NEW k \in Launches  PROVE Local(k)'
    <3>1. CASE k = l
      BY <1>2, <3>1 DEF Alone
    <3>2. CASE k # l
      BY <2>1, <3>2 DEF Local, Over, HasDataset
    <3> QED  BY <3>1, <3>2
  <2>5. ASSUME breaks = 0  PROVE Unbroken'
    <3>1. Whole(l)'
      BY <1>2, <2>5 DEF Alone
    <3>2. Leftovers'
      BY <3>1 DEF Whole, Leftovers
    <3>3. ASSUME NEW k \in Launches  PROVE Ready(k)'
      <4>1. CASE k = l
        BY <3>1, <4>1 DEF Whole
      <4>2. CASE k # l
        BY <2>1, <4>2 DEF Ready, Over, HasDataset
      <4> QED  BY <4>1, <4>2
    <3>4. \A k \in Launches : Trains(k)' => Complete(k)'
      BY <1>2, <2>5 DEF Inv, Uncrossed, Unbroken, Trains, Complete
    <3> QED  BY <3>2, <3>3, <3>4 DEF Unbroken
  <2> QED  BY <2>2, <2>3, <2>4, <2>5 DEF Uncrossed
<1> QED  BY <1>1, <1>2 DEF Inv

\* The launch goes on and leaves the disk as it is.
LEMMA GoKeeps ==
    ASSUME Inv, NEW l \in Launches, Active(l), NEW at \in Stations,
           Goto(l, at, "nothing"), UNCHANGED <<config, store, used, breaks, crossed>>,
           ~ crossed /\ Alone(l) => Alone(l)'
    PROVE  Inv'
<1>1. "nothing" \in Making /\ Typing
  BY DEF Making, Inv
<1>2. /\ launch' \in [Launches -> [at : Stations, making : Making]]
      /\ \A k \in Launches \ {l} : launch'[k] = launch[k]
  BY <1>1, GotoMoves
<1>3. store' \in [Names -> Things] /\ InlineNamed'
  BY DEF Inv, Typing, InlineNamed
<1> QED  BY <1>2, <1>3, AloneHolds, MoveKeeps

\* The launch makes something: its own dataset, or one of the directories.
LEMMA MakeKeeps ==
    ASSUME Inv, NEW l \in Launches, Active(l), NEW at \in Stations, NEW making \in Making,
           Goto(l, at, making), NEW n \in Names, NEW state \in States,
           NEW rows \in Prompts \cup {Nobody}, Put(n, state, rows),
           \/ n = Path(l) /\ rows = config[l].rows
           \/ n \in {<<"tasks">>, <<"weights">>, <<"ref">>},
           UNCHANGED <<config, used, breaks, crossed>>,
           ~ crossed /\ Alone(l) => Alone(l)'
    PROVE  Inv'
<1>1. /\ launch' \in [Launches -> [at : Stations, making : Making]]
      /\ \A k \in Launches \ {l} : launch'[k] = launch[k]
  BY GotoMoves DEF Inv
<1>2. /\ store' \in [Names -> Things] /\ store'[n].rows = rows
      /\ \A m \in Names \ {n} : store'[m] = store[m]
  BY PutChanges DEF Inv
<1>3. InlineNamed'
  <2> SUFFICES ASSUME NEW c \in Configs, c.kind = "inline", store'[PathOf(c)].state # "absent"
               PROVE  store'[PathOf(c)].rows = c.rows
    BY DEF InlineNamed
  <2>1. CASE PathOf(c) # n
    BY <1>2, <2>1, PathsApart DEF Inv, InlineNamed
  <2>2. CASE PathOf(c) = n
    <3>1. n = Path(l) /\ rows = config[l].rows /\ config[l] \in Configs
      BY <2>2, PathsApart DEF Inv, Typing
    <3>2. c.rows = config[l].rows
      BY <2>2, <3>1, PathsApart DEF Path
    <3> QED  BY <1>2, <2>2, <3>1, <3>2
  <2> QED  BY <2>1, <2>2
<1> QED  BY <1>1, <1>2, <1>3, AloneHolds, MoveKeeps

-----------------------------------------------------------------------------
(* The dataset *)

LEMMA FindDatasetKeeps ==
    ASSUME Inv, NEW l \in Launches, FindDataset(l)
    PROVE  Inv'
<1>1. /\ launch[l].at = "dataset" /\ config[l] \in Configs /\ Path(l) \in Names
      /\ store[Path(l)] \in Things
      /\ UNCHANGED <<config, store, used, breaks, crossed>>
  BY PathsApart DEF FindDataset, Inv, Typing, Path
<1>2. PICK at \in {"weights", "open"} :
         /\ Goto(l, at, "nothing")
         /\ at = "weights" <=> IF config[l].kind = "inline" THEN Verified(l) ELSE Cached(l)
  BY <1>1 DEF FindDataset
<1>3. launch'[l].at = at
  BY <1>2, GotoMoves DEF Stations, Making, Inv
<1>4. store[Path(l)].state = "whole" /\ config[l].kind = "inline" => Verified(l)
  BY <1>1 DEF Inv, InlineNamed, Path, Verified, Thing, Things
<1>5. Local(l)'
  BY <1>1, <1>2, <1>3, <1>4 DEF Local, Path, Verified, Cached, HasDataset
<1>6. ASSUME breaks = 0, Alone(l)  PROVE Whole(l)'
  <2>1. \A n \in Names : store[n].state \notin {"bare", "part"}
    BY <1>1, <1>6 DEF Alone, Whole, Makes
  <2>2. at = "weights" => store[Path(l)].state = "whole"
    BY <1>1, <1>2, <2>1 DEF Verified, Cached, Thing
  <2> QED  BY <1>1, <1>2, <1>3, <2>1, <2>2 DEF Whole, Ready, HasDataset, Path
<1>7. Active(l) /\ at \in Stations
  BY <1>1 DEF Active, Over, Stations
<1> QED  BY <1>1, <1>2, <1>5, <1>6, <1>7, GoKeeps DEF Alone

LEMMA OpenDatasetKeeps ==
    ASSUME Inv, NEW l \in Launches, OpenDataset(l)
    PROVE  Inv'
<1>1. /\ launch[l].at = "open" /\ config[l] \in Configs /\ Path(l) \in Names
      /\ config[l].rows \in Prompts /\ Put(Path(l), "bare", config[l].rows)
      /\ UNCHANGED <<config, used, breaks, crossed>> /\ "bare" \in States
  BY PathsApart DEF OpenDataset, Inv, Typing, Path, Configs, States
<1>2. PICK at \in {"tasks", "rows"} :
         /\ Goto(l, at, "nothing")
         /\ at = "tasks" <=> config[l].kind = "registry"
  BY DEF OpenDataset
<1>3. Active(l) /\ at \in Stations /\ "nothing" \in Making
  BY <1>1 DEF Active, Over, Stations, Making
<1>4. launch'[l].at = at
  BY <1>2, <1>3, GotoMoves DEF Inv
<1>5. store'[Path(l)].state = "bare" /\ \A m \in Names \ {Path(l)} : store'[m] = store[m]
  BY <1>1, PutChanges DEF Inv
<1>6. Path(l)' = Path(l)
  BY <1>1 DEF Path
<1>7. Local(l)'
  BY <1>2, <1>4, <1>5, <1>6 DEF Local, HasDataset
<1>8. ASSUME breaks = 0, Alone(l)  PROVE Whole(l)'
  BY <1>1, <1>2, <1>4, <1>5, <1>6, <1>8 DEF Alone, Whole, Ready, Makes, HasDataset
<1> QED  BY <1>1, <1>2, <1>3, <1>7, <1>8, MakeKeeps DEF Alone

LEMMA FindTasksKeeps ==
    ASSUME Inv, NEW l \in Launches, FindTasks(l)
    PROVE  Inv'
<1>1. /\ launch[l].at = "tasks" /\ <<"tasks">> \in Names /\ store[<<"tasks">>] \in Things
      /\ UNCHANGED <<config, store, used, breaks, crossed>> /\ Path(l)' = Path(l)
      /\ Path(l) # <<"tasks">>
  BY DirsApart, PathsApart DEF FindTasks, Inv, Typing, Path
<1>2. PICK at \in {"rows", "fetch"} :
         /\ Goto(l, at, "nothing")
         /\ at = "rows" <=> store[<<"tasks">>].state \in {"part", "whole"}
  BY DEF FindTasks
<1>3. Active(l) /\ at \in Stations /\ "nothing" \in Making
  BY <1>1 DEF Active, Over, Stations, Making
<1>4. launch'[l].at = at
  BY <1>2, <1>3, GotoMoves DEF Inv
<1>5. Local(l) => Local(l)'
  BY <1>1, <1>2, <1>4 DEF Local, HasDataset
<1>6. ASSUME breaks = 0, Alone(l)  PROVE Whole(l)'
  BY <1>1, <1>2, <1>4, <1>6 DEF Alone, Whole, Ready, Makes, HasDataset
<1> QED  BY <1>1, <1>2, <1>3, <1>5, <1>6, GoKeeps DEF Alone

LEMMA FetchKeeps ==
    ASSUME Inv, NEW l \in Launches, Fetch(l)
    PROVE  Inv'
<1>1. /\ launch[l].at = "fetch" /\ <<"tasks">> \in Names
      /\ UNCHANGED <<config, used, breaks, crossed>> /\ Path(l)' = Path(l)
      /\ Path(l) \in Names \ {<<"tasks">>}
  BY DirsApart, PathsApart DEF Fetch, Inv, Typing, Path
<1>2. PICK state \in {"bare", "part", "whole"}, at \in {"fetch", "rows"},
           making \in {"tasks", "nothing"} :
         /\ Put(<<"tasks">>, state, Nobody) /\ Goto(l, at, making)
         /\ at = "rows" <=> state = "whole"
  BY DEF Fetch
<1>3. /\ Active(l) /\ at \in Stations /\ making \in Making /\ state \in States
      /\ Nobody \in Prompts \cup {Nobody}
  BY <1>1 DEF Active, Over, Stations, Making, States
<1>4. launch'[l].at = at
  BY <1>2, <1>3, GotoMoves DEF Inv
<1>5. store'[<<"tasks">>].state = state /\ \A m \in Names \ {<<"tasks">>} : store'[m] = store[m]
  BY <1>1, <1>2, <1>3, PutChanges DEF Inv
<1>6. Local(l) => Local(l)'
  BY <1>1, <1>2, <1>4, <1>5 DEF Local, HasDataset
<1>7. ASSUME breaks = 0, Alone(l)  PROVE Whole(l)'
  BY <1>1, <1>2, <1>4, <1>5, <1>7 DEF Alone, Whole, Ready, Makes, HasDataset
<1> QED  BY <1>1, <1>2, <1>3, <1>6, <1>7, MakeKeeps DEF Alone

LEMMA WriteRowsKeeps ==
    ASSUME Inv, NEW l \in Launches, WriteRows(l)
    PROVE  Inv'
<1>1. /\ launch[l].at = "rows" /\ config[l] \in Configs /\ Path(l) \in Names
      /\ config[l].rows \in Prompts /\ UNCHANGED <<config, used, breaks, crossed>>
      /\ <<"tasks">> \in Names \ {Path(l)}
  BY PathsApart, DirsApart DEF WriteRows, Inv, Typing, Path, Configs
<1>2. PICK state \in {"part", "whole"}, at \in {"rows", "weights"},
           making \in {"rows", "nothing"} :
         /\ Put(Path(l), state, config[l].rows) /\ Goto(l, at, making)
         /\ at = "rows" => state = "part"
         /\ at = "weights" => state = RowsMade(l)
  BY DEF WriteRows, RowsMade
<1>3. /\ Active(l) /\ at \in Stations /\ making \in Making /\ state \in States
  BY <1>1, <1>2 DEF Active, Over, Stations, Making, States
<1>4. launch'[l].at = at
  BY <1>2, <1>3, GotoMoves DEF Inv
<1>5. /\ store'[Path(l)] = Thing(state, config[l].rows) /\ store'[Path(l)].state = state
      /\ \A m \in Names \ {Path(l)} : store'[m] = store[m]
  BY <1>1, <1>2, <1>3, PutChanges DEF Inv
<1>6. Path(l)' = Path(l)
  BY <1>1 DEF Path
<1>7. config[l].kind = "inline" => RowsMade(l) = "whole"
  BY DEF RowsMade
<1>8. Local(l)'
  BY <1>1, <1>2, <1>4, <1>5, <1>6, <1>7 DEF Local, HasDataset
<1>9. ASSUME breaks = 0, Alone(l)  PROVE Whole(l)'
  <2>1. RowsMade(l) = "whole"
    BY <1>1, <1>9 DEF RowsMade, Alone, Whole, Ready
  <2> QED
    BY <1>1, <1>2, <1>4, <1>5, <1>6, <1>9, <2>1 DEF Alone, Whole, Ready, Makes, HasDataset
<1> QED  BY <1>1, <1>2, <1>3, <1>8, <1>9, MakeKeeps DEF Alone

-----------------------------------------------------------------------------
(* The model *)

LEMMA FindWeightsKeeps ==
    ASSUME Inv, NEW l \in Launches, FindWeights(l)
    PROVE  Inv'
<1>1. /\ launch[l].at = "weights" /\ <<"weights">> \in Names
      /\ store[<<"weights">>] \in Things /\ Path(l)' = Path(l)
      /\ UNCHANGED <<config, store, used, breaks, crossed>>
  BY DirsApart DEF FindWeights, Inv, Typing, Path
<1>2. PICK at \in {"ref", "download"} :
         /\ Goto(l, at, "nothing")
         /\ at = "ref" <=> LooksLikeHfCheckpoint
  BY DEF FindWeights
<1>3. Active(l) /\ at \in Stations /\ "nothing" \in Making
  BY <1>1 DEF Active, Over, Stations, Making
<1>4. launch'[l].at = at
  BY <1>2, <1>3, GotoMoves DEF Inv
<1>5. Local(l) => Local(l)'
  BY <1>1, <1>2, <1>4 DEF Local, HasDataset, LooksLikeHfCheckpoint
<1>6. ASSUME breaks = 0, Alone(l)  PROVE Whole(l)'
  <2>1. \A n \in Names : store[n].state \notin {"bare", "part"}
    BY <1>1, <1>6 DEF Alone, Whole, Makes
  <2>2. at = "ref" => store[<<"weights">>].state = "whole"
    BY <1>1, <1>2, <2>1 DEF LooksLikeHfCheckpoint
  <2> QED  BY <1>1, <1>2, <1>4, <1>6, <2>1, <2>2 DEF Alone, Whole, Ready, HasDataset
<1> QED  BY <1>1, <1>2, <1>3, <1>5, <1>6, GoKeeps DEF Alone

LEMMA DownloadHfKeeps ==
    ASSUME Inv, NEW l \in Launches, DownloadHf(l)
    PROVE  Inv'
<1>1. /\ launch[l].at = "download" /\ <<"weights">> \in Names
      /\ UNCHANGED <<config, used, breaks, crossed>> /\ Path(l)' = Path(l)
      /\ Path(l) \in Names \ {<<"weights">>}
  BY DirsApart, PathsApart DEF DownloadHf, Inv, Typing, Path
<1>2. PICK state \in {"bare", "part", "whole"}, at \in {"download", "ref"},
           making \in {"weights", "nothing"} :
         /\ Put(<<"weights">>, state, Nobody) /\ Goto(l, at, making)
         /\ at = "ref" <=> state = "whole"
  BY DEF DownloadHf
<1>3. /\ Active(l) /\ at \in Stations /\ making \in Making /\ state \in States
      /\ Nobody \in Prompts \cup {Nobody}
  BY <1>1 DEF Active, Over, Stations, Making, States
<1>4. launch'[l].at = at
  BY <1>2, <1>3, GotoMoves DEF Inv
<1>5. /\ store'[<<"weights">>].state = state
      /\ \A m \in Names \ {<<"weights">>} : store'[m] = store[m]
  BY <1>1, <1>2, <1>3, PutChanges DEF Inv
<1>6. Local(l) => Local(l)'
  BY <1>1, <1>2, <1>4, <1>5 DEF Local, HasDataset
<1>7. ASSUME breaks = 0, Alone(l)  PROVE Whole(l)'
  BY <1>1, <1>2, <1>4, <1>5, <1>7 DEF Alone, Whole, Ready, Makes, HasDataset
<1> QED  BY <1>1, <1>2, <1>3, <1>6, <1>7, MakeKeeps DEF Alone

LEMMA FindRefKeeps ==
    ASSUME Inv, NEW l \in Launches, FindRef(l)
    PROVE  Inv'
<1>1. /\ launch[l].at = "ref" /\ <<"ref">> \in Names
      /\ store[<<"ref">>] \in Things /\ Path(l)' = Path(l)
      /\ UNCHANGED <<config, store, used, breaks, crossed>>
  BY DirsApart DEF FindRef, Inv, Typing, Path
<1>2. PICK at \in {"validate", "convert"} :
         /\ Goto(l, at, "nothing")
         /\ at = "validate" <=> LooksLikeTorchDist
  BY DEF FindRef
<1>3. Active(l) /\ at \in Stations /\ "nothing" \in Making
  BY <1>1 DEF Active, Over, Stations, Making
<1>4. launch'[l].at = at
  BY <1>2, <1>3, GotoMoves DEF Inv
<1>5. Local(l) => Local(l)'
  BY <1>1, <1>2, <1>4 DEF Local, HasDataset, LooksLikeTorchDist
<1>6. ASSUME breaks = 0, Alone(l)  PROVE Whole(l)'
  <2>1. \A n \in Names : store[n].state \notin {"bare", "part"}
    BY <1>1, <1>6 DEF Alone, Whole, Makes
  <2>2. at = "validate" => store[<<"ref">>].state = "whole"
    BY <1>1, <1>2, <2>1 DEF LooksLikeTorchDist
  <2> QED  BY <1>1, <1>2, <1>4, <1>6, <2>1, <2>2 DEF Alone, Whole, Ready, HasDataset
<1> QED  BY <1>1, <1>2, <1>3, <1>5, <1>6, GoKeeps DEF Alone

LEMMA ConvertKeeps ==
    ASSUME Inv, NEW l \in Launches, ConvertTorchDist(l)
    PROVE  Inv'
<1>1. /\ launch[l].at = "convert" /\ <<"ref">> \in Names
      /\ <<"weights">> \in Names \ {<<"ref">>}
      /\ UNCHANGED <<config, used, breaks, crossed>> /\ Path(l)' = Path(l)
      /\ Path(l) \in Names \ {<<"ref">>}
  BY DirsApart, PathsApart DEF ConvertTorchDist, Inv, Typing, Path
<1>2. PICK state \in {"absent", "bare", "part", "whole"}, at \in {"convert", "validate"},
           making \in {"clear", "ref", "nothing"} :
         /\ Put(<<"ref">>, state, Nobody) /\ Goto(l, at, making)
         /\ at = "convert" => state # "whole"
         /\ at = "validate" =>
               state = IF store[<<"weights">>].state = "whole" THEN "whole" ELSE "part"
  BY DEF ConvertTorchDist
<1>3. /\ Active(l) /\ at \in Stations /\ making \in Making /\ state \in States
      /\ Nobody \in Prompts \cup {Nobody}
  BY <1>1 DEF Active, Over, Stations, Making, States
<1>4. launch'[l].at = at
  BY <1>2, <1>3, GotoMoves DEF Inv
<1>5. /\ store'[<<"ref">>].state = state
      /\ \A m \in Names \ {<<"ref">>} : store'[m] = store[m]
  BY <1>1, <1>2, <1>3, PutChanges DEF Inv
<1>6. Local(l) => Local(l)'
  BY <1>1, <1>2, <1>4, <1>5 DEF Local, HasDataset
<1>7. ASSUME breaks = 0, Alone(l)  PROVE Whole(l)'
  <2>1. store[<<"weights">>].state = "whole"
    BY <1>1, <1>7 DEF Alone, Whole, Ready
  <2> QED
    BY <1>1, <1>2, <1>4, <1>5, <1>7, <2>1 DEF Alone, Whole, Ready, Makes, HasDataset
<1> QED  BY <1>1, <1>2, <1>3, <1>6, <1>7, MakeKeeps DEF Alone

-----------------------------------------------------------------------------
(* Training *)

LEMMA ValidateKeeps ==
    ASSUME Inv, NEW l \in Launches, Validate(l) \/ JobEnds(l)
    PROVE  Inv'
<1>1. PICK at \in {"reset", "failed", "trained"} :
         /\ Goto(l, at, "nothing")
         /\ at = "reset" => launch[l].at = "validate"
  BY DEF Validate, JobEnds
<1>2. /\ launch[l].at \in {"validate", "training"}
      /\ UNCHANGED <<config, store, used, breaks, crossed>> /\ Path(l)' = Path(l)
  BY DEF Validate, JobEnds, Path
<1>3. Active(l) /\ at \in Stations /\ "nothing" \in Making
  BY <1>2 DEF Active, Over, Stations, Making
<1>4. launch'[l].at = at
  BY <1>1, <1>3, GotoMoves DEF Inv
<1>5. Local(l) => Local(l)'
  BY <1>1, <1>2, <1>4 DEF Local, HasDataset
<1>6. ASSUME breaks = 0, Alone(l)  PROVE Whole(l)'
  <2>1. \A n \in Names : store[n].state \notin {"bare", "part"}
    BY <1>2, <1>6 DEF Alone, Whole, Makes
  <2> QED  BY <1>1, <1>2, <1>4, <1>6, <2>1 DEF Alone, Whole, Ready, HasDataset
<1> QED  BY <1>1, <1>2, <1>3, <1>5, <1>6, GoKeeps DEF Alone

\* The trainer reads what the launch has validated; another one's trainer is
\* killed.
LEMMA ResetRayKeeps ==
    ASSUME Inv, NEW l \in Launches, ResetRay(l)
    PROVE  Inv'
<1>1. /\ launch[l].at = "reset" /\ UNCHANGED <<config, store, breaks, crossed>>
      /\ Typing /\ Path(l) \in Names /\ <<"weights">> \in Names /\ <<"ref">> \in Names
      /\ Path(l)' = Path(l)
  BY DirsApart, PathsApart DEF ResetRay, Inv, Typing, Path
<1>2. /\ launch' \in [Launches -> [at : Stations, making : Making]]
      /\ launch'[l].at = "training"
      /\ \A k \in Launches \ {l} : launch'[k] = launch[k] \/ launch'[k].at = "failed"
  <2>1. \A k \in Launches :
           /\ launch[k] \in [at : Stations, making : Making]
           /\ launch'[k] = IF k = l THEN [at |-> "training", making |-> "nothing"]
                           ELSE IF launch[k].at = "training"
                           THEN [at |-> "failed", making |-> "nothing"] ELSE launch[k]
    BY DEF ResetRay, Inv, Typing
  <2>2. launch' = [k \in Launches |-> launch'[k]]
    BY DEF ResetRay
  <2>3. \A k \in Launches : launch'[k] \in [at : Stations, making : Making]
    BY <2>1 DEF Stations, Making, Over
  <2> QED  BY <2>1, <2>2, <2>3
<1>3. /\ used' = [k \in Launches |-> used'[k]]
      /\ used'[l] = <<store[Path(l)], store[<<"weights">>].state, store[<<"ref">>].state>>
      /\ \A k \in Launches \ {l} : used'[k] = used[k]
  BY DEF ResetRay, Inv, Typing
<1>4. Typing'
  <2>1. /\ store[Path(l)] \in Things /\ store[<<"weights">>].state \in States
        /\ store[<<"ref">>].state \in States
    BY <1>1 DEF Typing, Things
  <2>2. ASSUME NEW k \in Launches, Trains(k)'
        PROVE  \E data \in Things, weights, ref \in States : used'[k] = <<data, weights, ref>>
    <3>1. CASE k = l
      BY <1>3, <2>1, <3>1
    <3>2. CASE k # l
      BY <1>1, <1>3, <2>2, <3>2 DEF Typing, Trains
    <3> QED  BY <3>1, <3>2
  <2> QED  BY <1>1, <1>2, <1>3, <2>2 DEF Typing
<1>5. InlineNamed'
  BY <1>1 DEF Inv, InlineNamed
<1>6. ASSUME ~ crossed  PROVE Uncrossed'
  <2>1. Active(l) /\ Alone(l)
    BY <1>1, <1>6, AloneHolds DEF Active, Over
  <2>2. \A k \in Launches \ {l} : launch'[k].at \in Over /\ ~ Active(k)'
    BY <1>2, <1>6, <2>1 DEF Inv, Uncrossed, OneAtATime, Active, Over
  <2>3. OneAtATime'
    BY <2>2 DEF OneAtATime
  <2>4. \A k \in Launches : Local(k)' /\ Ready(k)'
    <3>1. \A k \in Launches : launch'[k].at \in Over \cup {"training"}
      BY <1>2, <2>2
    <3> QED  BY <3>1 DEF Local, Ready, Over, HasDataset
  <2>5. ExactTraining'
    <3> SUFFICES ASSUME NEW k \in Launches, Trains(k)', config[k].kind = "inline"
                 PROVE  used'[k][1] = Thing("whole", config[k].rows)
      BY <1>1 DEF ExactTraining
    <3>1. CASE k = l
      BY <1>1, <1>3, <2>1, <3>1 DEF Alone, Local, HasDataset
    <3>2. CASE k # l
      BY <1>3, <1>6, <3>2 DEF Inv, Uncrossed, ExactTraining, Trains
    <3> QED  BY <3>1, <3>2
  <2>6. ASSUME breaks = 0  PROVE Unbroken'
    <3>1. /\ \A n \in Names : store[n].state \notin {"bare", "part"}
          /\ store[Path(l)].state = "whole" /\ store[<<"weights">>].state = "whole"
          /\ store[<<"ref">>].state = "whole"
      BY <1>1, <2>1, <2>6 DEF Alone, Whole, Makes, Ready, HasDataset
    <3>2. Leftovers'
      BY <1>1, <3>1 DEF Leftovers
    <3>3. ASSUME NEW k \in Launches, Trains(k)'  PROVE Complete(k)'
      <4>1. CASE k = l
        BY <1>3, <3>1, <4>1 DEF Complete
      <4>2. CASE k # l
        BY <1>3, <1>6, <2>6, <3>3, <4>2 DEF Inv, Uncrossed, Unbroken, Trains, Complete
      <4> QED  BY <4>1, <4>2
    <3> QED  BY <2>4, <3>2, <3>3 DEF Unbroken
  <2> QED  BY <1>1, <2>3, <2>4, <2>5, <2>6 DEF Uncrossed
<1> QED  BY <1>1, <1>4, <1>5, <1>6 DEF Inv

LEMMA StepKeeps == \A l \in Launches : Inv /\ Step(l) => Inv'
BY FindDatasetKeeps, OpenDatasetKeeps, FindTasksKeeps, FetchKeeps, WriteRowsKeeps,
   FindWeightsKeeps, DownloadHfKeeps, FindRefKeeps, ConvertKeeps, ValidateKeeps,
   ResetRayKeeps
DEF Step

\* Whoever starts while another launch is under way crosses it.
LEMMA StartKeeps ==
    ASSUME Inv, NEW l \in Launches, Start(l)
    PROVE  Inv'
<1>1. /\ launch[l].at = "off" /\ Goto(l, "dataset", "nothing")
      /\ UNCHANGED <<config, store, used, breaks>>
      /\ crossed' = (crossed \/ \E k \in Launches \ {l} : launch[k].at \notin Over)
  BY DEF Start
<1>2. /\ launch' \in [Launches -> [at : Stations, making : Making]]
      /\ launch'[l].at = "dataset" /\ \A k \in Launches \ {l} : launch'[k] = launch[k]
  BY <1>1, GotoMoves DEF Stations, Making, Inv
<1>3. crossed' \in BOOLEAN
  BY <1>1, Zenon
<1>4. Typing' /\ InlineNamed'
  BY <1>1, <1>2, <1>3 DEF Inv, Typing, InlineNamed, Trains
<1>5. ASSUME ~ crossed'  PROVE Uncrossed'
  <2>1. ~ crossed /\ \A k \in Launches \ {l} : launch'[k].at \in Over
    BY <1>1, <1>2, <1>5
  <2>2. OneAtATime'
    BY <2>1 DEF OneAtATime, Active
  <2>3. \A k \in Launches : Local(k)' /\ Ready(k)'
    <3>1. \A k \in Launches : launch'[k].at \in Over \cup {"dataset"}
      BY <1>2, <2>1
    <3> QED  BY <3>1 DEF Local, Ready, Over, HasDataset
  <2>4. ExactTraining' /\ \A k \in Launches : Trains(k)' => Trains(k)
    BY <1>1, <2>1 DEF Inv, Uncrossed, ExactTraining, Trains
  <2>5. ASSUME breaks = 0  PROVE Unbroken'
    <3>1. Leftovers /\ \A k \in Launches : Trains(k) => Complete(k)
      BY <2>1, <2>5 DEF Inv, Uncrossed, Unbroken
    <3>2. \A k \in Launches, n \in Names : ~ Makes(k, n)
      <4>1. \A k \in Launches : launch[k].at \in Over
        BY <1>1, <1>2, <2>1 DEF Over
      <4> QED  BY <4>1 DEF Makes, Over
    <3>3. Leftovers'
      BY <1>1, <3>1, <3>2 DEF Leftovers
    <3> QED  BY <1>1, <2>3, <2>4, <3>1, <3>3 DEF Unbroken, Complete
  <2> QED  BY <1>1, <2>2, <2>3, <2>4, <2>5 DEF Uncrossed
<1> QED  BY <1>4, <1>5 DEF Inv

LEMMA BreaksOffKeeps ==
    ASSUME Inv, NEW l \in Launches, BreaksOff(l)
    PROVE  Inv'
<1>1. PICK how \in {"failed", "killed"} : Goto(l, how, "nothing")
  BY DEF BreaksOff
<1>2. /\ UNCHANGED <<config, store, used, crossed>>
      /\ breaks' = breaks + 1 /\ breaks' \in 0 .. MaxBreaks /\ breaks' # 0
  BY PreparationAssumption DEF BreaksOff, Inv, Typing
<1>3. /\ launch' \in [Launches -> [at : Stations, making : Making]]
      /\ launch'[l].at \in Over /\ \A k \in Launches \ {l} : launch'[k] = launch[k]
  BY <1>1, GotoMoves DEF Stations, Making, Over, Inv
<1>4. Typing' /\ InlineNamed'
  BY <1>2, <1>3 DEF Inv, Typing, InlineNamed, Trains
<1>5. ASSUME ~ crossed  PROVE Uncrossed'
  <2>1. OneAtATime'
    BY <1>3, <1>5 DEF Inv, Uncrossed, OneAtATime, Active
  <2>2. ASSUME NEW k \in Launches  PROVE Local(k)'
    <3>1. CASE k = l
      BY <1>3, <3>1 DEF Local, Over, HasDataset
    <3>2. CASE k # l
      BY <1>2, <1>3, <1>5, <3>2 DEF Inv, Uncrossed, Local, Path
    <3> QED  BY <3>1, <3>2
  <2>3. ExactTraining'
    BY <1>2, <1>5 DEF Inv, Uncrossed, ExactTraining, Trains
  <2> QED  BY <1>2, <2>1, <2>2, <2>3 DEF Uncrossed
<1> QED  BY <1>2, <1>4, <1>5 DEF Inv

LEMMA InitInv == Init => Inv
<1> SUFFICES ASSUME Init PROVE Inv
  OBVIOUS
<1>1. /\ \A n \in Names : store[n].state = "absent" /\ store[n] \in Things
      /\ \A l \in Launches : launch[l].at = "off" /\ ~ Trains(l)
                             /\ launch[l] \in [at : Stations, making : Making]
      /\ store = [n \in Names |-> store[n]] /\ launch = [l \in Launches |-> launch[l]]
      /\ used = [l \in Launches |-> used[l]] /\ breaks = 0 /\ crossed = FALSE
      /\ config \in [Launches -> Configs]
  BY DEF Init, Thing, Things, States, Stations, Over, Making, Trains, Configs
<1>2. breaks \in 0 .. MaxBreaks
  BY <1>1, PreparationAssumption
<1>3. crossed \in BOOLEAN
  BY <1>1, Zenon
<1>7. Typing
  BY <1>1, <1>2, <1>3 DEF Typing
<1>4. InlineNamed
  BY <1>1, PathsApart DEF InlineNamed
<1>5. \A l \in Launches : Local(l) /\ Ready(l)
  BY <1>1 DEF Local, Ready, HasDataset
<1>6. OneAtATime /\ ExactTraining /\ Leftovers
  BY <1>1 DEF OneAtATime, Active, Over, ExactTraining, Leftovers
<1> QED  BY <1>1, <1>7, <1>4, <1>5, <1>6 DEF Inv, Uncrossed, Unbroken

LEMMA NextInv == Inv /\ [Next]_vars => Inv'
<1> SUFFICES ASSUME Inv, [Next]_vars PROVE Inv'
  OBVIOUS
<1>1. ASSUME NEW l \in Launches, Start(l) \/ Step(l) \/ BreaksOff(l)  PROVE Inv'
  BY <1>1, StartKeeps, StepKeeps, BreaksOffKeeps
<1>2. CASE UNCHANGED vars
  BY <1>2 DEF vars, Inv, Typing, InlineNamed, Uncrossed, OneAtATime, Active, ExactTraining,
              Local, Path, Unbroken, Leftovers, Makes, Ready, Trains, Complete
<1> QED  BY <1>1, <1>2 DEF Next

LEMMA InvHolds == Spec => []Inv
BY InitInv, NextInv, PTL DEF Spec

-----------------------------------------------------------------------------
\* The types of the host's disk and of its launches hold in every state
\* (gym/dataset.py, gym/model_prep.py).
THEOREM TypeCorrect == Spec => []Typing
<1>1. Inv => Typing
  BY DEF Inv
<1> QED  BY InvHolds, <1>1, PTL

-----------------------------------------------------------------------------
(* The theorems *)

\* A launch that trains has a whole dataset, whole weights and a whole
\* conversion, unless a preparation was broken off or two launches crossed
\* (prepare_model, materialize_dataset).
THEOREM TrainsOnWholeCorrect == Spec => []TrainsOnWhole
<1>1. Inv => TrainsOnWhole
  BY DEF Inv, Uncrossed, Unbroken, TrainsOnWhole
<1> QED  BY InvHolds, <1>1, PTL

\* An inline dataset is trained on as it was sent, whatever was broken off
\* before (materialize_inline).
THEOREM InlineIsExactCorrect == Spec => []InlineIsExact
<1>1. Inv => InlineIsExact
  BY DEF Inv, Uncrossed, ExactTraining, InlineIsExact
<1> QED  BY InvHolds, <1>1, PTL

\* No launch clears, empties or adds to what is whole, if launches come one
\* after another; a launch that crosses others may (convert_torch_dist,
\* materialize_dataset).
THEOREM WholeIsKeptCorrect == Spec => WholeIsKept
<1>1. Inv /\ [Next]_vars
         => \A n \in Names : store[n].state = "whole" /\ ~ crossed => store'[n] = store[n]
  <2> SUFFICES ASSUME Inv, [Next]_vars, ~ crossed, NEW n \in Names,
                      store[n].state = "whole"
               PROVE  store'[n] = store[n]
    OBVIOUS
  <2>1. CASE UNCHANGED store
    BY <2>1
  <2>2. ASSUME NEW l \in Launches, NEW m \in Names, NEW state, NEW rows, Put(m, state, rows),
               store[m].state # "whole"
        PROVE  store'[n] = store[n]
    BY <2>2 DEF Put, Inv, Typing
  <2>3. ASSUME NEW l \in Launches, Step(l), store' # store  PROVE store'[n] = store[n]
    <3>1. Local(l) /\ Path(l) \in Names
      BY PathsApart DEF Inv, Uncrossed, Typing, Path
    <3>2. CASE OpenDataset(l)
      BY <2>2, <3>1, <3>2 DEF OpenDataset, Local
    <3>3. CASE Fetch(l)
      BY <2>2, <3>1, <3>3, DirsApart DEF Fetch, Local
    <3>4. CASE WriteRows(l)
      BY <2>2, <3>1, <3>4 DEF WriteRows, Local
    <3>5. CASE DownloadHf(l)
      BY <2>2, <3>1, <3>5, DirsApart DEF DownloadHf, Local
    <3>6. CASE ConvertTorchDist(l)
      BY <2>2, <3>1, <3>6, DirsApart DEF ConvertTorchDist, Local
    <3> QED
      BY <2>3, <3>2, <3>3, <3>4, <3>5, <3>6
      DEF Step, FindDataset, FindTasks, FindWeights, FindRef, Validate, ResetRay, JobEnds
  <2> QED  BY <2>1, <2>3 DEF Next, Start, BreaksOff, vars
<1>2. Inv /\ [Next]_vars =>
         [\A n \in Names : store[n].state = "whole" /\ ~ crossed => store'[n] = store[n]]_vars
  BY <1>1
<1> QED  BY InvHolds, <1>2, PTL DEF Spec, WholeIsKept
=============================================================================
