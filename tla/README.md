# Daytona Gym in TLA+

Daytona Gym runs the rollouts of a reinforcement-learning trainer (Slime) in
Daytona sandboxes: a coding agent, driven by the model under training, works in
a sandbox for some turns, and what it did comes back to the trainer as a sample
with a reward. Around that core, rollouts emit telemetry that is exported to a
file, shipped to an ingest host that outlives the rented GPU machine, and shown
on a dashboard; the ingest host also queues training jobs for worker agents.

This directory specifies the parts of the program in which order, failure and
concurrency decide what happens. TLC checks each specification on small
instances, and TLAPS proves the most important safety properties for every
value of the constants. `PROJECT.json` holds the correspondence of every
definition to lines of the source, the runs, and the list of hazards the
properties are for.

## 1. Inventory

Paths are relative to `src/daytona_gym/`.

### Modelled

**Ingest store** (`ingest/server.py`, `IngestStore`). State: three files for each
run, `.jsonl` (lines received), `.ingest.json` (offset acknowledged, generation)
and `.progress.json`, with a lock for each run. Operations: `append`,
`put_progress`, `delete`, and the 409 that tells a client where to go on.
Hard: the two writes of `append` are not one; retries, late requests and new
generations arrive in any order. Correct when: an acknowledged offset is really
stored, nothing is stored twice, acknowledgements are not taken back.

**Telemetry shipper** (`ingest/shipper.py`) with the **ingest handlers**. State:
`_offset`, `_generation`, `_progress_digest` in memory, a loop thread, and the
thread that calls `stop()`. Operations: a tick (read whole lines, POST, handle
200/409/400, PUT progress, heartbeat), `stop()` with its join and drain, process
restarts. Hard: the file grows, is torn and rotates while it is read; the answer
to a POST may be lost and the POST still arrive; two threads share the offset.
Correct when: the history is a copy of the file, everything arrives in the end.

**Sandbox pool** (`runtime/limits.py`, `runtime/daytona.py`, `_provision` in
`runtime/rollout.py`). State: an `asyncio.Semaphore`, the set of held ids, the
record of sandboxes. Operations: `create` (permit, retries with backoff, SDK
call) and `close`. Hard: cancellation and timeouts at every await, answers that
are lost after the platform acted, waiters that were handed a permit and are
cancelled before they run. Correct when: permits add up, every rollout gets its
turn, what is tracked is what is in use.

**Rollout loop and Slime adapter** (`runtime/rollout.py`, `runtime/actions.py`,
`adapters/slime/generate.py`, `sample.py`). State: turn, tools of the turn,
events, tokens used, status and error code, the sample. Operations: provision,
seed, bootstrap tests, generate, run tools, gate the final answer, close, apply
the trajectory, compute the reward, deliver or raise. Hard: limits that meet
(turns, tools of a reply, tokens), and failures at every await. Correct when:
the status explains the trajectory, and a sample is usable when it is delivered.

**Telemetry exporter** (`telemetry/export.py`). State: a bounded queue, the
writer's batch, a file handle and its rotated generations. Operations: `emit`,
`flush`, `close`, the writer's loop, rotation. Hard: `close` may close the file
under the writer; a disk error ends the writer; every wait has a timeout.
Correct when: what was accepted is in the file once and in order, and a
confirmed flush means it.

**Job queue and worker agent** (`ingest/jobs.py`, `workers/agent.py`). State: a
file for each job, one lock; the agent's place in its loop. Operations: enqueue,
claim, status report; poll, train, report. Hard: an answer that is lost, a
report that fails after the training did not, a crash in the middle of a
rewrite. Correct when: no job is given out twice, and its status is honest.

**Telemetry store, tracer, metrics and batch tracker** (`telemetry/store.py`,
`traces.py`, `metrics.py`, `batches.py`). State: a ring of spans grouped by
rollout, the stream exported beside it, counters; the rollouts in flight, the
derived step, since when nothing is in flight. Operations: a span opened and
closed around every await of a rollout, eviction, sampling, the count of the
outcome; `enter` and `exit`. Hard: rollouts close spans in turns while the ring
overflows, and leave by exceptions at every await. Correct when: a timeline is
whole or gone, every failure is told and counted, the derived step is the batch.

**Run progress and status** (`telemetry/progress.py`, `dashboard_data.py`, the run
page of `dashboard.py`). State: `<run>.progress.json` and one temporary name for
all of its writers. Operations: `write_progress` (truncate, write, rename), the
views of the run list and of the run page. Hard: four writers in several threads
and processes, readers that find a torn document, a host that falls silent.
Correct when: the end recorded is the end the run had, and both views show it.

**Training launch and run handle** (`gym/launch.py`, `config.py`, `remote_job.py`,
`run.py`, `run_cli.py`). State: the stage of the main thread, the threads that read the job's
output and report that it lives, the status file between a detached child and its
parent, the handle's verdict. Operations: the stages, the job, publish,
failures, Ctrl+C, `dg run stop`, `wait()`. Hard: a heartbeat after the end (the joins have timeouts), a child
that dies without a word, an end that never reaches the ingest host. Correct when:
what is recorded, and what `wait()` returns, is how the run ended.

**Dataset and model preparation** (`gym/dataset.py`, `model_prep.py`). State: prompt
files named by a cache key or a digest, task directories, weights, their
conversion. Operations: look whether it is there, else make it. Hard: making
takes time and is broken off; two launches cross; the key is not the content.
Correct when: a launch trains on whole files, and on its own.

**GPU providers, SSH workers and the laptop's copy** (`gym/providers/`,
`gym/worker.py`, `ssh_shell.py`, `telemetry/dashboard_sync.py`). State: a rented
machine, files of fixed names on it, a session, the markers read from it, the copy
of the run's progress on the laptop. Operations: rent, poll, resolve; stage, run,
read markers, make a handle; pull, fall back, announce. Hard: answers and sessions that are lost at
every step, a terminal that shows no exit status, launches that share a machine.
Correct when: the handle tells the truth, the job run is the job sent, and what
the laptop shows never runs ahead and goes back only for reasons one can name.

### How they interact

    laptop: provider -> machine <- SSH worker -- job file, secrets, package --> remote_job
                                       ^ markers, progress pulled back             |
    GPU host: preparation -> launch (main, reader, heartbeat) -> Slime <-----------+
                               |  progress file                   |
                               v                                  v
                            shipper                     rollout loop -> sandbox pool -> platform
                               |  ^                               | spans, counts
                               |  +-- <run>.jsonl <-- exporter <-- telemetry store, batch tracker
                               v
    ingest host: ingest store, job queue -> dashboard, TrainingRun.wait
                     ^ claim / report
                worker agent -> launch

Rollouts are asyncio tasks that share the pool, the store and the tracker. The
exporter's writer, the shipper's loop and the launch's reader and heartbeat are
threads. Files are the only thing exporter and shipper, launch and shipper, and
launches on one machine share; HTTP requests are all that shipper, agent and host
share, a terminal or a command's output all that laptop and machine share.

### Not modelled

| part | state and hard behaviour | why not |
|---|---|---|
| watchdog (`ingest/watchdog.py`) | one loop: asks for `/healthz`, deploys again when there is no answer; its only state is an address | the next part to model, with the deployment |
| ingest deployment (`ingest/deploy.py`) | finds or makes the host's sandbox, installs, restarts | calls of a platform one after another |
| dashboard server and tunnel (`dashboard.py`, `dashboard_tunnel.py`) | pages, a process that is kept running | presentation; how a page derives a status is in `RunHandle` |
| frontend, console, command line | - | presentation |
| analysis, inspection, GPU metrics, Slime's performance log | - | pure aggregation and formatting |
| run configuration, recipes, Slime's command line, preflight | - | validation and argument building before anything runs |
| SGLang generator | one request a turn | its replies are the rollout model's inputs |
| environments and rewards, scrubbing | pure functions | inputs of the models |
| test doubles, examples, images, documents | - | not the program |

## 2. Plan

Done: the ingest path (store, shipper and handlers), the pool, the rollout loop,
the exporter, the job queue; progress, launch and handle; preparation; providers, SSH
worker and the laptop's copy; telemetry store and batch tracker; the proofs about
store, shipper, pool, rollout loop and its telemetry, exporter, job queue, launch and
handle, preparation, SSH worker and the laptop's copy.

Left, in this order:

1. Token and log-prob alignment of a sample (`sample.py`), and its reuse for a
   second generate: the part of the adapter that `RolloutLoop` abstracts.
2. The watchdog with the deployment it repeats: a host replaced under the
   shippers, two watchdogs at once.

## 3. Modules and how they correspond to the code

| module | models | composes / refines |
|---|---|---|
| `IngestStore` | one run's files and lock on the host | - |
| `TelemetryShipping` | source file, shipper threads, requests, handlers | extends `IngestStore`, implements it (`HostIsAStore`) |
| `RunCopy` | abstract: the history is a prefix of the file | implemented by `TelemetryShipping` (`HistoryIsACopy`) |
| `RolloutIds` | the rollouts of one process | shared by `SandboxPool` and `TelemetryStore` |
| `SandboxPool` | semaphore, retries, SDK runtime, platform | - |
| `SandboxLimiter` | abstract: at most `MaxInFlight` inside, each once | implemented by `SandboxPool` (`ImplementsLimiter`) |
| `RolloutLoop` | `RolloutRunner.run`, `execute` of the runtime, Slime's `generate` | - |
| `TelemetryExport` | `AsyncJsonlExporter` | - |
| `WorkerJobs` | `JobQueue`, its routes, `run_loop` | - |
| `TelemetryStore` | `InMemoryTelemetryStore`: ring, eviction, sampling, export | - |
| `BatchTracker` | `RolloutBatchTracker` and the trainer that is not known to it | - |
| `RunTelemetry` | the spans, the count and the step of every rollout of a process | extends the two above |
| `ProgressFile` | `write_progress` and its writers | - |
| `TrainingLaunch` | one launch, attached or supervised, its threads, its child and parent | extends `ProgressFile` |
| `RunHandle` | ingest host's copy, both views, `TrainingRun.wait` | extends `TrainingLaunch` |
| `Preparation` | prompt files, tasks, weights and conversion on one host | - |
| `GpuRental` | renting a machine and making a worker of it (RunPod, Vast) | - |
| `RemoteWorker` | `SshWorker.launch` by command and by terminal | extends `GpuRental` |
| `LaptopSync` | the thread that follows a detached run | extends `RemoteWorker` |
| `...Proofs` | theorems of the module they are named for | extend it; `TelemetryShippingProofs` has the store's too, `SandboxPoolProofs` those of `RunTelemetry` |
| `MC...` | constants and bounds for TLC | extend it |

**IngestStore.** `log`, `meta`, `progress` are the three files; `pending` is the
request for which `append` holds the lock between its two writes. `AppendBody`
and `CommitMeta` are the two halves of `append`, `LoseMeta` is a death or a failed
write between them, with any part of the body in the file. `Rebased` and `Accepts`
are the generation handshake. Left out: `last_seen` and the byte count, which no
decision reads; the order in which `delete` removes its files (the lock covers
it).

**TelemetryShipping.** A shipper has two threads, `"loop"` and `"stop"`. A tick is
cut where the other side may get in: `Read` (stat, rotation check, read; one step),
`Post` (headers taken from `_offset` as it then is), `Posted`, `Put`, `Putted`.
`net` holds requests; `CallFails` ends a call at the client, after which the
request may be lost or (`LateDelivery`) arrive for nobody. `Restart` gives fresh
fields and threads. A file is known by its size, where its lines end, and which
lines are torn. The heartbeat is a call that may fail.

**SandboxPool.** `pc[r]` is the await at which a rollout stands; a step runs to the
next await. `permits`, `queue` and `granted` are `asyncio.Semaphore` as of Python
3.12, where a release hands the permit to a waiter and newcomers queue until it
has run (`WakeUp`, `Resume`); 3.11, which the program also allows, is not modelled. `requested`, `platform` and `dying` are the platform:
a create is carried out or not whether or not its caller still waits. A cancel and
its delivery are one step. A sandbox is named by the create that asked for it.
`delete(wait=False)` returns when the deletion is accepted.

**RolloutLoop.** What a tool call comes to in the sandbox is `Dispatched` (a result, or
a refusal that becomes an observation) or one of `ToolErrors`, where an error that
reads like a timeout or comes near the end of the tool's time is one. A reply is the sequence of its JSON payloads, whether it is blank,
whether it invented a tool result, and its tokens; `Actions`, `Nudged` and `ToolsOf`
are the parser's reading of it. `FinishTurn` is the gate, `NextTurn` the loop's
head, `Leave` the exceptions and the `finally`. A success of `run_tests` is
nondeterministic: its command is the model's own choice. `Applied`, `Deliver` and
the reward actions are the adapter.

**TelemetryExport.** Records are numbered as the queue accepts them; sizes are
counted in records. The writer's `at` and `then` are where it stands in `_run`,
`_write` or `_maybe_rotate` and why it writes (a full batch, a flush, a stop, its
`finally`). `close` closes the file and forgets it in one step.

**WorkerJobs.** `file[j]` is the status in a job's file, `"torn"` while
`write_text` has truncated it. A request's `step` says how far its handler is:
`locked` after reading, `truncated`, `answered`. An agent that gives a request up
changes its `id`, so a late answer finds nobody. `Raises` is what each exception
does in `run_loop`.

**TelemetryStore, BatchTracker, RunTelemetry.** A span is its name and whether it
`told` of a failure (an error, or a failed or aborted status). `unseen` notes the rollouts that
`HandOverFails`: between the root span and the reward's nothing is open that could tell of an exception. `at[r]` is the await at which a
rollout stands; a step closes the spans that end there, inner ones first, and each is stored, evicting as the
code does, and exported. `status` merges failed and aborted, which `_keep_trace` treats alike. `longIdle` is the only thing the
tracker's clock decides. `misled` notes that the trainer's pauses defeated the gap rule, which
no label can survive. Left out: the ring of metric samples, steps given
explicitly, a run without a reward function.

**ProgressFile.** A file is an inode (`disk`), with two names (`path`, `tmp`). A call of
`write_progress` is three steps, open (which empties the file), write, rename; two calls may have the
same file open, so that the short document leaves the tail of a long one (`Torn`),
and a rename finds nothing (`Raised`).

**TrainingLaunch.** `main` is the main thread: its stage, and where in the stage it is
(noting the phase, doing the work, failing, writing the end, draining the
shipper). `job` is the training's process, `blocked` when nobody reads its output any
more. `reader` and `heartbeat` publish until they are told to stop; `main.late` notes that the main
thread gave up joining one of them (after 2 s and 1 s) and went on. The code notes
some phases several times in a row; the model notes each once.

**RunHandle.** `host` is the host's copy of the document and when it last heard. `Snapshot`
is the run page's reading of a document, `ListStatus` the list's. `verdict` is what
`wait()` returns, from the host's answer or, where there is none, from the local files
(`PollHost`, `PollLocal`). Shipping is one step here; `TelemetryShipping` has the rest.

**Preparation.** `store` holds for each name on disk whether it is absent, bare, part or
whole, and whose rows are in it. A step that takes time is two or three (`making`). `crossed` notes that two launches were
there at once, `breaks` that one was broken off: with either the guarantees are fewer.

**GpuRental, RemoteWorker, LaptopSync.** `machine` is what is true of the machine,
`rental` what the laptop believes. `laptop[l].at` is the step a launch is at, in the order of `Stages`;
`disk` has the names launches share. `remote[l].printed` are the markers `remote_job` has
printed, of which a reader may have seen any prefix when the session ends. `excuse` notes what befell
a launch. A poll of the provider may break with an error that `except DaytonaError` does not
catch, and the endpoints of a machine that is up may not be named: renting then raises and the
machine stays, billed. `doc` and `copy` are a run's progress on the machine and on the laptop. A followed
run has a thread with rounds (`round`): the run's own progress is pulled, or else the whole of `runs/`,
which all launches of a directory share, is packed (`archive`) and up to minutes later unpacked over
what the laptop has (`UnpackAll`), or breaks off in the middle of a file (`BreaksOff`, a copy that is `"torn"`).

## 4. Runs

| run | what it shows | bounds and why they are enough |
|---|---|---|
| `ship_faults` | with a `stop()` that waits for its loop thread each byte is stored once and in order, acknowledged is stored, `stop()` delivers, the host is an `IngestStore`, an unstopped shipper catches up | 3 bytes, chunks of 2, two snapshots: whole, split and overlong lines; one torn line, failed call, host crash and restart each, with late requests |
| `ship_rotation` | late lines never land behind the new file's; the history of each file is a prefix of it, of a later file where the shipper noticed the replacement | three files of up to 2 bytes, chunks of 1, one failure or restart, a `dg rm` of a run that was not rotated: the second rotation is what a restart makes dangerous |
| `sandbox_pool` | tracking is exact, the stack is a limiter, every rollout ends | 3 rollouts, 2 permits, 2 attempts, 1 lost answer: waiting, retrying and an interrupted waiter meet |
| `rollout_loop` | what a status means, what reaches the trainer, every rollout ends | 2 turns, 2 tools of a reply, 7 replies, 50 configurations with budgets reached in and between replies |
| `telemetry_export` | accepted records are written once and in order, a confirmed flush means it; once the writer has left its loop nothing but its last batch and the queue can be missing, unless `close` took the file | queue 2, batch 2, 3 records a file, 2 files, 4 records, 1 disk error |
| `worker_jobs` | a job is given out once, its status is honest, it is taken in the end | 2 agents, 2 jobs, 2 faults: a report lost twice, or a late report of a job enqueued again |
| `training_launch` | the recorded end is the run's, both views agree, `wait()` is honest and concludes | both kinds of launch, exit codes -9 and 0, joins that give up, one fault of any kind, two hints or heartbeats where nothing fails, one beside a fault, none beside `dg run stop`, which writes itself (`FewWriters`; the theorems have any number of each) |
| `worker_preparation` | a launch trains on whole files, on its own rows when they came with it, and clears nothing that is whole | 2 launches, 2 contents, one preparation broken off: reuse after a break and a crossing fit in |
| `remote_worker` | handles are honest, what runs is what was sent, the laptop's copy is faithful | 2 launches of one or of two processes on one machine and one `runs/`, both transports, archives packed early and unpacked late, one failure anywhere |
| `run_telemetry` | a timeline is whole or gone, failures are told (but what fails between the root span and the reward's) and counted, the derived step is the batch | 3 rollouts, 2 at once, a ring of 2 rollouts and 8 spans (two timelines need 12), 3 batches, the first label that could be wrong after two right ones |
| `progress_breaks_training` (violation) | a writer of progress renames another's file away, and the exception ends a thread of the launch | one launch, no fault |
| `stale_dataset` (violation) | a launch trains on an earlier launch's rows | two launches one after the other, nothing broken off |

What the violations show is in `PROJECT.json` under `findings`, with the line of
the source each one contradicts; section 7 has the disagreements that are stated
in the modules and left out of the runs.

`CHECK_DEADLOCK FALSE` stands where the system may stop: a shipper that was
stopped, rollouts that have ended, an exporter that was closed, agents that have
left, launches that are over, and bounds that are used up.

`FewWriters` bounds `training_launch`. Two action constraints bound `ship_rotation`: `OneTrouble`, a single failed
call or restart, and `RotatedOrDeleted`, which keeps a `dg rm` away from a rotated
run. The second is a real limit of what holds: a deletion resets the generation,
and a late request of the old file can then be taken for the new one's. `run_telemetry`
permutes its rollouts (`Symmetry`), which only invariants are checked under.

Some properties name an excuse, a state variable that notes what the code cannot
help: `stray` (a PUT given up on that may still be handled), `misled` (a pause or a training on the wrong side of the gap),
`crossed` (two launches at once on one machine), `excuse` (what befell a launch), `main.late` (a join
that gave up), `unseen` (an exception outside every span), `faults` by kind. None is an input of the
modelled code.

### Fairness

- Shipper threads, the transport and the host's handlers are weakly fair: they are
  threads that run, and a call ends by its timeout. Failures, crashes, restarts
  and deletions are never fair; they are bounded, so "after the last one" is
  what the liveness properties speak of.
- In the pool the rollouts are fair, and so is the platform's answer to a request
  (the SDK's calls have timeouts). No cancellation is counted on.
- In the rollout loop one weak fairness over all steps forward: an await ends.
  Neither the rollout timeout nor a cancellation is counted on, so every rollout
  ends by its turns alone.
- The exporter's writer is fair, and so is `close` once its flush has ended (its
  waits have timeouts). Nobody has to emit, flush or call `close`, and the timeouts
  may come at any time.
- The job queue's handlers are fair together, each agent on its own. A claim that
  waits for the lock needs no strong fairness, since the lock is taken only as
  often as there are jobs to write.
- What is said of a launch begins when it is over: then the time that passes on a host nobody
  ships to and the polls of `wait()` (its requests have timeouts) are all that is needed, and all
  that is fair. That a launch comes to its end is not claimed.
- The laptop's copy is started and pulled fairly, since its thread runs as long as the
  laptop's process, and a fallback ends one way or another: this assumes that `scp` and
  `ssh` end, which the code gives no time limit everywhere. A pull that fails is never counted on to succeed.
- `ship_rotation`, `worker_preparation` and `run_telemetry` check safety only and assume none.

## 5. Proofs

All are safety; each module is proved under the assumptions it names on its
constants (natural-number bounds, finite sets of rollouts and agents, requests
with `offset <= next`). A theorem that needs more says so in its `ASSUME`, and
below is why.

| property a run checks | theorem | beyond the constants' own assumptions |
|---|---|---|
| `AckedIsStored`, `StoredOnceInOrder` | `AckedIsStoredCorrect`, `StoredOnceInOrderCorrect` (store), `ShippedAckedIsStored`, `ShippedOnceInOrder` (shipper) | shipper: `Requests` holds what it can send |
| `HostIsAStore` | `HostIsAStoreCorrect` | same |
| `ShippedStatusIsShown`, `OldFileNeverAfterNew`, `StopDelivers` | the same with `Correct` | no join times out, one shipper for a run |
| of `HistoryIsACopy`, the first file | `FirstFileIsCopied` | the same, no host crash, and `[][RotatedOrDeleted]_vars` |
| `TrackedWhileUsed`, `ImplementsLimiter` | the same with `Correct` | - |
| `StatusExplained`, `DeliveredIsUsable` | the same with `Correct` | - |
| `StreamIntact`, `OnlyLastBatchAtRisk`, `FlushedIsWritten` | the same with `Correct` | - |
| `GrantedOnce`, `RunningIsAttended`, `HonestStatus` | the same with `Correct` | - |
| `EndIsHonest`, `EndIsRecorded`, `VerdictIsHonest`, `ViewsAgree` | the same with `Correct` | - |
| `TrainsOnWhole`, `InlineIsExact`, `WholeIsKept` | the same with `Correct` | - |
| `HandleIsHonest`, `JobIsOurs`, `CopyNeverRegresses` | the same with `Correct` | - |
| `FailureIsTold`, `CountedOnce`, `StepIsBatch`, `TimelineIsWhole` | the same with `Correct` | - |

The types, the account of the permits and the bounds of the ring (`RingIsBounded`) are only
proved: no run spends a property on them, except that TLC evaluates them where an
inductive invariant was tried out.

**`TelemetryShippingProofs`**, of the store: `StoreTypeCorrect`, `AckedIsStoredCorrect`,
`StoredOnceInOrderCorrect`. The types alone are not inductive: `CommitMeta` writes
the pending request's end, so `StoreTyping` adds that a pending request is the
file's last entry and lines up with `.ingest.json`. `AckedIsStored` then holds at
`CommitMeta` because the bytes below the request's offset were stored and the
entry covers the rest. For the order, `Settled` adds that every entry `append` is
done with is of an older generation, or ends at or before the acknowledged offset.
Of shippers and handlers, in four layers, each the invariant of the next:

1. Any shippers. Each handler is one operation of `IngestStore` or leaves its
   variables alone, so `HostIsAStoreCorrect` is a step simulation and what is proved of
   the store carries over. `ShippingTypeCorrect` needs the types of shippers, files,
   requests and snapshots together (`Types`).
2. Any shippers whose joins do not time out (`Sound`): a shipper has one busy thread
   (`OneBusy`), a call in progress is the one its thread waits for (`Wires`), and the
   bytes of a body are those its headers name, on the wire and in the history
   (`Bodies`); `Remembered` ties a shipper's offset and generation to what it has read.
   With a timeout two threads tick at once, and the first row of section 7 is what happens: the code
   does not exclude it, so what is proved in this layer and below is what holds of a `stop()` that got its thread.
3. One shipper (`OneShipper`): no PUT is out that could take the host's snapshot
   back, but one that was given up (`Forward`); a shipper's position is never beyond what
   the host acknowledged (`Positions`); the first file is generation 0 everywhere
   (`FirstGeneration`); a file's generation grows with its number (`Incarnations`); and
   `Ordered` says that a request of a file older than one the history already holds is past what
   the host acknowledged, so that it is refused (`LateIsPast`), that of two requests still out the
   older file's has no newer generation, unless it is past already (`LateFollows`), and that
   none is of a newer generation than its shipper's (`NoneAhead`).
4. `Delivering`: files, chunks and offsets lie at ends of lines (`LinesOnly`), an answer says what the
   host has (`Answered`), and a drain has in its hands what is missing (`Draining`). `StopDelivers`
   is then what the last of these says when the drain is over.
5. `Copying`, on top of the third layer: what is on its way of the first file is in it
   (`FirstWithin`), and is refused once the history holds another one (`FirstIsPast`); until
   then the host's offset is the number of bytes the history has (`Counted`). So a request of
   the first file (later ones are model-checked only) that is taken in carries on exactly where the copy ends, which is a step
   of `RunCopy`; every other step is a deletion, a byte more in the file, or none. Unlike
   `Ordered`, `FirstIsPast` needs no limit on restarts: the first file's requests are all of
   generation 0, and there is no older one. What flattens the history (`FirstBytes`) is a
   recursive function over its length; that it exists and depends on nothing but the entries
   it has passed is shown with the least number for which it would not (`GatherExists`,
   `GatherUnique`), an induction that needs no operator as a parameter. A host that dies
   between the writes of `append` repeats lines (section 6), hence no crash.

A launch starts one shipper (`config.py:263`, `remote_job.py:149`); `dg ship -f` or
`dg ingest push` beside it makes a second, and nothing on the host tells them apart. One is needed:
with two on one run and no fault at all an older snapshot of one shipper is handled
after a newer one of the other, also behind a `stop()`; and when one goes on with a new file under
the generation of the old, a late request lands behind the new file's lines. TLC finds all
three (section 7). What is in layers 1 and 2 holds for them too.
The proof of `OldFileNeverAfterNew` failed first for a good reason: the property
said nothing of restarts, and the two files its run then allowed could not show
that it is false with three. A restarted shipper counts generations from 0, takes the host's over by a
409, and sends the third file's lines under it, while a late request for the second carries a
newer one. The property and the run are now stated with that.

**`SandboxPoolProofs`**: `PoolTypeCorrect`, `TrackedWhileUsedCorrect`,
`PermitsAccountedCorrect`, `ImplementsLimiterCorrect`. `EndClose` gives a permit
back only for an id that is held, so the account of the permits rests on the
tracking being exact. `SemaphoreShape` says that queue and granted list waiting
rollouts, each once; `WokenCounted` counts those a `WakeUp` hands permits to, by a
bijection with positions of the queue. The limiter's refinement follows: a
rollout enters only with a permit, and permits, granted and holders add up to
`MaxInFlight`.

The module's second part is about what the same rollouts tell of themselves
(`RunTelemetry`): `FailureIsToldCorrect`, `CountedOnceCorrect`, `StepIsBatchCorrect`.
`Tells` says that the export tells of a failure from the step on in which there is one,
and of one that goes right as many spans as it has closed, and of one whose hand-over failed all but its
last two (`Shown`);
`Counted` follows the count from await to await; `Flight` says that `enter` and `exit`
meet, so that the tracker's number is that of the rollouts under way; `Batches` ties the
step to the batch: one that has begun has its step and no long pause, one that has not
will get the next. The ring and its limits do not matter to any of them. `StepIsBatch`
turned out to be false with a third batch: the model's trainer could train twice
with no rollout between, of which the tracker sees nothing. A trainer has nothing to
train on then, and `TrackerStep` now says so; the run, which two batches had kept
from showing it, has three.

`TimelineIsWholeCorrect` and `RingIsBounded` are about the ring itself. `RingShape`: its ids are
those of the rollouts with spans in it, each once. `RingFits`: it is within both limits, so
one span more is one too many at most and one round of each loop of `_evict_spans`, as
`EvictSpans` has it, is what the loops do. `TimelineInv` adds that every span exported
is held or counted as dropped, that a rollout which lost nothing while it ran is in the
ring as it was exported until its end (`InMemory`), and that it exported each name at
most once (`OnceEach`), so that what a reader sorts into a timeline is the whole. Spans
held are counted as the places they have in the ring (`SpanPlaces`), since a sum over
rollouts would be a fold.

**`RolloutLoopProofs`**: `TypeCorrect`, `StatusExplainedCorrect`,
`DeliveredIsUsableCorrect`. `Running` says that a rollout in the loop has no
error and no other status yet, `LeftWith` what must have been so for each status the loop can
be left with, `CancelledGoes` that a cancelled rollout only closes its sandbox, `SampleTells`
that the sample is the trajectory's. What a reply's actions are is
a recursive function over its length (`Only`); it is made sense of with an induction
over a set of numbers (`SetInduction`), which needs no operator as a parameter.

**`TelemetryExportProofs`**: `TypeCorrect`, `StreamIntactCorrect`,
`OnlyLastBatchAtRiskCorrect`, `FlushedIsWrittenCorrect`. `InOrder` numbers the records in
file, rest of the batch and queue without a gap while the writer's loop runs; `AtRisk` says
that once it has left the loop what was written is a gapless beginning and then records of the batch
it had in its hands, and that batch and queue are all that follows the beginning, unless `close`
took the file away (`Explains`): no earlier batch is skipped and nothing else is lost. `Marked` says
that a flush marker still in the queue stands before every record accepted after it.

**`WorkerJobsProofs`**: `TypeCorrect`, `GrantedOnceCorrect`, `RunningIsAttendedCorrect`,
`HonestStatusCorrect`. `Inv` adds to the types
that each kind of request has its shape, that the file of a claim under the lock still
says queued until it is truncated, and that an agent at work has a job. `Accounted` makes
`GrantedOnce` inductive: the holders of a job (an agent that has it, or to which
its answer is on the way) are at most its grants, its grants at most its
enqueues, and fewer while a grant is still owed (the file says queued, or an
enqueue or a claim is rewriting it). A claim pays a grant that was owed; a lost
answer or a crash only loses a holder.
For `RunningIsAttended`, as long as nothing went wrong (`Calm`) a request is the one
its agent waits for (`RequestsBelong`), there is one for an agent (`OneRequest`), and a job that is
reported is no longer running once the report is in (`ReportedIsOver`). `HonestStatus` rests on what files
and reports say being backed by a run that ended so (`Telling`), and runs are never forgotten.

**`RunHandleProofs`**: `EndIsHonestCorrect`, `EndIsRecordedCorrect`, `VerdictIsHonestCorrect`
and `ViewsAgreeCorrect` for any constants. The main thread joins the reader and the heartbeat with a
timeout, and when it gives up either may write an older phase over the end: the properties except just
that run (`OnTime` is that it did not happen). Types come in two parts (`FileTyping`,
`LaunchTyping`); `Callers` says who may be in `write_progress`, `Course` what the main thread's place
says of job and threads, in particular once it has come past the joins (`Closing`). `AllHonest` holds of every document anywhere (files, calls under way, the host's copy).
`Recording` says that with no full disk, no late thread and no `dg run stop` (`Undisturbed`) the temporary file is some writer's (`Owned`)
and, once the threads are joined, the main thread's alone from opening to renaming
(`WritesAlone`). `Signs` relates what the host hears to what is so; `Verdicts` is what `wait()` may conclude.

**`PreparationProofs`**: `TypeCorrect`, `TrainsOnWholeCorrect`, `InlineIsExactCorrect`,
`WholeIsKeptCorrect` (an action property). A file under the name of a digest holds these
rows or some of them, always (`InlineNamed`). While launches come one after another
(`Uncrossed`) what a launch makes was not whole (`Local`), and while none was broken off
nothing in part is left but what the launch at work is making (`Leftovers`), so that it has passed
a station only with what it needs (`Ready`).

**`RemoteWorkerProofs`** (of `LaptopSync`, and so of renting and of the worker):
`TypeCorrect`, `HandleIsHonestCorrect`, `JobIsOursCorrect`,
`CopyNeverRegressesCorrect` (an action property), for any number of launches and
failures. `Course` says how far
laptop and machine are of each other, `Told` that each marker `remote_job` has printed is
so, `Honest` what follows for a handle. `Beside` says that launches that cross are of
several processes and so have job files of their own; `Placed` follows what is on the machine
from stage to stage, `Ours` what was run of it. `Shows` ties the documents on machine and
laptop to the training, and the document is written only forwards (`WrittenFollows`); `NoneOlder` says that what the thread of a
run that alone is followed has packed of that run is no older than what is shown, which is why only another
run's archive can take it back.
`JobIsOurs` turned out to be false with a second failure: on a terminal neither the
command that removes the job file nor the one that writes it shows that it failed, and when
both do an older launch's job is run. The property now excuses just that, and the
run still allows one failure.

Model-checked only: everything that says "eventually" (`EndReachesLaptop`, `RolloutEnds` and
their like), since fairness and ENABLED are outside the prover's reach, and of `HistoryIsACopy` the files
after the first, where generation numbers depend on which replacements the shipper noticed. Every other
property of a passing run is a theorem.

## 6. What the models leave out

- Store: a host that dies between the writes of `append` leaves the lines in the
  file and the old offset, so a retry stores them twice. The properties of order
  and uniqueness are stated for no crash; `AckedIsStored` is not.
- Shipping: an old progress snapshot whose PUT arrives after a newer one overwrites
  it; `ShippedStatusIsShown` and `StopDelivers` excuse a PUT that was given up on and
  may still be handled.
  A line the host refuses (400) stops everything behind it. One failed request ends
  the drain of `stop()`. What rotates away before it was read is never sent.
- Pool: `aclose`, `execute` and `reset` change nothing of it. A deletion that fails
  and is swallowed leaves no trace, so nothing can be checked of its sandbox.
  Three rollouts do not reach a free permit while someone still queues; the
  theorems cover it.
- Rollout loop: the conversation's text, token estimates against real
  tokenization, log-probs; a sample generated a second time.
- Exporter: a kill of the process and torn lines (the shipper's model has those);
  sizes in bytes. A stop that meets a batch may write it twice, which
  `OnlyLastBatchAtRisk` allows; after `close` has taken the file away whole batches are
  lost and a confirmed flush promises nothing.
- Jobs: payloads, results, `gpu`, the `--once` flag; `GET` of a job, which reads
  without the lock and may meet a truncated file. Nothing checks which agent
  reports, and a job that is running is never queued again: `RunningIsAttended`
  says that this takes a fault, not that it is repaired.

- Telemetry: a rollout id is taken to be used once. The code derives it from the
  run and the sample, so a sample that is generated again adds to the first timeline.
  A failure between the root span and the reward's (the trajectory cannot be applied, the reward function
  not loaded) is told by nothing: `FailureIsTold` excepts it.
- Launch: the activity feed, the log's tail, `run.meta` and the dashboard a launch
  may open. A thread that outlives its join can overwrite the end (section 7);
  `EndIsRecorded` and `VerdictIsHonest` except such a launch, and nothing repairs its record.
- Preparation: the text of a row; the order in which a tool fills a directory.
- Workers: the text of the commands; more than one machine. `LocalWorker` only
  calls the launch. An archive of `runs/` is packed at one time. That a machine whose renting raised
  is billed on is in the model, but no property is about it: the code has nothing that would end it.

## 7. Disagreements that no run shows

These formulas stand in the modules, state what a comment or a document says, and are
violated by what the code does. They are in no run. To see one, change the constants
named and check it alone.

| property | says | how to see it |
|---|---|---|
| `BodiesMatchHeaders` with a join that times out | "complete JSONL lines in chunks tagged with **source** byte offsets" (`shipper.py:8`); `stop()` gives up on its loop thread after `interval + 5` s while a POST may take 15 s, and drains beside it; the loop's answer then moves `_offset` between the drain's reading and its headers (`shipper.py:129`, `:189`) | `ShipFaults.cfg` with `MaxSize` 2, all faults 0, `LateDelivery` FALSE, `JoinMayTimeOut` TRUE |
| `FilesInOrder` after a restart | a rotated file's late bytes are "correctly ignored" (`server.py:92`); a restarted shipper's generation is the host's, not the number of rotations (`shipper.py:166`) | `ShipRotation.cfg` with `MaxDeletes` 0 and the invariant `FilesInOrder` |
| `ShippedStatusIsShown`, `StopDelivers` with two shippers | stop() pushes "whatever is left (final status included)" (`shipper.py:126`); a second shipper (`dg ship -f`, `:416`) has its own idea of what was sent | `ShipFaults.cfg` with `Spec`, `Shippers = {s1, s2}`, all faults 0, `LateDelivery` FALSE |
| `OldFileNeverAfterNew` with two shippers | the same of a rotated file | `ShipRotation.cfg` with `Shippers = {s1, s2}`, all faults 0, `LateDelivery` FALSE, without `ACTION_CONSTRAINTS` |
| `OneFilePerGeneration` | "File truncation/rotation bumps a generation counter" (`shipper.py:10`); a new file that has outgrown the offset is not noticed and goes on under the old generation (`:166`) | `ShipFaults.cfg` with `MaxSize` 2, `MaxIncarnations` 2, all faults 0, `LateDelivery` FALSE |
| `SandboxAlwaysCleansUp` | a sandbox always cleans up (`IMPLEMENTATION_PLAN.md:22`); a create that is cancelled after the platform acted leaves one behind (`daytona.py:107`) | `SandboxPool.cfg` with `PoolSpec`, `Rollouts <- Single`, 1 permit, 1 attempt, no fault |
| `NoHollowSample` | "instead of handing Megatron an empty / broken Sample" (`generate.py:315`); a prompt as long as the budget is truncated before its first turn and handed over (`:325`) | `RolloutLoop.cfg` with `Spec`, `Requests <- LongPrompt` |
| `WaitReturns` | "Block until training finishes" (`run.py:149`); a child that fails before its shipper starts leaves nothing on the ingest host to wait for (`remote_job.py:137`) | `TrainingLaunch.cfg` with `Modes = {"supervised"}`, `MaxFaults` and `MaxNotes` 0 |
| `TerminalIsRecorded` | "must [...] always record a terminal status" (`tests/contracts/test_local_launch_progress.py:1`); the reader and the heartbeat are joined for 2 s and 1 s (`launch.py:389`), and one that still publishes renames its "training" document over the end | `TrainingLaunch.cfg` with `Modes = {"attached"}`, `MaxFaults` 0 |
| `FailedIsKept` | failed and aborted rollouts are always kept (`store.py:94`); of one that is not sampled only the spans that carry the error or the status are, its other spans are not | `RunTelemetry.cfg` without `SYMMETRY` |

Smaller ones, met while modelling:

- An attached launch with a dashboard stays until Ctrl+C after its return code is
  printed; by shell the handle then says 130, failed, of a run that ended with 0
  (`remote_job.py:501`, `run.py:117-134`). `HandleIsHonest` excuses an interrupt.
- RunPod's `desiredStatus` is what was asked for, and its endpoints are known before
  the machine answers on them; a first connection may come too early.
- A machine whose rental was never answered, that came up after the deadline, whose poll broke with an
  error other than `DaytonaError` (a timeout while reading, a body that is no JSON, a null `runtime`:
  `runpod.py:233`, `:360`), or whose endpoints are not named (`runpod.py:59-79`, `:113`) is
  charged for and nobody ends it.
- Over a terminal a failed command is not noticed. When both removing the old job file and
  writing the new one fail, the machine runs the job of an earlier launch
  (`JobIsOurs` excuses it).
- `/tmp/daytona_gym_forward.env` and the package directory have fixed names: launches
  that cross may use each other's secrets.
- A round of the laptop's copy that cannot be decoded turns a run that has ended into
  one that boots (`dashboard_sync.py:339`), and an archive that comes empty counts
  as copied.
- An archive of the whole `runs/` that one launch's thread packed is unpacked up to minutes later over the
  newer copies of the others (`dashboard_sync.py:439`), and one that breaks off leaves a torn file,
  which is then taken for a run nothing is known of (`worker.py:312`).
- A reward function that cannot be loaded, or a trajectory that cannot be applied, raises
  outside every span: the exported root span says completed (`generate.py:244`, `:383-408`).
- One line that the ingest host refuses (400) stops the lines and snapshots behind it.
- A second cancellation, while the sandbox is being closed, leaves a rollout uncounted
  (`rollout.py:327-343`); `CountedOnce` names it.

Checking a module: `tlc -config <run>.cfg <module>.tla` with the names in
`PROJECT.json`, and `tlapm <Module>Proofs.tla`.
