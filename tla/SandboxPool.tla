----------------------------- MODULE SandboxPool -----------------------------
(***************************************************************************)
(* The sandboxes of one rollout process.  The rollouts are asyncio tasks   *)
(* that share one runtime: a LimitingEnvironmentRuntime (a permit of an    *)
(* asyncio.Semaphore per sandbox) around a RetryingEnvironmentRuntime      *)
(* around a DaytonaEnvironmentRuntime (the record of the sandboxes it      *)
(* created), as runtime/factory.py stacks them.  The permit is taken       *)
(* outside the retries, so a rollout keeps it while it backs off.          *)
(*                                                                         *)
(* A step of a rollout runs from one await to the next.  The provision     *)
(* timeout, the rollout timeout and the cancellation of a rollout all      *)
(* reach it as an exception at the await where it stands (Interrupt...).   *)
(* The platform and its SDK are external: a create is a request the        *)
(* platform carries out at some time, whether or not the caller still      *)
(* waits for the answer.                                                   *)
(***************************************************************************)
EXTENDS RolloutIds, Naturals, Sequences, FiniteSets

CONSTANTS
    MaxInFlight,        \* daytona_max_concurrency
    MaxAttempts,        \* daytona_provision_retries
    MaxFaults           \* bound: answers of the platform that are lost

ASSUME RolloutsAssumption == IsFiniteSet(Rollouts)
ASSUME MaxInFlightAssumption == MaxInFlight \in Nat \ {0}
ASSUME MaxAttemptsAssumption == MaxAttempts \in Nat \ {0}
ASSUME MaxFaultsAssumption == MaxFaults \in Nat

VARIABLES
    pc,                 \* pc[r]: the await at which rollout r stands
    attempt,            \* attempt[r]: the number of its current create
    permits,            \* Semaphore._value
    queue,              \* the waiters of the semaphore, first come first
    granted,            \* waiters that were woken and have not run yet
    held,               \* LimitingEnvironmentRuntime._held
    open,               \* sandboxes recorded with closed = False ...
    closed,             \* ... and with closed = True
    requested,          \* creates the platform has not decided yet
    platform,           \* sandboxes that exist
    dying,              \* sandboxes whose deletion the platform has accepted
    faults

poolVars == <<pc, attempt, permits, queue, granted, held, open, closed,
              requested, platform, dying, faults>>

semaphore == <<permits, queue, granted>>
records   == <<held, open, closed>>
outside   == <<requested, platform, dying>>

\* A sandbox is named by the create that asked for it: ids are never reused.
Sandboxes == Rollouts \X (1 .. MaxAttempts)
Sandbox(r) == <<r, attempt[r]>>

Places == {"start", "acquiring", "creating", "backoff", "running",
           "deleting", "done"}

\* The rollouts between acquire and release.
Holders == {r \in Rollouts :
               pc[r] \in {"creating", "backoff", "running", "deleting"}}

-----------------------------------------------------------------------------
(* asyncio.Semaphore: a waiter is woken by handing it the permit, and runs *)
(* later; until it has run, newcomers queue even when a permit is free.    *)

Locked == permits = 0 \/ queue # <<>> \/ granted # {}

Least(a, b) == IF a <= b THEN a ELSE b

\* With free permits, the first waiters are woken, at most n of them; g are
\* those woken before.
WakeUp(free, n, g) ==
    LET k == Least(n, Least(free, Len(queue)))
    IN  /\ permits' = free - k
        /\ granted' = g \cup {queue[i] : i \in 1 .. k}
        /\ queue' = SubSeq(queue, k + 1, Len(queue))

Release == WakeUp(permits + 1, 1, granted)

\* A waiter that was woken runs, and passes on all that is free.
Resume(r, free) == WakeUp(free, Len(queue), granted \ {r})

WithoutEntry(q, i) == SubSeq(q, 1, i - 1) \o SubSeq(q, i + 1, Len(q))

-----------------------------------------------------------------------------
PoolInit ==
    /\ pc = [r \in Rollouts |-> "start"]
    /\ attempt = [r \in Rollouts |-> 1]
    /\ permits = MaxInFlight
    /\ queue = <<>>
    /\ granted = {}
    /\ held = {} /\ open = {} /\ closed = {}
    /\ requested = {} /\ platform = {} /\ dying = {}
    /\ faults = 0

Goto(r, place) == pc' = [pc EXCEPT ![r] = place]

\* The rollout enters create: it has its permit at once, or it queues.
Arrive(r) ==
    /\ pc[r] = "start"
    /\ IF Locked
       THEN /\ Goto(r, "acquiring")
            /\ queue' = Append(queue, r)
            /\ UNCHANGED <<permits, requested>>
       ELSE /\ Goto(r, "creating")
            /\ permits' = permits - 1
            /\ requested' = requested \cup {Sandbox(r)}
            /\ UNCHANGED queue
    /\ UNCHANGED <<attempt, granted, records, platform, dying, faults>>

\* A waiter that was woken runs, and asks the platform for its sandbox.
Acquired(r) ==
    /\ r \in granted
    /\ Goto(r, "creating")
    /\ Resume(r, permits)
    /\ requested' = requested \cup {Sandbox(r)}
    /\ UNCHANGED <<attempt, records, platform, dying, faults>>

\* create returns a handle: it is recorded, and its id is held.
CreateReturns(r) ==
    /\ pc[r] = "creating"
    /\ Sandbox(r) \in platform
    /\ Goto(r, "running")
    /\ open' = open \cup {Sandbox(r)}
    /\ held' = held \cup {Sandbox(r)}
    /\ UNCHANGED <<attempt, semaphore, closed, outside, faults>>

\* Mutant: the permit is given back for the time of the backoff, as if the
\* retries were stacked around the limiter.
RetryOutsideTheLimiter(r) ==
    /\ attempt[r] < MaxAttempts
    /\ Goto(r, "backoff")
    /\ Release

\* create raises.  A platform error is retried, with the permit kept; the
\* last attempt, and an error that looks like a timeout, end the rollout.
Retry(r) ==
    /\ attempt[r] < MaxAttempts
    /\ Goto(r, "backoff")
    /\ UNCHANGED semaphore

GiveUp(r) ==
    /\ Goto(r, "done")
    /\ Release

\* The platform refuses ...
CreateRefused(r) ==
    /\ pc[r] = "creating"
    /\ Sandbox(r) \in requested
    /\ requested' = requested \ {Sandbox(r)}
    /\ Retry(r) \/ GiveUp(r)
    /\ UNCHANGED <<attempt, records, platform, dying, faults>>

\* ... or its answer does not arrive, and the request may still be served.
CreateLost(r) ==
    /\ pc[r] = "creating"
    /\ faults < MaxFaults
    /\ faults' = faults + 1
    /\ Retry(r) \/ GiveUp(r)
    /\ UNCHANGED <<attempt, records, outside>>

BackoffEnds(r) ==
    /\ pc[r] = "backoff"
    /\ attempt' = [attempt EXCEPT ![r] = @ + 1]
    /\ requested' = requested \cup {<<r, attempt[r] + 1>>}
    /\ Goto(r, "creating")
    /\ UNCHANGED <<semaphore, records, platform, dying, faults>>

\* The rollout ends, in whatever way: its record is marked closed, and only
\* then the deletion is asked for.
StartClose(r) ==
    /\ pc[r] = "running"
    /\ Goto(r, "deleting")
    /\ open' = open \ {Sandbox(r)}
    /\ closed' = closed \cup {Sandbox(r)}
    /\ UNCHANGED <<attempt, semaphore, held, outside, faults>>

\* Mutant: the id is discarded from _held and no permit given back.
CloseKeepsThePermit(r) ==
    /\ Goto(r, "done")
    /\ held' = held \ {Sandbox(r)}
    /\ UNCHANGED semaphore

\* Mutant: the permit is given back and the id stays in _held.
CloseKeepsTheId(r) ==
    /\ Goto(r, "done")
    /\ Release
    /\ UNCHANGED held

\* The finally of LimitingEnvironmentRuntime.close: only a sandbox that is
\* held gives a permit back.
EndClose(r) ==
    /\ Goto(r, "done")
    /\ IF Sandbox(r) \in held
       THEN held' = held \ {Sandbox(r)} /\ Release
       ELSE UNCHANGED <<held, semaphore>>

\* delete(wait=False) returns once the deletion is accepted ...
DeleteReturns(r) ==
    /\ pc[r] = "deleting"
    /\ dying' = dying \cup {Sandbox(r)}
    /\ EndClose(r)
    /\ UNCHANGED <<attempt, open, closed, requested, platform, faults>>

\* ... and when it raises, an error is swallowed and a cancellation passes on;
\* either way nothing tells whether the platform accepted it.
DeleteFails(r) ==
    /\ pc[r] = "deleting"
    /\ faults < MaxFaults
    /\ faults' = faults + 1
    /\ dying' \in {dying, dying \cup {Sandbox(r)}}
    /\ EndClose(r)
    /\ UNCHANGED <<attempt, open, closed, requested, platform>>

\* A timeout or a cancellation reaches the rollout where it waits.
InterruptWaiting(r) ==
    /\ pc[r] = "acquiring"
    /\ Goto(r, "done")
    /\ IF r \in granted
       THEN Resume(r, permits + 1)
       ELSE \E i \in DOMAIN queue :
               /\ queue[i] = r
               /\ queue' = WithoutEntry(queue, i)
               /\ UNCHANGED <<permits, granted>>
    /\ UNCHANGED <<attempt, records, outside, faults>>

InterruptCreating(r) ==
    /\ pc[r] \in {"creating", "backoff"}
    /\ GiveUp(r)
    /\ UNCHANGED <<attempt, records, outside, faults>>

\* The platform carries out what it was asked for.
PlatformCreates(s) ==
    /\ s \in requested
    /\ requested' = requested \ {s}
    /\ platform' = platform \cup {s}
    /\ UNCHANGED <<pc, attempt, semaphore, records, dying, faults>>

PlatformDeletes(s) ==
    /\ s \in platform \cap dying
    /\ platform' = platform \ {s}
    /\ UNCHANGED <<pc, attempt, semaphore, records, requested, dying, faults>>

RolloutStep(r) ==
    \/ Arrive(r) \/ Acquired(r)
    \/ CreateReturns(r) \/ CreateRefused(r) \/ CreateLost(r) \/ BackoffEnds(r)
    \/ StartClose(r) \/ DeleteReturns(r) \/ DeleteFails(r)
    \/ InterruptWaiting(r) \/ InterruptCreating(r)

PoolNext ==
    \/ \E r \in Rollouts : RolloutStep(r)
    \/ \E s \in Sandboxes : PlatformCreates(s) \/ PlatformDeletes(s)

PoolSpec == PoolInit /\ [][PoolNext]_poolVars

-----------------------------------------------------------------------------
(* Fairness.  Every await of a rollout ends: a woken task runs, create has a *)
(* timeout in the SDK, the backoff is a sleep, a rollout has at most         *)
(* max_turns turns of calls with timeouts.  The platform serves what it      *)
(* keeps.  Nothing makes it lose an answer, and no rollout has to be         *)
(* interrupted.                                                              *)

PoolFairness ==
    /\ \A r \in Rollouts :
          /\ WF_poolVars(Arrive(r))
          /\ WF_poolVars(Acquired(r))
          /\ WF_poolVars(CreateReturns(r))
          /\ WF_poolVars(BackoffEnds(r))
          /\ WF_poolVars(StartClose(r))
          /\ WF_poolVars(DeleteReturns(r))
    /\ \A s \in Sandboxes : WF_poolVars(PlatformCreates(s) \/ PlatformDeletes(s))

FairPoolSpec == PoolSpec /\ PoolFairness

-----------------------------------------------------------------------------
(* Properties *)

\* The types of the semaphore's and the runtimes' state.
PoolTypeOK ==
    /\ pc \in [Rollouts -> Places]
    /\ attempt \in [Rollouts -> 1 .. MaxAttempts]
    /\ permits \in Nat
    /\ queue \in Seq(Rollouts)
    /\ granted \subseteq Rollouts
    /\ held \subseteq Sandboxes
    /\ open \subseteq Sandboxes
    /\ closed \subseteq Sandboxes
    /\ requested \subseteq Sandboxes
    /\ platform \subseteq Sandboxes
    /\ dying \subseteq Sandboxes
    /\ faults \in Nat

\* No permit is lost and none is made: those that are free, those handed to
\* a waiter that has not run yet and those of the rollouts between acquire
\* and release are max_in_flight, through every failure, retry, timeout and
\* cancellation of create and close (limits.py, create and close).
PermitsAccounted ==
    permits + Cardinality(granted) + Cardinality(Holders) = MaxInFlight

\* What the runtime tracks is what rollouts use: an id is held exactly while
\* its rollout runs or closes, and recorded open exactly while it runs, so a
\* process whose rollouts have all ended holds nothing and reports nothing
\* leaked, however they ended (limits.py in_flight, daytona.py
\* leaked_sandbox_ids).
TrackedWhileUsed ==
    /\ held = {Sandbox(r) : r \in {q \in Rollouts : pc[q] \in {"running", "deleting"}}}
    /\ open = {Sandbox(r) : r \in {q \in Rollouts : pc[q] = "running"}}

\* The stack of runtimes is a limiter: at no time are more than MaxInFlight
\* rollouts between acquire and release, and none comes back.
Stage == [r \in Rollouts |->
            IF r \in Holders THEN "inside"
            ELSE IF pc[r] = "done" THEN "gone" ELSE "outside"]

Limiter == INSTANCE SandboxLimiter WITH stage <- Stage

ImplementsLimiter == Limiter!LimiterSpec

\* Every rollout ends, those that queue for a permit included: no permit is
\* lost on the way of another rollout, and no wakeup.
EveryRolloutEnds == \A r \in Rollouts : <>(pc[r] = "done")

\* IMPLEMENTATION_PLAN.md:22 says "sandbox always cleans up": once every
\* rollout has ended and the platform has nothing left to do, no sandbox
\* lives.  Stated for a platform that loses no answer.
SandboxAlwaysCleansUp ==
    /\ faults = 0
    /\ \A r \in Rollouts : pc[r] = "done"
    /\ requested = {}
    /\ platform \cap dying = {}
    => platform = {}
=============================================================================
