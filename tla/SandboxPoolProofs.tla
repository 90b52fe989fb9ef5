-------------------------- MODULE SandboxPoolProofs --------------------------
(***************************************************************************)
(* What the stack of runtimes guarantees for any number of rollouts, any   *)
(* max_in_flight, any number of attempts and of lost answers; and what the *)
(* same rollouts tell of themselves: FailureIsTold, CountedOnce,           *)
(* StepIsBatch and TimelineIsWhole of RunTelemetry, for any number of      *)
(* batches and a ring of any size.                                         *)
(***************************************************************************)
EXTENDS SandboxPool, RunTelemetry, FiniteSetTheorems, SequenceTheorems, TLAPS

Entries(q) == {q[i] : i \in 1 .. Len(q)}

Distinct(q) == \A i, j \in 1 .. Len(q) : q[i] = q[j] => i = j

\* The strengthening of the types that the accounting of permits rests on: the
\* semaphore lists rollouts that stand at acquire, each once.
SemaphoreShape ==
    /\ Distinct(queue)
    /\ \A r \in Entries(queue) \cup granted : pc[r] = "acquiring"
    /\ Entries(queue) \cap granted = {}

PoolShape == PoolTypeOK /\ SemaphoreShape

\* A rollout that backs off has an attempt left.
AttemptsBounded ==
    /\ pc \in [Rollouts -> Places]
    /\ attempt \in [Rollouts -> 1 .. MaxAttempts]
    /\ \A r \in Rollouts : pc[r] = "backoff" => attempt[r] < MaxAttempts

-----------------------------------------------------------------------------
(* The queue of the semaphore, as data *)

\* The first k waiters of a queue are k rollouts, none of them already woken.
LEMMA WokenCounted ==
    ASSUME NEW q \in Seq(Rollouts), Distinct(q),
           NEW g \in SUBSET Rollouts, Entries(q) \cap g = {},
           NEW k \in 0 .. Len(q)
    PROVE  /\ {q[i] : i \in 1 .. k} \subseteq Entries(q)
           /\ Cardinality(g \cup {q[i] : i \in 1 .. k}) = Cardinality(g) + k
<1> DEFINE w == {q[i] : i \in 1 .. k}
           f == [i \in 1 .. k |-> q[i]]
<1>1. w \subseteq Entries(q) /\ w \subseteq Rollouts
  BY DEF Entries
<1>2. f \in Bijection(1 .. k, w)
  <2>1. f \in [1 .. k -> w] /\ \A x \in w : \E i \in 1 .. k : f[i] = x
    OBVIOUS
  <2>2. \A i, j \in 1 .. k : f[i] = f[j] => i = j
    BY DEF Distinct
  <2> QED  BY <2>1, <2>2 DEF Bijection, Injection, Surjection, IsInjective
<1>3. IsFiniteSet(w) /\ Cardinality(w) = k
  <2>1. IsFiniteSet(1 .. k) /\ Cardinality(1 .. k) = k
    BY FS_Interval
  <2>2. ExistsBijection(1 .. k, w)
    BY <1>2 DEF ExistsBijection
  <2> HIDE DEF w, f
  <2> QED  BY <2>1, <2>2, FS_Bijection
<1>4. IsFiniteSet(g) /\ Cardinality(g) \in Nat
  BY RolloutsAssumption, FS_Subset, FS_CardinalityType
<1>5. g \cap w = {}
  BY <1>1
<1> HIDE DEF w
<1>6. Cardinality(g \cup w) = Cardinality(g) + k
  <2>1. Cardinality(g \cup w) = Cardinality(g) + Cardinality(w) - Cardinality(g \cap w)
    BY <1>3, <1>4, FS_Union
  <2>2. Cardinality(g \cap w) = 0
    BY <1>5, FS_EmptySet
  <2> QED  BY <2>1, <2>2, <1>3, <1>4
<1> QED  BY <1>1, <1>6 DEF w

\* What is left of the queue lists the other waiters, each once.
LEMMA RestOfQueue ==
    ASSUME NEW q \in Seq(Rollouts), Distinct(q), NEW k \in 0 .. Len(q)
    PROVE  LET rest == SubSeq(q, k + 1, Len(q))
           IN  /\ rest \in Seq(Rollouts)
               /\ Distinct(rest)
               /\ Entries(rest) \subseteq Entries(q)
               /\ Entries(rest) \cap {q[i] : i \in 1 .. k} = {}
<1> DEFINE rest == SubSeq(q, k + 1, Len(q))
<1>1. rest \in Seq(Rollouts) /\ Len(rest) = Len(q) - k
  OBVIOUS
<1>2. \A i \in 1 .. Len(rest) : rest[i] = q[k + i] /\ k + i \in 1 .. Len(q)
  BY <1>1
<1> HIDE DEF rest
<1>3. Distinct(rest)
  <2> SUFFICES ASSUME NEW i \in 1 .. Len(rest), NEW j \in 1 .. Len(rest),
                      rest[i] = rest[j]
               PROVE  i = j
    BY DEF Distinct
  <2>1. q[k + i] = q[k + j] /\ k + i \in 1 .. Len(q) /\ k + j \in 1 .. Len(q)
    BY <1>2
  <2>2. k + i = k + j
    BY <2>1 DEF Distinct
  <2> QED  BY <2>2
<1>4. Entries(rest) \subseteq Entries(q)
  BY <1>2 DEF Entries
<1>5. Entries(rest) \cap {q[i] : i \in 1 .. k} = {}
  <2> SUFFICES ASSUME NEW i \in 1 .. Len(rest), NEW j \in 1 .. k, rest[i] = q[j]
               PROVE  FALSE
    BY DEF Entries
  <2>1. q[k + i] = q[j] /\ k + i \in 1 .. Len(q) /\ j \in 1 .. Len(q)
    BY <1>2
  <2>2. k + i = j
    BY <2>1 DEF Distinct
  <2>3. i \in Nat /\ i >= 1 /\ j <= k
    BY <1>1
  <2> QED  BY <2>2, <2>3
<1> QED  BY <1>1, <1>3, <1>4, <1>5 DEF rest

\* A waiter that leaves the middle of the queue leaves the others in it.
LEMMA QueueWithoutEntry ==
    ASSUME NEW q \in Seq(Rollouts), Distinct(q), NEW i \in 1 .. Len(q)
    PROVE  LET rest == WithoutEntry(q, i)
           IN  /\ rest \in Seq(Rollouts)
               /\ Distinct(rest)
               /\ Entries(rest) \subseteq Entries(q) \ {q[i]}
<1> DEFINE before == SubSeq(q, 1, i - 1)
           after == SubSeq(q, i + 1, Len(q))
           rest == WithoutEntry(q, i)
<1>a. /\ before \in Seq(Rollouts) /\ Len(before) = i - 1
      /\ \A j \in 1 .. i - 1 : before[j] = q[j]
  OBVIOUS
<1>b. /\ after \in Seq(Rollouts) /\ Len(after) = Len(q) - i
      /\ \A j \in 1 .. Len(q) - i : after[j] = q[i + j]
  OBVIOUS
<1>c. rest = before \o after
  BY DEF WithoutEntry
<1> HIDE DEF before, after, rest
<1>1. rest \in Seq(Rollouts) /\ Len(rest) = Len(q) - 1
  BY <1>a, <1>b, <1>c
<1>2. ASSUME NEW j \in 1 .. Len(rest)
      PROVE  /\ j < i => rest[j] = q[j]
             /\ j >= i => rest[j] = q[j + 1]
  <2>1. CASE j < i
    <3>1. rest[j] = before[j]
      BY <2>1, <1>a, <1>b, <1>c
    <3> QED  BY <3>1, <2>1, <1>a
  <2>2. CASE j >= i
    <3>1. j - (i - 1) \in 1 .. Len(q) - i
      BY <2>2, <1>1
    <3>2. rest[j] = after[j - (i - 1)]
      BY <2>2, <3>1, <1>1, <1>a, <1>b, <1>c
    <3>3. after[j - (i - 1)] = q[i + (j - (i - 1))] /\ i + (j - (i - 1)) = j + 1
      BY <3>1, <1>b
    <3> QED  BY <2>2, <3>2, <3>3
  <2> QED  BY <2>1, <2>2
<1>3. Distinct(rest)
  <2> SUFFICES ASSUME NEW a \in 1 .. Len(rest), NEW b \in 1 .. Len(rest),
                      rest[a] = rest[b]
               PROVE  a = b
    BY DEF Distinct
  <2> DEFINE Old(j) == IF j < i THEN j ELSE j + 1
  <2>1. /\ Old(a) \in 1 .. Len(q) /\ rest[a] = q[Old(a)]
        /\ Old(b) \in 1 .. Len(q) /\ rest[b] = q[Old(b)]
    BY <1>1, <1>2
  <2>2. Old(a) = Old(b)
    BY <2>1 DEF Distinct
  <2> QED  BY <2>2
<1>4. Entries(rest) \subseteq Entries(q) \ {q[i]}
  <2> SUFFICES ASSUME NEW j \in 1 .. Len(rest)
               PROVE  rest[j] \in Entries(q) /\ rest[j] # q[i]
    BY DEF Entries
  <2>1. PICK k \in 1 .. Len(q) : k # i /\ rest[j] = q[k]
    BY <1>1, <1>2
  <2> QED  BY <2>1 DEF Entries, Distinct
<1> QED  BY <1>1, <1>3, <1>4 DEF rest

-----------------------------------------------------------------------------
(* The semaphore in a step *)

\* A wakeup hands out k permits to k waiters: none is lost, none is doubled,
\* and nobody is listed who was not.
LEMMA WakeUpAccounts ==
    ASSUME PoolShape, NEW free \in Nat, NEW n \in Nat,
           NEW g \in SUBSET granted, WakeUp(free, n, g)
    PROVE  /\ permits' \in Nat
           /\ queue' \in Seq(Rollouts)
           /\ Distinct(queue')
           /\ granted' \in SUBSET Rollouts
           /\ Entries(queue') \cup granted' \subseteq Entries(queue) \cup g
           /\ Entries(queue') \cap granted' = {}
           /\ permits' + Cardinality(granted') = free + Cardinality(g)
<1> DEFINE k == Least(n, Least(free, Len(queue)))
           w == {queue[i] : i \in 1 .. k}
<1>1. /\ queue \in Seq(Rollouts) /\ Distinct(queue)
      /\ g \in SUBSET Rollouts /\ Entries(queue) \cap g = {}
  BY DEF PoolShape, PoolTypeOK, SemaphoreShape
<1>2. k \in 0 .. Len(queue) /\ free - k \in Nat
  BY <1>1 DEF Least
<1>3. /\ permits' = free - k
      /\ granted' = g \cup w
      /\ queue' = SubSeq(queue, k + 1, Len(queue))
  BY DEF WakeUp
<1> HIDE DEF k
<1>4. w \subseteq Entries(queue) /\ Cardinality(g \cup w) = Cardinality(g) + k
  BY <1>1, <1>2, WokenCounted
<1>5. /\ queue' \in Seq(Rollouts)
      /\ Distinct(queue')
      /\ Entries(queue') \subseteq Entries(queue)
      /\ Entries(queue') \cap w = {}
  BY <1>1, <1>2, <1>3, RestOfQueue
<1>6. Entries(queue) \subseteq Rollouts
  BY <1>1 DEF Entries
<1>7. Cardinality(g) \in Nat
  BY <1>1, RolloutsAssumption, FS_Subset, FS_CardinalityType
<1> HIDE DEF w
<1>8. permits' + Cardinality(granted') = free + Cardinality(g)
  BY <1>2, <1>3, <1>4, <1>7
<1> QED  BY <1>1, <1>2, <1>3, <1>4, <1>5, <1>6, <1>8

\* Release is such a wakeup, with one permit more ...
LEMMA ReleaseAccounts ==
    ASSUME PoolShape, Release
    PROVE  /\ permits' \in Nat
           /\ queue' \in Seq(Rollouts)
           /\ Distinct(queue')
           /\ granted' \in SUBSET Rollouts
           /\ Entries(queue') \cup granted' \subseteq Entries(queue) \cup granted
           /\ Entries(queue') \cap granted' = {}
           /\ permits' + Cardinality(granted') = permits + 1 + Cardinality(granted)
<1>1. permits + 1 \in Nat
  BY DEF PoolShape, PoolTypeOK
<1> QED  BY <1>1, WakeUpAccounts DEF Release

\* ... and a waiter that resumes is another, without it.
LEMMA ResumeAccounts ==
    ASSUME PoolShape, NEW r \in granted, NEW free \in Nat, Resume(r, free)
    PROVE  /\ permits' \in Nat
           /\ queue' \in Seq(Rollouts)
           /\ Distinct(queue')
           /\ granted' \in SUBSET Rollouts
           /\ Entries(queue') \cup granted' \subseteq (Entries(queue) \cup granted) \ {r}
           /\ Entries(queue') \cap granted' = {}
           /\ permits' + Cardinality(granted') + 1 = free + Cardinality(granted)
<1>1. Len(queue) \in Nat
  BY DEF PoolShape, PoolTypeOK
<1>2. /\ permits' \in Nat
      /\ queue' \in Seq(Rollouts)
      /\ Distinct(queue')
      /\ granted' \in SUBSET Rollouts
      /\ Entries(queue') \cup granted' \subseteq Entries(queue) \cup (granted \ {r})
      /\ Entries(queue') \cap granted' = {}
      /\ permits' + Cardinality(granted') = free + Cardinality(granted \ {r})
  BY <1>1, WakeUpAccounts DEF Resume
<1>3. r \notin Entries(queue)
  BY DEF PoolShape, SemaphoreShape
<1>4. IsFiniteSet(granted) /\ Cardinality(granted) \in Nat /\ IsFiniteSet(granted')
  BY <1>2, RolloutsAssumption, FS_Subset, FS_CardinalityType DEF PoolShape, PoolTypeOK
<1>5. Cardinality(granted \ {r}) = Cardinality(granted) - 1
  BY <1>4, FS_RemoveElement
<1>6. Cardinality(granted') \in Nat
  BY <1>4, FS_CardinalityType
<1> QED  BY <1>2, <1>3, <1>4, <1>5, <1>6

-----------------------------------------------------------------------------
(* The shape of the state *)

\* A step that changes no semaphore state keeps its shape when no waiter moves.
LEMMA WaitersStay ==
    ASSUME PoolShape, UNCHANGED semaphore,
           \A q \in Rollouts : pc[q] = "acquiring" => pc'[q] = "acquiring"
    PROVE  SemaphoreShape'
<1>1. queue' = queue /\ granted' = granted
  BY DEF semaphore
<1>2. Entries(queue) \subseteq Rollouts
  BY DEF PoolShape, PoolTypeOK, Entries
<1> QED  BY <1>1, <1>2 DEF PoolShape, PoolTypeOK, SemaphoreShape

\* A release keeps the shape when no waiter moves.
LEMMA WaitersStayOnRelease ==
    ASSUME PoolShape, Release,
           \A q \in Rollouts : pc[q] = "acquiring" => pc'[q] = "acquiring"
    PROVE  /\ SemaphoreShape'
           /\ permits' \in Nat /\ queue' \in Seq(Rollouts)
           /\ granted' \in SUBSET Rollouts
<1>1. Entries(queue) \subseteq Rollouts
  BY DEF PoolShape, PoolTypeOK, Entries
<1> QED  BY <1>1, ReleaseAccounts DEF PoolShape, PoolTypeOK, SemaphoreShape

\* The retries stop at the last attempt.
LEMMA AttemptsBoundedHolds == PoolSpec => []AttemptsBounded
<1>1. PoolInit => AttemptsBounded
  BY MaxAttemptsAssumption DEF PoolInit, AttemptsBounded, Places
<1>2. AttemptsBounded /\ [PoolNext]_poolVars => AttemptsBounded'
  <2> SUFFICES ASSUME AttemptsBounded, [PoolNext]_poolVars
               PROVE  AttemptsBounded'
    OBVIOUS
  <2>1. ASSUME NEW r \in Rollouts, NEW place \in Places \ {"backoff"},
               Goto(r, place), attempt' = attempt
        PROVE  AttemptsBounded'
    BY <2>1 DEF AttemptsBounded, Goto
  <2>2. ASSUME NEW r \in Rollouts, Retry(r) \/ GiveUp(r), attempt' = attempt
        PROVE  AttemptsBounded'
    BY <2>1, <2>2 DEF AttemptsBounded, Goto, Retry, GiveUp, Places
  <2>3. ASSUME NEW r \in Rollouts, RolloutStep(r)
        PROVE  AttemptsBounded'
    <3>1. CASE BackoffEnds(r)
      BY <3>1, MaxAttemptsAssumption DEF AttemptsBounded, BackoffEnds, Goto, Places
    <3>2. CASE CreateRefused(r) \/ CreateLost(r) \/ InterruptCreating(r)
      BY <3>2, <2>2 DEF CreateRefused, CreateLost, InterruptCreating
    <3>3. CASE Arrive(r) \/ Acquired(r) \/ CreateReturns(r) \/ StartClose(r)
      BY <3>3, <2>1 DEF Arrive, Acquired, CreateReturns, StartClose, Places
    <3>4. CASE DeleteReturns(r) \/ DeleteFails(r) \/ InterruptWaiting(r)
      BY <3>4, <2>1 DEF DeleteReturns, DeleteFails, EndClose, InterruptWaiting, Places
    <3> QED  BY <2>3, <3>1, <3>2, <3>3, <3>4 DEF RolloutStep
  <2>4. ASSUME NEW s \in Sandboxes, PlatformCreates(s) \/ PlatformDeletes(s)
        PROVE  AttemptsBounded'
    BY <2>4 DEF AttemptsBounded, PlatformCreates, PlatformDeletes
  <2>5. CASE UNCHANGED poolVars
    BY <2>5 DEF AttemptsBounded, poolVars
  <2> QED  BY <2>3, <2>4, <2>5 DEF PoolNext
<1>3. QED  BY <1>1, <1>2, PTL DEF PoolSpec

\* The shape holds in every state, however often answers are lost and rollouts
\* are interrupted.
LEMMA PoolShapeHolds == PoolSpec => []PoolShape
<1>1. PoolInit => PoolShape
  BY MaxInFlightAssumption, MaxAttemptsAssumption
  DEF PoolInit, PoolShape, PoolTypeOK, SemaphoreShape, Distinct, Entries, Places
<1>2. AttemptsBounded /\ PoolShape /\ [PoolNext]_poolVars => PoolShape'
  <2> SUFFICES ASSUME AttemptsBounded, PoolShape, [PoolNext]_poolVars
               PROVE  PoolShape'
    OBVIOUS
  <2>0. PoolTypeOK /\ SemaphoreShape
    BY DEF PoolShape
  <2>S. \A r \in Rollouts : Sandbox(r) \in Sandboxes
    BY <2>0 DEF PoolTypeOK, Sandbox, Sandboxes
  <2>G. ASSUME NEW r \in Rollouts, NEW place \in Places, Goto(r, place)
        PROVE  /\ pc' \in [Rollouts -> Places]
               /\ pc'[r] = place
               /\ \A q \in Rollouts \ {r} : pc'[q] = pc[q]
    BY <2>0, <2>G DEF PoolTypeOK, Goto
  <2>1. ASSUME NEW r \in Rollouts, Arrive(r)
        PROVE  PoolShape'
    <3>1. CASE Locked
      <4>1. Goto(r, "acquiring") /\ queue' = Append(queue, r)
        BY <3>1, <2>1 DEF Arrive
      <4>2. PoolTypeOK'
        BY <3>1, <4>1, <2>0, <2>1, <2>G
        DEF Arrive, PoolTypeOK, Places, records
      <4>3. r \notin Entries(queue) \cup granted
        BY <2>0, <2>1 DEF SemaphoreShape, Arrive
      <4>4. /\ Len(queue') = Len(queue) + 1 /\ queue'[Len(queue) + 1] = r
            /\ \A i \in 1 .. Len(queue) : queue'[i] = queue[i]
            /\ Len(queue) \in Nat
        BY <4>1, <2>0 DEF PoolTypeOK
      <4>5. Entries(queue') = Entries(queue) \cup {r}
        BY <4>4 DEF Entries
      <4>6. Distinct(queue')
        BY <2>0, <4>3, <4>4 DEF Entries, Distinct, SemaphoreShape
      <4>7. Entries(queue) \cup granted \subseteq Rollouts
        BY <2>0 DEF PoolTypeOK, Entries
      <4>8. pc'[r] = "acquiring" /\ \A q \in Rollouts \ {r} : pc'[q] = pc[q]
        BY <4>1, <2>G DEF Places
      <4> QED  BY <4>2, <4>3, <4>5, <4>6, <4>7, <4>8, <2>0, <2>1
               DEF PoolShape, SemaphoreShape, Arrive
    <3>2. CASE ~ Locked
      <4>1. Goto(r, "creating") /\ permits' = permits - 1 /\ permits # 0
        BY <3>2, <2>1 DEF Arrive, Locked
      <4>2. PoolTypeOK'
        BY <3>2, <4>1, <2>0, <2>1, <2>G, <2>S
        DEF Arrive, PoolTypeOK, Places, records
      <4>3. Entries(queue) = {} /\ granted' = {} /\ queue' = queue
        BY <3>2, <2>1 DEF Locked, Arrive, Entries
      <4> QED  BY <4>2, <4>3, <2>0 DEF PoolShape, SemaphoreShape
    <3> QED  BY <3>1, <3>2
  <2>2. ASSUME NEW r \in Rollouts, Acquired(r)
        PROVE  PoolShape'
    <3>1. r \in granted /\ Resume(r, permits) /\ permits \in Nat /\ Goto(r, "creating")
      BY <2>0, <2>2 DEF Acquired, PoolTypeOK
    <3>2. /\ permits' \in Nat
          /\ queue' \in Seq(Rollouts)
          /\ Distinct(queue')
          /\ granted' \in SUBSET Rollouts
          /\ Entries(queue') \cup granted' \subseteq (Entries(queue) \cup granted) \ {r}
          /\ Entries(queue') \cap granted' = {}
      BY <3>1, ResumeAccounts
    <3>3. PoolTypeOK'
      BY <3>1, <3>2, <2>0, <2>2, <2>G, <2>S DEF Acquired, PoolTypeOK, Places, records
    <3>4. Entries(queue) \cup granted \subseteq Rollouts
      BY <2>0 DEF PoolTypeOK, Entries
    <3>5. \A q \in Rollouts \ {r} : pc'[q] = pc[q]
      BY <3>1, <2>G DEF Places
    <3> QED  BY <3>2, <3>3, <3>4, <3>5, <2>0 DEF PoolShape, SemaphoreShape
  <2>3. ASSUME NEW r \in Rollouts, NEW place \in Places, Goto(r, place),
               pc[r] # "acquiring", UNCHANGED semaphore
        PROVE  SemaphoreShape'
    BY <2>3, <2>G, WaitersStay
  <2>4. ASSUME NEW r \in Rollouts, NEW place \in Places, Goto(r, place),
               pc[r] # "acquiring", Release
        PROVE  /\ SemaphoreShape'
               /\ permits' \in Nat /\ queue' \in Seq(Rollouts)
               /\ granted' \in SUBSET Rollouts
    BY <2>4, <2>G, WaitersStayOnRelease
  <2>5. ASSUME NEW r \in Rollouts, pc[r] # "acquiring", Retry(r) \/ GiveUp(r)
        PROVE  /\ SemaphoreShape'
               /\ permits' \in Nat /\ queue' \in Seq(Rollouts)
               /\ granted' \in SUBSET Rollouts
               /\ pc' \in [Rollouts -> Places]
    <3>1. CASE Retry(r)
      BY <3>1, <2>0, <2>3, <2>5, <2>G DEF Retry, Places, semaphore, PoolTypeOK
    <3>2. CASE GiveUp(r)
      BY <3>2, <2>4, <2>5, <2>G DEF GiveUp, Places
    <3> QED  BY <2>5, <3>1, <3>2
  <2>6. ASSUME NEW r \in Rollouts, pc[r] # "acquiring", EndClose(r)
        PROVE  /\ SemaphoreShape'
               /\ permits' \in Nat /\ queue' \in Seq(Rollouts)
               /\ granted' \in SUBSET Rollouts
               /\ pc' \in [Rollouts -> Places]
               /\ held' \subseteq Sandboxes
    <3>1. CASE Sandbox(r) \in held
      BY <3>1, <2>0, <2>4, <2>6, <2>G DEF EndClose, Places, PoolTypeOK
    <3>2. CASE Sandbox(r) \notin held
      BY <3>2, <2>0, <2>3, <2>6, <2>G DEF EndClose, Places, semaphore, PoolTypeOK
    <3> QED  BY <3>1, <3>2
  <2>7. ASSUME NEW r \in Rollouts, CreateReturns(r)
        PROVE  PoolShape'
    BY <2>0, <2>3, <2>7, <2>G, <2>S
    DEF CreateReturns, PoolShape, PoolTypeOK, Places, semaphore, outside
  <2>8. ASSUME NEW r \in Rollouts, CreateRefused(r)
        PROVE  PoolShape'
    BY <2>0, <2>5, <2>8 DEF CreateRefused, PoolShape, PoolTypeOK, records
  <2>9. ASSUME NEW r \in Rollouts, CreateLost(r)
        PROVE  PoolShape'
    BY <2>0, <2>5, <2>9 DEF CreateLost, PoolShape, PoolTypeOK, records, outside
  <2>10. ASSUME NEW r \in Rollouts, BackoffEnds(r)
         PROVE  PoolShape'
    <3>1. attempt[r] + 1 \in 1 .. MaxAttempts
      BY <2>10, MaxAttemptsAssumption DEF AttemptsBounded, BackoffEnds
    <3>2. attempt' \in [Rollouts -> 1 .. MaxAttempts] /\ requested' \subseteq Sandboxes
      BY <3>1, <2>0, <2>10 DEF BackoffEnds, PoolTypeOK, Sandboxes
    <3>3. Goto(r, "creating") /\ "creating" \in Places /\ pc[r] # "acquiring"
      BY <2>10 DEF BackoffEnds, Places
    <3>4. SemaphoreShape' /\ pc' \in [Rollouts -> Places]
      BY <3>3, <2>3, <2>10, <2>G DEF BackoffEnds
    <3> QED  BY <3>2, <3>4, <2>0, <2>10
             DEF BackoffEnds, PoolShape, PoolTypeOK, semaphore, records
  <2>11. ASSUME NEW r \in Rollouts, StartClose(r)
         PROVE  PoolShape'
    BY <2>0, <2>3, <2>11, <2>G, <2>S
    DEF StartClose, PoolShape, PoolTypeOK, Places, semaphore, outside
  <2>12. ASSUME NEW r \in Rollouts, DeleteReturns(r) \/ DeleteFails(r)
         PROVE  PoolShape'
    <3>1. pc[r] # "acquiring" /\ EndClose(r)
      BY <2>12 DEF DeleteReturns, DeleteFails
    <3>2. dying' \subseteq Sandboxes /\ faults' \in Nat
      BY <2>0, <2>12, <2>S DEF DeleteReturns, DeleteFails, PoolTypeOK
    <3> QED  BY <3>1, <3>2, <2>0, <2>6, <2>12
             DEF DeleteReturns, DeleteFails, PoolShape, PoolTypeOK
  <2>13. ASSUME NEW r \in Rollouts, InterruptWaiting(r)
         PROVE  PoolShape'
    <3>0. /\ Goto(r, "done") /\ pc' \in [Rollouts -> Places]
          /\ \A q \in Rollouts \ {r} : pc'[q] = pc[q]
      BY <2>13, <2>G DEF InterruptWaiting, Places
    <3>1. Entries(queue) \cup granted \subseteq Rollouts
      BY <2>0 DEF PoolTypeOK, Entries
    <3>2. CASE r \in granted
      <4>1. Resume(r, permits + 1) /\ permits + 1 \in Nat
        BY <3>2, <2>0, <2>13 DEF InterruptWaiting, PoolTypeOK
      <4>2. /\ permits' \in Nat
            /\ queue' \in Seq(Rollouts)
            /\ Distinct(queue')
            /\ granted' \in SUBSET Rollouts
            /\ Entries(queue') \cup granted' \subseteq (Entries(queue) \cup granted) \ {r}
            /\ Entries(queue') \cap granted' = {}
        BY <3>2, <4>1, ResumeAccounts
      <4>3. PoolTypeOK'
        BY <3>0, <4>2, <2>0, <2>13
        DEF InterruptWaiting, PoolTypeOK, records, outside
      <4> QED  BY <3>0, <3>1, <4>2, <4>3, <2>0 DEF PoolShape, SemaphoreShape
    <3>3. CASE r \notin granted
      <4>1. PICK i \in 1 .. Len(queue) :
              queue[i] = r /\ queue' = WithoutEntry(queue, i)
        BY <3>3, <2>0, <2>13 DEF InterruptWaiting, PoolTypeOK
      <4>2. permits' = permits /\ granted' = granted
        BY <3>3, <2>13 DEF InterruptWaiting
      <4>3. /\ queue' \in Seq(Rollouts)
            /\ Distinct(queue')
            /\ Entries(queue') \subseteq Entries(queue) \ {r}
        BY <4>1, <2>0, QueueWithoutEntry DEF PoolTypeOK, SemaphoreShape
      <4>4. PoolTypeOK'
        BY <3>0, <4>2, <4>3, <2>0, <2>13
        DEF InterruptWaiting, PoolTypeOK, records, outside
      <4> QED  BY <3>0, <3>1, <3>3, <4>2, <4>3, <4>4, <2>0
               DEF PoolShape, SemaphoreShape
    <3> QED  BY <3>2, <3>3
  <2>14. ASSUME NEW r \in Rollouts, InterruptCreating(r)
         PROVE  PoolShape'
    BY <2>0, <2>5, <2>14 DEF InterruptCreating, PoolShape, PoolTypeOK, records, outside
  <2>15. ASSUME NEW s \in Sandboxes, PlatformCreates(s) \/ PlatformDeletes(s)
         PROVE  PoolShape'
    <3>1. SemaphoreShape'
      BY <2>0, <2>15, WaitersStay DEF PlatformCreates, PlatformDeletes
    <3> QED  BY <3>1, <2>0, <2>15
             DEF PlatformCreates, PlatformDeletes, PoolShape, PoolTypeOK, semaphore, records
  <2>16. CASE UNCHANGED poolVars
    BY <2>0, <2>16 DEF poolVars, PoolShape, PoolTypeOK, SemaphoreShape
  <2> QED
    BY <2>1, <2>2, <2>7, <2>8, <2>9, <2>10, <2>11, <2>12, <2>13, <2>14, <2>15, <2>16
    DEF PoolNext, RolloutStep
<1>3. QED  BY <1>1, <1>2, AttemptsBoundedHolds, PTL DEF PoolSpec

\* The types of the semaphore's and the runtimes' state.
THEOREM PoolTypeCorrect == PoolSpec => []PoolTypeOK
<1>1. PoolShape => PoolTypeOK
  BY DEF PoolShape
<1>2. QED  BY <1>1, PoolShapeHolds, PTL

-----------------------------------------------------------------------------
(* What the runtimes track *)

\* A process whose rollouts have ended tracks nothing: an id is held exactly
\* while its rollout runs or closes, and open exactly while it runs.
THEOREM TrackedWhileUsedCorrect == PoolSpec => []TrackedWhileUsed
<1>1. PoolInit => TrackedWhileUsed
  BY DEF PoolInit, TrackedWhileUsed
<1>2. PoolShape /\ TrackedWhileUsed /\ [PoolNext]_poolVars => TrackedWhileUsed'
  <2> SUFFICES ASSUME PoolShape, TrackedWhileUsed, [PoolNext]_poolVars
               PROVE  TrackedWhileUsed'
    OBVIOUS
  <2>0. pc \in [Rollouts -> Places] /\ attempt \in [Rollouts -> 1 .. MaxAttempts]
    BY DEF PoolShape, PoolTypeOK
  <2>1. ASSUME NEW r \in Rollouts,
               NEW place \in Places \ {"running", "deleting"}, Goto(r, place),
               pc[r] \notin {"running", "deleting"},
               \A q \in Rollouts \ {r} : attempt'[q] = attempt[q],
               held' = held, open' = open
        PROVE  TrackedWhileUsed'
    BY <2>0, <2>1 DEF TrackedWhileUsed, Goto, Sandbox
  <2>2. ASSUME NEW r \in Rollouts, EndClose(r), pc[r] = "deleting",
               attempt' = attempt, open' = open
        PROVE  TrackedWhileUsed'
    <3>1. Sandbox(r) \in held
      BY <2>2 DEF TrackedWhileUsed
    <3>2. held' = held \ {Sandbox(r)} /\ pc' = [pc EXCEPT ![r] = "done"]
      BY <3>1, <2>2 DEF EndClose, Goto
    <3> QED  BY <3>2, <2>0, <2>2 DEF TrackedWhileUsed, Sandbox
  <2>3. ASSUME NEW r \in Rollouts, RolloutStep(r)
        PROVE  TrackedWhileUsed'
    <3>1. CASE CreateReturns(r)
      BY <3>1, <2>0 DEF CreateReturns, Goto, TrackedWhileUsed, Sandbox
    <3>2. CASE StartClose(r)
      BY <3>2, <2>0 DEF StartClose, Goto, TrackedWhileUsed, Sandbox
    <3>3. CASE DeleteReturns(r) \/ DeleteFails(r)
      BY <3>3, <2>2 DEF DeleteReturns, DeleteFails
    <3>4. CASE BackoffEnds(r)
      BY <3>4, <2>0, <2>1 DEF BackoffEnds, Places, records
    <3>5. CASE CreateRefused(r) \/ CreateLost(r) \/ InterruptCreating(r)
      BY <3>5, <2>0, <2>1
      DEF CreateRefused, CreateLost, InterruptCreating, Retry, GiveUp, Places, records
    <3>6. CASE Arrive(r) \/ Acquired(r) \/ InterruptWaiting(r)
      <4>1. pc[r] \in {"start", "acquiring"}
        BY <3>6 DEF Arrive, Acquired, InterruptWaiting, PoolShape, SemaphoreShape
      <4> QED  BY <4>1, <3>6, <2>0, <2>1
               DEF Arrive, Acquired, InterruptWaiting, Places, records
    <3> QED  BY <2>3, <3>1, <3>2, <3>3, <3>4, <3>5, <3>6 DEF RolloutStep
  <2>4. CASE (\E s \in Sandboxes : PlatformCreates(s) \/ PlatformDeletes(s))
             \/ UNCHANGED poolVars
    <3>1. UNCHANGED <<pc, attempt, held, open>>
      BY <2>4 DEF PlatformCreates, PlatformDeletes, poolVars, records
    <3> QED  BY <3>1 DEF TrackedWhileUsed, Sandbox
  <2> QED  BY <2>3, <2>4 DEF PoolNext
<1>3. QED  BY <1>1, <1>2, PoolShapeHolds, PTL DEF PoolSpec

-----------------------------------------------------------------------------
(* The permits *)

\* The numbers the accounting adds up.
LEMMA CountsAreNaturals ==
    ASSUME PoolShape
    PROVE  /\ permits \in Nat
           /\ Cardinality(granted) \in Nat
           /\ IsFiniteSet(Holders) /\ Cardinality(Holders) \in Nat
BY RolloutsAssumption, FS_Subset, FS_CardinalityType
DEF PoolShape, PoolTypeOK, Holders

\* A rollout that moves between places inside, or between places outside,
\* leaves the holders alone; one that passes the border adds or takes one.
LEMMA HoldersMove ==
    ASSUME PoolShape, NEW r \in Rollouts, NEW place \in Places, Goto(r, place)
    PROVE  Holders' = IF place \in {"creating", "backoff", "running", "deleting"}
                      THEN Holders \cup {r} ELSE Holders \ {r}
BY DEF PoolShape, PoolTypeOK, Holders, Goto

LEMMA OneHolderMore ==
    ASSUME PoolShape, NEW r \in Rollouts, pc[r] \in {"start", "acquiring"},
           Goto(r, "creating")
    PROVE  /\ Holders' = Holders \cup {r} /\ r \notin Holders
           /\ Cardinality(Holders') = Cardinality(Holders) + 1
<1>1. Holders' = Holders \cup {r} /\ r \notin Holders
  BY HoldersMove DEF Holders, Places
<1> QED  BY <1>1, CountsAreNaturals, FS_AddElement

LEMMA OneHolderLess ==
    ASSUME PoolShape, NEW r \in Rollouts, r \in Holders, Goto(r, "done")
    PROVE  /\ Holders' = Holders \ {r}
           /\ Cardinality(Holders') = Cardinality(Holders) - 1
<1>1. Holders' = Holders \ {r}
  BY HoldersMove DEF Places
<1> QED  BY <1>1, CountsAreNaturals, FS_RemoveElement

\* A rollout that ends with a release takes nothing with it.
LEMMA LeavingAccounts ==
    ASSUME PoolShape, PermitsAccounted, NEW r \in Rollouts, r \in Holders,
           Goto(r, "done"), Release
    PROVE  PermitsAccounted'
<1>1. permits' + Cardinality(granted') = permits + 1 + Cardinality(granted)
  BY ReleaseAccounts
<1>2. Cardinality(Holders') = Cardinality(Holders) - 1
  BY OneHolderLess
<1>3. permits' \in Nat /\ IsFiniteSet(granted') /\ Cardinality(granted') \in Nat
  BY ReleaseAccounts, RolloutsAssumption, FS_Subset, FS_CardinalityType
<1> QED  BY <1>1, <1>2, <1>3, CountsAreNaturals DEF PermitsAccounted

\* A step that keeps the rollout inside and the semaphore as it is.
LEMMA StayingAccounts ==
    ASSUME PoolShape, PermitsAccounted, NEW r \in Rollouts, r \in Holders,
           NEW place \in {"creating", "backoff", "running", "deleting"},
           Goto(r, place), UNCHANGED semaphore
    PROVE  Holders' = Holders /\ PermitsAccounted'
<1>1. Holders' = Holders
  BY HoldersMove DEF Places
<1> QED  BY <1>1 DEF PermitsAccounted, semaphore

\* Permits are neither lost nor made: free, handed over and in use, they are
\* max_in_flight after every failure, retry, timeout and cancellation.
THEOREM PermitsAccountedCorrect == PoolSpec => []PermitsAccounted
<1>1. PoolInit => PermitsAccounted
  <2> SUFFICES ASSUME PoolInit
               PROVE  PermitsAccounted
    OBVIOUS
  <2>1. Holders = {} /\ granted = {} /\ permits = MaxInFlight
    BY DEF PoolInit, Holders
  <2> QED  BY <2>1, FS_EmptySet, MaxInFlightAssumption DEF PermitsAccounted
<1>2. PoolShape /\ TrackedWhileUsed /\ PermitsAccounted /\ [PoolNext]_poolVars
        => PermitsAccounted'
  <2> SUFFICES ASSUME PoolShape, TrackedWhileUsed, PermitsAccounted, [PoolNext]_poolVars
               PROVE  PermitsAccounted'
    OBVIOUS
  <2>1. ASSUME NEW r \in Rollouts, Arrive(r)
        PROVE  PermitsAccounted'
    <3>1. CASE Locked
      <4>1. Holders' = Holders \ {r} /\ r \notin Holders
        BY <3>1, <2>1, HoldersMove DEF Arrive, Holders, Places
      <4> QED  BY <3>1, <4>1, <2>1 DEF Arrive, PermitsAccounted
    <3>2. CASE ~ Locked
      <4>1. permits' = permits - 1 /\ granted' = granted /\ permits # 0
        BY <3>2, <2>1 DEF Arrive, Locked
      <4>2. Cardinality(Holders') = Cardinality(Holders) + 1
        BY <3>2, <2>1, OneHolderMore DEF Arrive
      <4> QED  BY <4>1, <4>2, CountsAreNaturals DEF PermitsAccounted
    <3> QED  BY <3>1, <3>2
  <2>2. ASSUME NEW r \in Rollouts, Acquired(r)
        PROVE  PermitsAccounted'
    <3>1. r \in granted /\ pc[r] = "acquiring" /\ Resume(r, permits)
      BY <2>2 DEF Acquired, PoolShape, SemaphoreShape
    <3>2. /\ permits' + Cardinality(granted') + 1 = permits + Cardinality(granted)
          /\ permits' \in Nat /\ granted' \in SUBSET Rollouts
      BY <3>1, CountsAreNaturals, ResumeAccounts
    <3>3. Cardinality(Holders') = Cardinality(Holders) + 1
      BY <3>1, <2>2, OneHolderMore DEF Acquired
    <3>4. Cardinality(granted') \in Nat
      BY <3>2, RolloutsAssumption, FS_Subset, FS_CardinalityType
    <3> QED  BY <3>2, <3>3, <3>4, CountsAreNaturals DEF PermitsAccounted
  <2>3. ASSUME NEW r \in Rollouts, CreateReturns(r) \/ BackoffEnds(r) \/ StartClose(r)
        PROVE  PermitsAccounted'
    BY <2>3, StayingAccounts DEF CreateReturns, BackoffEnds, StartClose, Holders
  <2>4. ASSUME NEW r \in Rollouts, r \in Holders, Retry(r) \/ GiveUp(r)
        PROVE  PermitsAccounted'
    BY <2>4, StayingAccounts, LeavingAccounts DEF Retry, GiveUp
  <2>5. ASSUME NEW r \in Rollouts,
               CreateRefused(r) \/ CreateLost(r) \/ InterruptCreating(r)
        PROVE  PermitsAccounted'
    BY <2>4, <2>5 DEF CreateRefused, CreateLost, InterruptCreating, Holders
  <2>6. ASSUME NEW r \in Rollouts, DeleteReturns(r) \/ DeleteFails(r)
        PROVE  PermitsAccounted'
    <3>1. pc[r] = "deleting" /\ EndClose(r)
      BY <2>6 DEF DeleteReturns, DeleteFails
    <3>2. Sandbox(r) \in held /\ r \in Holders
      BY <3>1 DEF TrackedWhileUsed, Holders
    <3> QED  BY <3>1, <3>2, LeavingAccounts DEF EndClose
  <2>7. ASSUME NEW r \in Rollouts, InterruptWaiting(r)
        PROVE  PermitsAccounted'
    <3>1. Holders' = Holders
      BY <2>7, HoldersMove DEF InterruptWaiting, Holders, Places
    <3>2. CASE r \in granted
      <4>1. Resume(r, permits + 1) /\ permits + 1 \in Nat
        BY <3>2, <2>7, CountsAreNaturals DEF InterruptWaiting
      <4>2. /\ permits' + Cardinality(granted') + 1 = permits + 1 + Cardinality(granted)
            /\ permits' \in Nat /\ granted' \in SUBSET Rollouts
        BY <3>2, <4>1, ResumeAccounts
      <4>3. Cardinality(granted') \in Nat
        BY <4>2, RolloutsAssumption, FS_Subset, FS_CardinalityType
      <4> QED  BY <3>1, <4>2, <4>3, CountsAreNaturals DEF PermitsAccounted
    <3>3. CASE r \notin granted
      BY <3>1, <3>3, <2>7 DEF InterruptWaiting, PermitsAccounted
    <3> QED  BY <3>2, <3>3
  <2>8. CASE (\E s \in Sandboxes : PlatformCreates(s) \/ PlatformDeletes(s))
             \/ UNCHANGED poolVars
    <3>1. UNCHANGED <<pc, permits, granted>>
      BY <2>8 DEF PlatformCreates, PlatformDeletes, poolVars, semaphore
    <3> QED  BY <3>1 DEF PermitsAccounted, Holders
  <2> QED  BY <2>1, <2>2, <2>3, <2>5, <2>6, <2>7, <2>8 DEF PoolNext, RolloutStep
<1>3. QED  BY <1>1, <1>2, PoolShapeHolds, TrackedWhileUsedCorrect, PTL DEF PoolSpec

-----------------------------------------------------------------------------
(* The limiter *)

\* The stack of runtimes implements the limiter: each rollout passes once, and
\* never more than max_in_flight are inside.
THEOREM ImplementsLimiterCorrect == PoolSpec => ImplementsLimiter
<1>1. PoolInit => Limiter!LimiterInit
  BY DEF PoolInit, Limiter!LimiterInit, Stage, Holders
<1>2. /\ PoolShape /\ PoolShape' /\ PermitsAccounted /\ PermitsAccounted'
      /\ [PoolNext]_poolVars
      => [Limiter!LimiterNext]_Stage
  <2> SUFFICES ASSUME PoolShape, PoolShape', PermitsAccounted, PermitsAccounted',
                      [PoolNext]_poolVars
               PROVE  [Limiter!LimiterNext]_Stage
    OBVIOUS
  <2>0. pc \in [Rollouts -> Places]
    BY DEF PoolShape, PoolTypeOK
  <2>1. Limiter!Inside = Holders
    BY DEF Limiter!Inside, Stage, Holders
  <2>2. ASSUME NEW r \in Rollouts, Goto(r, "creating"), pc[r] \in {"start", "acquiring"}
        PROVE  Limiter!Enter(r)
    <3>1. Cardinality(Holders) + 1 = Cardinality(Holders')
      BY <2>2, OneHolderMore, CountsAreNaturals
    <3>2. permits' \in Nat /\ Cardinality(granted') \in Nat /\ Cardinality(Holders') \in Nat
      BY RolloutsAssumption, FS_Subset, FS_CardinalityType
      DEF PoolShape, PoolTypeOK, Holders
    <3>3. Cardinality(Holders) < MaxInFlight
      BY <3>1, <3>2, CountsAreNaturals, MaxInFlightAssumption DEF PermitsAccounted
    <3>4. Stage[r] = "outside" /\ Stage' = [Stage EXCEPT ![r] = "inside"]
      BY <2>0, <2>2 DEF Stage, Holders, Goto
    <3>5. Limiter!Cardinality(Limiter!Inside) = Cardinality(Holders)
      BY <2>1 DEF Cardinality, Limiter!Cardinality
    <3> QED  BY <3>3, <3>4, <3>5 DEF Limiter!Enter
  <2>3. ASSUME NEW r \in Rollouts, Goto(r, "done"), pc[r] # "done"
        PROVE  Limiter!Leave(r)
    BY <2>0, <2>3 DEF Stage, Holders, Goto, Limiter!Leave
  <2>4. ASSUME NEW r \in Rollouts, r \in Holders,
               NEW place \in {"creating", "backoff", "running", "deleting"},
               Goto(r, place)
        PROVE  Stage' = Stage
    BY <2>0, <2>4 DEF Stage, Holders, Goto
  <2>5. ASSUME NEW r \in Rollouts, RolloutStep(r)
        PROVE  Limiter!Enter(r) \/ Limiter!Leave(r) \/ Stage' = Stage
    <3>1. CASE Arrive(r)
      <4>1. CASE Locked
        BY <3>1, <4>1, <2>0 DEF Arrive, Goto, Stage, Holders
      <4>2. CASE ~ Locked
        BY <3>1, <4>2, <2>2 DEF Arrive
      <4> QED  BY <4>1, <4>2
    <3>2. CASE Acquired(r)
      BY <3>2, <2>2 DEF Acquired, PoolShape, SemaphoreShape
    <3>3. CASE CreateReturns(r) \/ BackoffEnds(r) \/ StartClose(r)
      BY <3>3, <2>4 DEF CreateReturns, BackoffEnds, StartClose, Holders
    <3>4. CASE CreateRefused(r) \/ CreateLost(r) \/ InterruptCreating(r)
      <4>1. r \in Holders /\ pc[r] # "done" /\ (Goto(r, "backoff") \/ Goto(r, "done"))
        BY <3>4
        DEF CreateRefused, CreateLost, InterruptCreating, Retry, GiveUp, Holders
      <4> QED  BY <4>1, <2>3, <2>4
    <3>5. CASE DeleteReturns(r) \/ DeleteFails(r)
      BY <3>5, <2>3 DEF DeleteReturns, DeleteFails, EndClose
    <3>6. CASE InterruptWaiting(r)
      BY <3>6, <2>3 DEF InterruptWaiting
    <3> QED  BY <2>5, <3>1, <3>2, <3>3, <3>4, <3>5, <3>6 DEF RolloutStep
  <2>6. CASE (\E s \in Sandboxes : PlatformCreates(s) \/ PlatformDeletes(s))
             \/ UNCHANGED poolVars
    <3>1. pc' = pc
      BY <2>6 DEF PlatformCreates, PlatformDeletes, poolVars
    <3> QED  BY <3>1 DEF Stage, Holders
  <2> QED  BY <2>5, <2>6 DEF PoolNext, Limiter!LimiterNext
<1>3. QED
  BY <1>1, <1>2, PoolShapeHolds, PermitsAccountedCorrect, PTL
  DEF PoolSpec, ImplementsLimiter, Limiter!LimiterSpec

-----------------------------------------------------------------------------
(* What the same rollouts tell of themselves *)

SpanNames ==
  {"rollout", "sandbox.provision", "inference.generate", "sandbox.finalize", "reward.compute",
   "rollout.outcome"}
Spans == [name : SpanNames, told : BOOLEAN]
Midway == {"provision", "generate", "finalize", "finalize, raising", "reward"}
Stations == Midway \cup {"off", "ended"}
Statuses == {"running", "completed", "aborted"}

RolloutTyping ==
  /\ at \in [Rollouts -> Stations]
  /\ status \in [Rollouts -> Statuses]
  /\ raised \in [Rollouts -> BOOLEAN]
  /\ counted \in [Rollouts -> Nat]
  /\ stepOf \in [Rollouts -> Nat] /\ batchOf \in [Rollouts -> Nat]

TrackerTyping ==
  /\ inFlight \in Nat /\ step \in Nat /\ batch \in Nat \ {0}
  /\ longIdle \in BOOLEAN /\ misled \in BOOLEAN

ExportTyping == exported \in [Rollouts -> Seq(Spans)]

\* enter and exit meet for every rollout.
Flight == IsFiniteSet(Running) /\ inFlight = Cardinality(Running)

\* The batch that is collected has rollouts.
Begun == \E r \in Rollouts : batchOf[r] = batch

\* A batch that has begun has its step, and a pause in it is a short one; one that has
\* not is to get the next step from the pause before it.
Batches ==
  /\ \A r \in Rollouts : batchOf[r] <= batch /\ (at[r] = "off" <=> batchOf[r] = 0)
  /\ ~ misled =>
       /\ \A r \in Rollouts : at[r] # "off" => stepOf[r] = batchOf[r]
       /\ Begun => step = batch /\ (inFlight = 0 => ~ longIdle)
       /\ ~ Begun => step + 1 = batch /\ inFlight = 0 /\ (step > 0 => longIdle)

\* Spans a rollout has closed that went right so far.
Closed(place) ==
  CASE place = "generate" -> 1
    [] place = "finalize" -> 2
    [] place = "reward"   -> 4
    [] place = "ended"    -> 6
    [] OTHER              -> 0

Failing(r) ==
  Bad(status[r]) \/ (raised[r] /\ r \notin unseen) \/ at[r] = "finalize, raising"

\* One that ended outside every span stopped short of its last two.
Shown(r) == IF r \in unseen THEN 4 ELSE Closed(at[r])

\* What is exported tells of a failure as soon as there is one, and of no other.
Tells(r) ==
  /\ Told(r) <=> Failing(r)
  /\ ~ Told(r) => Len(exported[r]) = IF r \in sampled THEN Shown(r) ELSE 0
  /\ at[r] \in {"off", "provision", "generate"} => ~ Told(r)
  /\ at[r] # "ended" => ~ raised[r] /\ r \notin unseen

Uncounted == Span("sandbox.finalize", TRUE)

Counted(r) ==
  /\ at[r] \in {"off", "provision", "generate", "finalize"} => counted[r] = 0
  /\ at[r] \in {"finalize, raising", "reward"} => counted[r] = 1
  /\ at[r] = "ended" =>
       counted[r] = 1 \/ (counted[r] = 0 /\ Uncounted \in ToSet(exported[r]))

TelemetryInv ==
  /\ RolloutTyping /\ TrackerTyping /\ ExportTyping /\ Flight /\ Batches
  /\ \A r \in Rollouts : Tells(r) /\ Counted(r)
-----------------------------------------------------------------------------
(* What is exported of the spans a step closes *)

\* The sequence tells of a failure.
Telling(spans) == \E i \in DOMAIN spans : spans[i].told

LEMMA KeptOne ==
  ASSUME NEW r \in Rollouts, NEW s \in Spans, NEW kept, kept = Kept(r, s)
  PROVE  /\ kept \in Seq(Spans)
         /\ Len(kept) = IF s.told \/ r \in sampled THEN 1 ELSE 0
         /\ Telling(kept) <=> s.told
         /\ s.told => s \in ToSet(kept)
<1>1. CASE s.told \/ r \in sampled
  <2>1. kept = <<s>>
    BY <1>1 DEF Kept, KeepTrace
  <2>2. kept \in Seq(Spans) /\ Len(kept) = 1 /\ kept[1] = s /\ DOMAIN kept = {1}
    BY <2>1
  <2> QED  BY <1>1, <2>2 DEF Telling, ToSet
<1>2. CASE ~ s.told /\ r \notin sampled
  <2>1. kept = <<>>
    BY <1>2 DEF Kept, KeepTrace
  <2>2. kept \in Seq(Spans) /\ Len(kept) = 0 /\ DOMAIN kept = {}
    BY <2>1
  <2> QED  BY <1>2, <2>2 DEF Telling
<1> QED  BY <1>1, <1>2 DEF Spans

\* What joins two sequences of spans says.
LEMMA Joined ==
  ASSUME NEW a \in Seq(Spans), NEW b \in Seq(Spans)
  PROVE  /\ a \o b \in Seq(Spans) /\ Len(a \o b) = Len(a) + Len(b)
         /\ Telling(a \o b) <=> Telling(a) \/ Telling(b)
         /\ ToSet(a) \subseteq ToSet(a \o b) /\ ToSet(b) \subseteq ToSet(a \o b)
<1>1. PICK c : c = a \o b
  OBVIOUS
<1>2. /\ c \in Seq(Spans) /\ Len(c) = Len(a) + Len(b) /\ Len(a) \in Nat /\ Len(b) \in Nat
      /\ \A i \in 1 .. Len(c) : c[i] = IF i <= Len(a) THEN a[i] ELSE b[i - Len(a)]
  BY <1>1
<1>3. DOMAIN a = 1 .. Len(a) /\ DOMAIN b = 1 .. Len(b) /\ DOMAIN c = 1 .. Len(c)
  BY <1>2
<1>4. \A i \in 1 .. Len(a) : i \in 1 .. Len(c) /\ c[i] = a[i]
  BY <1>2
<1>5. ASSUME NEW i \in 1 .. Len(b)
      PROVE  Len(a) + i \in 1 .. Len(c) /\ c[Len(a) + i] = b[i]
  <2>1. /\ Len(a) + i \in 1 .. Len(c) /\ ~ (Len(a) + i <= Len(a))
        /\ (Len(a) + i) - Len(a) = i
    BY <1>2
  <2> QED  BY <1>2, <2>1
<1>6. ASSUME NEW i \in 1 .. Len(c)
      PROVE  \/ i \in 1 .. Len(a) /\ c[i] = a[i]
             \/ (i - Len(a) \in 1 .. Len(b) /\ c[i] = b[i - Len(a)])
  BY <1>2
<1>7. Telling(c) <=> Telling(a) \/ Telling(b)
  <2>1. Telling(c) => Telling(a) \/ Telling(b)
    BY <1>3, <1>6 DEF Telling
  <2>2. Telling(a) => Telling(c)
    BY <1>3, <1>4 DEF Telling
  <2>3. Telling(b) => Telling(c)
    BY <1>3, <1>5 DEF Telling
  <2> QED  BY <2>1, <2>2, <2>3
<1>8. ToSet(a) \subseteq ToSet(c) /\ ToSet(b) \subseteq ToSet(c)
  BY <1>3, <1>4, <1>5 DEF ToSet
<1> QED  BY <1>1, <1>2, <1>7, <1>8

\* What a step leaves of the export.
Exports(r, told, spans) ==
  /\ exported' \in [Rollouts -> Seq(Spans)] /\ sampled' = sampled
  /\ \A q \in Rollouts \ {r} : exported'[q] = exported[q]
  /\ Told(r)' <=> Told(r) \/ told
  /\ ~ told => Len(exported'[r]) = Len(exported[r]) + IF r \in sampled THEN spans ELSE 0
  /\ ToSet(exported[r]) \subseteq ToSet(exported'[r])

LEMMA RecordedExports ==
  ASSUME ExportTyping, NEW r \in Rollouts, NEW new, NEW kept \in Seq(Spans), NEW running,
         Recorded(r, new, kept, running)
  PROVE  /\ exported' \in [Rollouts -> Seq(Spans)] /\ sampled' = sampled
         /\ \A q \in Rollouts \ {r} : exported'[q] = exported[q]
         /\ Told(r)' <=> Told(r) \/ Telling(kept)
         /\ Len(exported'[r]) = Len(exported[r]) + Len(kept)
         /\ ToSet(exported[r]) \subseteq ToSet(exported'[r])
         /\ ToSet(kept) \subseteq ToSet(exported'[r])
<1>1. exported' = [exported EXCEPT ![r] = exported[r] \o kept] /\ sampled' = sampled
  BY DEF Recorded
<1>2. exported[r] \in Seq(Spans)
  BY DEF ExportTyping
<1>3. PICK after : after = exported[r] \o kept
  OBVIOUS
<1>4. /\ after \in Seq(Spans) /\ Len(after) = Len(exported[r]) + Len(kept)
      /\ Telling(after) <=> Telling(exported[r]) \/ Telling(kept)
      /\ ToSet(exported[r]) \subseteq ToSet(after) /\ ToSet(kept) \subseteq ToSet(after)
  BY <1>2, <1>3, Joined
<1>5. /\ exported' \in [Rollouts -> Seq(Spans)] /\ exported'[r] = after
      /\ \A q \in Rollouts \ {r} : exported'[q] = exported[q]
  BY <1>1, <1>3, <1>4 DEF ExportTyping
<1>6. (Told(r) <=> Telling(exported[r])) /\ (Told(r)' <=> Telling(after))
  BY <1>5 DEF Told, Telling
<1> QED  BY <1>1, <1>4, <1>5, <1>6

LEMMA RecordExports ==
  ASSUME ExportTyping, NEW r \in Rollouts, NEW s \in Spans, NEW running,
         Record(r, s, running)
  PROVE  Exports(r, s.told, 1)
<1>1. PICK kept : kept = Kept(r, s)
  OBVIOUS
<1>2. PICK new : new = RecordSpan(mem, r, s)
  OBVIOUS
<1>3. Recorded(r, new, kept, running)
  BY <1>1, <1>2 DEF Record
<1>4. /\ kept \in Seq(Spans) /\ Len(kept) = IF s.told \/ r \in sampled THEN 1 ELSE 0
      /\ Telling(kept) <=> s.told
  BY <1>1, KeptOne
<1> QED  BY <1>3, <1>4, RecordedExports DEF Exports

LEMMA RecordBothExports ==
  ASSUME ExportTyping, NEW r \in Rollouts, NEW s \in Spans, NEW t \in Spans, NEW running,
         RecordBoth(r, s, t, running)
  PROVE  Exports(r, s.told \/ t.told, 2) /\ (s.told => s \in ToSet(exported'[r]))
<1>1. PICK first : first = Kept(r, s)
  OBVIOUS
<1>2. PICK second : second = Kept(r, t)
  OBVIOUS
<1>3. PICK kept : kept = first \o second
  OBVIOUS
<1>4. PICK new : new = RecordSpan(RecordSpan(mem, r, s), r, t)
  OBVIOUS
<1>5. Recorded(r, new, kept, running)
  BY <1>1, <1>2, <1>3, <1>4 DEF RecordBoth
<1>6. /\ first \in Seq(Spans) /\ Len(first) = IF s.told \/ r \in sampled THEN 1 ELSE 0
      /\ Telling(first) <=> s.told
      /\ s.told => s \in ToSet(first)
  BY <1>1, KeptOne
<1>7. /\ second \in Seq(Spans) /\ Len(second) = IF t.told \/ r \in sampled THEN 1 ELSE 0
      /\ Telling(second) <=> t.told
  BY <1>2, KeptOne
<1>8. /\ kept \in Seq(Spans) /\ Len(kept) = Len(first) + Len(second)
      /\ Telling(kept) <=> Telling(first) \/ Telling(second)
      /\ ToSet(first) \subseteq ToSet(kept)
  BY <1>3, <1>6, <1>7, Joined
<1>9. /\ exported' \in [Rollouts -> Seq(Spans)] /\ sampled' = sampled
      /\ \A q \in Rollouts \ {r} : exported'[q] = exported[q]
      /\ Told(r)' <=> Told(r) \/ Telling(kept)
      /\ Len(exported'[r]) = Len(exported[r]) + Len(kept)
      /\ ToSet(exported[r]) \subseteq ToSet(exported'[r])
      /\ ToSet(kept) \subseteq ToSet(exported'[r])
  BY <1>5, <1>8, RecordedExports
<1>10. ~ s.told /\ ~ t.told => Len(kept) = IF r \in sampled THEN 2 ELSE 0
  BY <1>6, <1>7, <1>8
<1>11. Telling(kept) <=> s.told \/ t.told
  BY <1>6, <1>7, <1>8
<1>12. s.told => s \in ToSet(exported'[r])
  BY <1>6, <1>8, <1>9
<1>13. Exports(r, s.told \/ t.told, 2)
  BY <1>9, <1>10, <1>11 DEF Exports
<1> QED  BY <1>12, <1>13
-----------------------------------------------------------------------------
(* The tracker *)

\* r comes from an await to another, or to its end.
LEMMA RunningStays ==
  ASSUME TelemetryInv, NEW r \in Rollouts, at[r] \in Midway, NEW to \in Midway, Goes(r, to)
  PROVE  Running' = Running
BY DEF TelemetryInv, RolloutTyping, Running, Goes, Midway, Stations

LEMMA RunningLeft ==
  ASSUME TelemetryInv, NEW r \in Rollouts, at[r] \in Midway, Goes(r, "ended")
  PROVE  /\ IsFiniteSet(Running') /\ inFlight \in Nat \ {0}
         /\ Cardinality(Running') = inFlight - 1
<1>1. Running' = Running \ {r} /\ r \in Running
  BY DEF TelemetryInv, RolloutTyping, Running, Goes, Midway, Stations
<1>2. IsFiniteSet(Running) /\ inFlight = Cardinality(Running) /\ inFlight \in Nat
  BY DEF TelemetryInv, Flight, TrackerTyping
<1>3. IsFiniteSet(Running \ {r}) /\ Cardinality(Running \ {r}) = Cardinality(Running) - 1
  BY <1>1, <1>2, FS_RemoveElement
<1>4. Cardinality(Running) # 0
  BY <1>1, <1>2, FS_EmptySet
<1> QED  BY <1>1, <1>2, <1>3, <1>4

\* A rollout that is under way belongs to a batch that has begun or is over.
LEMMA TrackerStays ==
  ASSUME TelemetryInv, NEW r \in Rollouts, at[r] \in Midway, NEW to \in Midway \cup {"ended"},
         Goes(r, to), UNCHANGED <<stepOf, batchOf>>,
         IF to = "ended" THEN Exit ELSE UNCHANGED trackerVars
  PROVE  TrackerTyping' /\ Flight' /\ Batches'
<1>1. at \in [Rollouts -> Stations] /\ Batches /\ TrackerTyping /\ Flight
  BY DEF TelemetryInv, RolloutTyping
<1>2. \A q \in Rollouts : at'[q] = "off" <=> at[q] = "off"
  BY <1>1 DEF Goes, Midway
<1>3. CASE to # "ended"
  <2>1. Running' = Running /\ UNCHANGED trackerVars
    BY <1>3, RunningStays
  <2>2. Flight'
    BY <1>1, <2>1 DEF Flight, trackerVars
  <2>3. TrackerTyping'
    BY <1>1, <2>1 DEF TrackerTyping, trackerVars
  <2>4. Batches'
    BY <1>1, <1>2, <2>1 DEF Batches, Begun, trackerVars
  <2> QED  BY <2>2, <2>3, <2>4
<1>4. CASE to = "ended"
  <2>1. /\ IsFiniteSet(Running') /\ inFlight \in Nat \ {0}
        /\ Cardinality(Running') = inFlight - 1 /\ inFlight' = inFlight - 1
        /\ longIdle' = (IF inFlight' = 0 THEN FALSE ELSE longIdle)
        /\ UNCHANGED <<step, batch, misled>>
    BY <1>4, RunningLeft DEF Exit
  <2>2. Flight'
    BY <2>1 DEF Flight
  <2>9. longIdle' \in BOOLEAN /\ misled' \in BOOLEAN
    BY <1>1, <2>1, Zenon DEF TrackerTyping
  <2>3. TrackerTyping'
    <3>1. inFlight' \in Nat /\ step' \in Nat /\ batch' \in Nat \ {0}
      BY <1>1, <2>1 DEF TrackerTyping
    <3> QED  BY <2>9, <3>1 DEF TrackerTyping
  <2>4. Begun' <=> Begun
    BY <2>1 DEF Begun
  <2>5. ~ misled => Begun
    BY <1>1, <2>1 DEF Batches
  <2>6. \A q \in Rollouts : batchOf'[q] <= batch' /\ (at'[q] = "off" <=> batchOf'[q] = 0)
    BY <1>1, <1>2, <2>1 DEF Batches
  <2>7. ~ misled' => \A q \in Rollouts : at'[q] # "off" => stepOf'[q] = batchOf'[q]
    BY <1>1, <1>2, <2>1 DEF Batches
  <2>8. inFlight' = 0 => ~ longIdle'
    BY <2>1
  <2> QED  BY <1>1, <2>1, <2>2, <2>3, <2>4, <2>5, <2>6, <2>7, <2>8 DEF Batches
<1> QED  BY <1>3, <1>4

\* A step of a rollout on its way.
LEMMA StepOfRollout ==
  ASSUME TelemetryInv, NEW r \in Rollouts, at[r] \in Midway, NEW to \in Midway \cup {"ended"},
         Goes(r, to), UNCHANGED <<stepOf, batchOf>>,
         IF to = "ended" THEN Exit ELSE UNCHANGED trackerVars,
         unseen' \in {unseen, unseen \cup {r}},
         status' \in [Rollouts -> Statuses], raised' \in [Rollouts -> BOOLEAN],
         counted' \in [Rollouts -> Nat],
         NEW told \in BOOLEAN, NEW n \in Nat, Exports(r, told, n),
         \A q \in Rollouts \ {r} :
           status'[q] = status[q] /\ raised'[q] = raised[q] /\ counted'[q] = counted[q],
         Tells(r)', Counted(r)'
  PROVE  TelemetryInv'
<1>1. TrackerTyping' /\ Flight' /\ Batches'
  BY TrackerStays
<1>2. /\ at' \in [Rollouts -> Stations] /\ \A q \in Rollouts \ {r} : at'[q] = at[q]
  BY DEF TelemetryInv, RolloutTyping, Goes, Stations
<1>3. RolloutTyping' /\ ExportTyping'
  BY <1>2 DEF TelemetryInv, RolloutTyping, ExportTyping, Exports
<1>4. ASSUME NEW q \in Rollouts, q # r
      PROVE  Tells(q)' /\ Counted(q)'
  <2>1. /\ at'[q] = at[q] /\ status'[q] = status[q] /\ raised'[q] = raised[q]
        /\ counted'[q] = counted[q] /\ exported'[q] = exported[q] /\ sampled' = sampled
    BY <1>2, <1>4 DEF Exports
  <2>2. Tells(q) /\ Counted(q)
    BY DEF TelemetryInv
  <2>3. Told(q)' <=> Told(q)
    BY <2>1 DEF Told
  <2>4. Tells(q)'
    BY <1>4, <2>1, <2>2, <2>3 DEF Tells, Failing, Shown, Closed, Bad
  <2>5. Counted(q)'
    BY <2>1, <2>2 DEF Counted, Uncounted, Span
  <2> QED  BY <2>4, <2>5
<1> QED  BY <1>1, <1>3, <1>4 DEF TelemetryInv

LEMMA ClosedAt ==
  /\ Closed("provision") = 0 /\ Closed("generate") = 1 /\ Closed("finalize") = 2
  /\ Closed("reward") = 4 /\ Closed("ended") = 6
BY DEF Closed

LEMMA Spanned ==
  ASSUME NEW name \in SpanNames, NEW told \in BOOLEAN
  PROVE  Span(name, told) \in Spans /\ Span(name, told).told = told
BY DEF Span, Spans

\* A step that tells of a failure, and one of a rollout that goes right.
LEMMA TellsFailure ==
  ASSUME TelemetryInv, NEW r \in Rollouts,
         NEW to \in {"finalize", "finalize, raising", "reward", "ended"},
         at[r] \in Midway, Goes(r, to), NEW n \in Nat, Exports(r, TRUE, n), Failing(r)',
         to # "ended" => raised' = raised, unseen' = unseen
  PROVE  Tells(r)'
<1>1. at'[r] = to /\ Tells(r) /\ ~ raised[r] /\ r \notin unseen
  BY DEF TelemetryInv, RolloutTyping, Goes, Midway, Tells
<1>2. Told(r)'
  BY DEF Exports
<1> QED  BY <1>1, <1>2 DEF Tells

LEMMA TellsFine ==
  ASSUME TelemetryInv, NEW r \in Rollouts, NEW to \in Midway \cup {"ended"},
         at[r] \in Midway, Goes(r, to), NEW n \in Nat, Exports(r, FALSE, n), unseen' = unseen,
         ~ Failing(r), ~ Failing(r)', Closed(to) = Closed(at[r]) + n
  PROVE  Tells(r)'
<1>1. at'[r] = to /\ Tells(r)
  BY DEF TelemetryInv, RolloutTyping, Goes
<1>2. ~ Told(r) /\ ~ Told(r)'
  BY <1>1 DEF Tells, Exports
<1>3. Len(exported'[r]) = IF r \in sampled THEN Closed(to) ELSE 0
  <2>1. /\ Len(exported[r]) = IF r \in sampled THEN Closed(at[r]) ELSE 0
        /\ Len(exported'[r]) = Len(exported[r]) + IF r \in sampled THEN n ELSE 0
    BY <1>1, <1>2 DEF Tells, Shown, Midway, Exports
  <2> QED  BY <2>1
<1>4. Shown(r)' = Closed(to) /\ sampled' = sampled /\ r \notin unseen'
  BY <1>1 DEF Tells, Shown, Closed, Midway, Exports
<1>5. ~ raised'[r]
  BY <1>4 DEF Failing
<1> QED  BY <1>1, <1>2, <1>3, <1>4, <1>5 DEF Tells

LEMMA Turned ==
  ASSUME TelemetryInv, NEW r \in Rollouts, NEW st \in Statuses, Turns(r, st)
  PROVE  /\ status' \in [Rollouts -> Statuses] /\ status'[r] = st
         /\ \A q \in Rollouts \ {r} : status'[q] = status[q]
BY DEF TelemetryInv, RolloutTyping, Turns

LEMMA OnceMore ==
  ASSUME TelemetryInv, NEW r \in Rollouts, Counts(r)
  PROVE  /\ counted' \in [Rollouts -> Nat] /\ counted'[r] = counted[r] + 1
         /\ \A q \in Rollouts \ {r} : counted'[q] = counted[q]
BY DEF TelemetryInv, RolloutTyping, Counts

LEMMA Ending ==
  ASSUME TelemetryInv, NEW r \in Rollouts, NEW raising \in BOOLEAN, Ends(r, raising)
  PROVE  /\ raised' \in [Rollouts -> BOOLEAN] /\ raised'[r] = raising
         /\ \A q \in Rollouts \ {r} : raised'[q] = raised[q]
         /\ Goes(r, "ended") /\ Exit
BY DEF TelemetryInv, RolloutTyping, Ends
-----------------------------------------------------------------------------
(* The steps of a rollout *)

LEMMA ProvisionStep ==
  ASSUME TelemetryInv, NEW r \in Rollouts,
         Provisioned(r) \/ ProvisionFails(r) \/ ProvisionCancelled(r),
         UNCHANGED unseen
  PROVE  TelemetryInv'
<1>1. /\ at[r] = "provision" /\ at[r] \in Midway /\ ~ Failing(r) /\ counted[r] = 0
      /\ ExportTyping /\ RolloutTyping
  BY DEF Provisioned, ProvisionFails, ProvisionCancelled, Midway, TelemetryInv, Tells, Counted
<1>2. /\ Span("sandbox.provision", FALSE) \in Spans /\ ~ Span("sandbox.provision", FALSE).told
      /\ Span("sandbox.provision", TRUE) \in Spans /\ Span("sandbox.provision", TRUE).told
      /\ RootSpan("aborted") \in Spans /\ RootBroken \in Spans
  BY Spanned DEF SpanNames, RootSpan, RootBroken, Bad
<1>3. CASE Provisioned(r)
  <2>1. Exports(r, FALSE, 1)
    BY <1>1, <1>2, <1>3, RecordExports DEF Provisioned, Exports
  <2>2. /\ Goes(r, "generate")
        /\ UNCHANGED <<trackerVars, status, raised, counted, stepOf, batchOf>>
    BY <1>3 DEF Provisioned
  <2>3. at'[r] = "generate"
    BY <1>1, <2>2 DEF RolloutTyping, Goes
  <2>4. ~ Failing(r)'
    <3>1. ~ raised[r]
      BY <1>1 DEF TelemetryInv, Tells
    <3> QED  BY <1>1, <2>2, <2>3, <3>1 DEF Failing, Bad
  <2>5. Tells(r)'
    <3>1. Closed("generate") = Closed(at[r]) + 1 /\ "generate" \in Midway \cup {"ended"}
      BY <1>1, ClosedAt DEF Midway
    <3> QED  BY <1>1, <2>1, <2>2, <2>4, <3>1, TellsFine
  <2>6. Counted(r)'
    BY <1>1, <2>2, <2>3 DEF Counted
  <2> QED  BY <1>1, <2>1, <2>2, <2>5, <2>6, StepOfRollout DEF Midway, RolloutTyping
<1>4. CASE ProvisionFails(r)
  <2>1. Exports(r, TRUE, 2)
    BY <1>1, <1>2, <1>4, RecordBothExports DEF ProvisionFails, Exports
  <2>2. /\ Goes(r, "reward") /\ Counts(r) /\ Turns(r, "aborted")
        /\ UNCHANGED <<trackerVars, raised, stepOf, batchOf>>
    BY <1>4 DEF ProvisionFails
  <2>3. at'[r] = "reward" /\ status'[r] = "aborted" /\ counted'[r] = 1
    BY <1>1, <2>2, Turned, OnceMore DEF RolloutTyping, Goes, Statuses
  <2>4. Failing(r)'
    BY <2>3 DEF Failing, Bad
  <2>5. Tells(r)'
    BY <1>1, <2>1, <2>2, <2>4, TellsFailure
  <2>6. Counted(r)'
    BY <2>3 DEF Counted
  <2> QED
    BY <1>1, <2>1, <2>2, <2>5, <2>6, Turned, OnceMore, StepOfRollout
       DEF Midway, RolloutTyping, Statuses
<1>5. CASE ProvisionCancelled(r)
  <2>1. Exports(r, TRUE, 2)
    BY <1>1, <1>2, <1>5, RecordBothExports DEF ProvisionCancelled, Exports
  <2>2. /\ Ends(r, TRUE) /\ Counts(r) /\ Turns(r, "aborted") /\ UNCHANGED <<stepOf, batchOf>>
    BY <1>5 DEF ProvisionCancelled
  <2>3. at'[r] = "ended" /\ status'[r] = "aborted" /\ counted'[r] = 1 /\ Goes(r, "ended")
    <3>1. counted'[r] = 1 /\ status'[r] = "aborted" /\ Goes(r, "ended")
      <4>1. counted'[r] = counted[r] + 1
        BY <2>2, OnceMore
      <4>2. status'[r] = "aborted"
        BY <2>2, Turned DEF Statuses
      <4>3. Goes(r, "ended")
        BY <2>2, Ending
      <4> QED  BY <1>1, <4>1, <4>2, <4>3
    <3> QED  BY <1>1, <3>1 DEF RolloutTyping, Goes
  <2>4. Failing(r)'
    BY <2>3 DEF Failing, Bad
  <2>5. Tells(r)'
    BY <1>1, <2>1, <2>3, <2>4, TellsFailure
  <2>6. Counted(r)'
    BY <2>3 DEF Counted
  <2> QED
    BY <1>1, <2>1, <2>2, <2>3, <2>5, <2>6, Turned, OnceMore, Ending, StepOfRollout DEF Statuses
<1> QED  BY <1>3, <1>4, <1>5

LEMMA GenerateStep ==
  ASSUME TelemetryInv, NEW r \in Rollouts,
         Generated(r) \/ GenerateFails(r) \/ GenerateCancelled(r), UNCHANGED unseen
  PROVE  TelemetryInv'
<1>1. /\ at[r] = "generate" /\ at[r] \in Midway /\ ~ Failing(r) /\ counted[r] = 0
      /\ ExportTyping /\ RolloutTyping
  BY DEF Generated, GenerateFails, GenerateCancelled, Midway, TelemetryInv, Tells, Counted
<1>2. /\ Span("inference.generate", FALSE) \in Spans /\ ~ Span("inference.generate", FALSE).told
      /\ Span("inference.generate", TRUE) \in Spans /\ Span("inference.generate", TRUE).told
  BY Spanned DEF SpanNames
<1>3. CASE Generated(r)
  <2>1. Exports(r, FALSE, 1)
    BY <1>1, <1>2, <1>3, RecordExports DEF Generated, Exports
  <2>2. /\ Goes(r, "finalize") /\ Turns(r, "completed")
        /\ UNCHANGED <<trackerVars, raised, counted, stepOf, batchOf>>
    BY <1>3 DEF Generated
  <2>3. at'[r] = "finalize" /\ status'[r] = "completed"
    BY <1>1, <2>2, Turned DEF RolloutTyping, Goes, Statuses
  <2>4. ~ Failing(r)'
    <3>1. ~ raised[r]
      BY <1>1 DEF TelemetryInv, Tells
    <3> QED  BY <2>2, <2>3, <3>1 DEF Failing, Bad
  <2>5. Tells(r)'
    <3>1. Closed("finalize") = Closed(at[r]) + 1 /\ "finalize" \in Midway \cup {"ended"}
      BY <1>1, ClosedAt DEF Midway
    <3> QED  BY <1>1, <2>1, <2>2, <2>4, <3>1, TellsFine
  <2>6. Counted(r)'
    BY <1>1, <2>2, <2>3 DEF Counted
  <2> QED
    BY <1>1, <2>1, <2>2, <2>5, <2>6, Turned, StepOfRollout DEF Midway, RolloutTyping, Statuses
<1>4. CASE GenerateFails(r)
  <2>1. Exports(r, TRUE, 1)
    BY <1>1, <1>2, <1>4, RecordExports DEF GenerateFails, Exports
  <2>2. /\ Goes(r, "finalize") /\ Turns(r, "aborted")
        /\ UNCHANGED <<trackerVars, raised, counted, stepOf, batchOf>>
    BY <1>4 DEF GenerateFails
  <2>3. at'[r] = "finalize" /\ status'[r] = "aborted"
    BY <1>1, <2>2, Turned DEF RolloutTyping, Goes, Statuses
  <2>4. Failing(r)'
    BY <2>3 DEF Failing, Bad
  <2>5. Tells(r)'
    BY <1>1, <2>1, <2>2, <2>4, TellsFailure
  <2>6. Counted(r)'
    BY <1>1, <2>2, <2>3 DEF Counted
  <2> QED
    BY <1>1, <2>1, <2>2, <2>5, <2>6, Turned, StepOfRollout DEF Midway, RolloutTyping, Statuses
<1>5. CASE GenerateCancelled(r)
  <2>1. Exports(r, TRUE, 1)
    BY <1>1, <1>2, <1>5, RecordExports DEF GenerateCancelled, Exports
  <2>2. /\ Goes(r, "finalize, raising") /\ Turns(r, "aborted") /\ Counts(r)
        /\ UNCHANGED <<trackerVars, raised, stepOf, batchOf>>
    BY <1>5 DEF GenerateCancelled
  <2>3. at'[r] = "finalize, raising" /\ status'[r] = "aborted" /\ counted'[r] = 1
    <3>1. counted'[r] = 1 /\ status'[r] = "aborted"
      <4>1. counted'[r] = counted[r] + 1
        BY <2>2, OnceMore
      <4>2. status'[r] = "aborted"
        BY <2>2, Turned DEF Statuses
      <4> QED  BY <1>1, <4>1, <4>2
    <3> QED  BY <1>1, <2>2, <3>1 DEF RolloutTyping, Goes
  <2>4. Failing(r)'
    BY <2>3 DEF Failing, Bad
  <2>5. Tells(r)'
    BY <1>1, <2>1, <2>2, <2>4, TellsFailure
  <2>6. Counted(r)'
    BY <2>3 DEF Counted
  <2> QED
    BY <1>1, <2>1, <2>2, <2>5, <2>6, Turned, OnceMore, StepOfRollout
       DEF Midway, RolloutTyping, Statuses
<1> QED  BY <1>3, <1>4, <1>5

LEMMA FinalizedStep ==
  ASSUME TelemetryInv, NEW r \in Rollouts, Finalized(r), UNCHANGED unseen
  PROVE  TelemetryInv'
<1>1. /\ at[r] = "finalize" /\ at[r] \in Midway /\ counted[r] = 0 /\ ~ raised[r]
      /\ ExportTyping /\ RolloutTyping
  BY DEF Finalized, Midway, TelemetryInv, Tells, Counted
<1>2. /\ Span("sandbox.finalize", FALSE) \in Spans /\ ~ Span("sandbox.finalize", FALSE).told
      /\ RootSpan(status[r]) \in Spans /\ RootSpan(status[r]).told = Bad(status[r])
  BY Spanned DEF SpanNames, RootSpan, Bad
<1>3. /\ Goes(r, "reward") /\ Counts(r)
      /\ UNCHANGED <<trackerVars, status, raised, stepOf, batchOf>>
  BY DEF Finalized
<1>4. at'[r] = "reward"
  BY <1>1, <1>3 DEF RolloutTyping, Goes
<1>5. Counted(r)'
  <2>1. counted'[r] = counted[r] + 1
    BY <1>3, OnceMore
  <2> QED  BY <1>1, <1>4, <2>1 DEF Counted
<1>6. CASE Bad(status[r])
  <2>1. Exports(r, TRUE, 2)
    BY <1>1, <1>2, <1>6, RecordBothExports DEF Finalized, Exports
  <2>2. Failing(r)'
    BY <1>3, <1>6 DEF Failing, Bad
  <2>3. Tells(r)'
    BY <1>1, <1>3, <2>1, <2>2, TellsFailure
  <2> QED
    BY <1>1, <1>3, <1>5, <2>1, <2>3, OnceMore, StepOfRollout DEF Midway, RolloutTyping
<1>7. CASE ~ Bad(status[r])
  <2>1. Exports(r, FALSE, 2)
    BY <1>1, <1>2, <1>7, RecordBothExports DEF Finalized, Exports
  <2>2. ~ Failing(r) /\ ~ Failing(r)'
    BY <1>1, <1>3, <1>4, <1>7 DEF Failing, Bad
  <2>3. Closed("reward") = Closed(at[r]) + 2 /\ "reward" \in Midway \cup {"ended"}
    BY <1>1, ClosedAt DEF Midway
  <2>4. Tells(r)'
    BY <1>1, <1>3, <2>1, <2>2, <2>3, TellsFine
  <2> QED
    BY <1>1, <1>3, <1>5, <2>1, <2>4, OnceMore, StepOfRollout DEF Midway, RolloutTyping
<1> QED  BY <1>6, <1>7

\* A rollout ends by raising, and the spans it closes say so.
LEMMA RaisingStep ==
  ASSUME TelemetryInv, NEW r \in Rollouts, at[r] \in Midway, Ends(r, TRUE),
         UNCHANGED <<status, counted, stepOf, batchOf, unseen>>,
         NEW n \in Nat, Exports(r, TRUE, n),
         counted[r] = 1 \/ (counted[r] = 0 /\ Uncounted \in ToSet(exported'[r]))
  PROVE  TelemetryInv'
<1>1. /\ raised' \in [Rollouts -> BOOLEAN] /\ raised'[r] = TRUE
      /\ \A q \in Rollouts \ {r} : raised'[q] = raised[q]
      /\ Goes(r, "ended") /\ Exit
  BY Ending
<1>2. at'[r] = "ended" /\ RolloutTyping /\ r \notin unseen
  BY <1>1 DEF TelemetryInv, RolloutTyping, Goes, Tells, Midway
<1>3. Failing(r)'
  BY <1>1, <1>2 DEF Failing
<1>4. Tells(r)'
  BY <1>1, <1>3, TellsFailure
<1>5. Counted(r)'
  BY <1>2 DEF Counted, Uncounted, Span
<1> QED  BY <1>1, <1>2, <1>4, <1>5, StepOfRollout DEF RolloutTyping

LEMMA FinalizeRaisesStep ==
  ASSUME TelemetryInv, NEW r \in Rollouts, FinalizedRaising(r) \/ FinalizeCancelled(r),
         UNCHANGED unseen
  PROVE  TelemetryInv'
<1>1. ExportTyping /\ RolloutTyping /\ Counted(r) /\ at[r] \in Midway
  BY DEF FinalizedRaising, FinalizeCancelled, Midway, TelemetryInv
<1>2. /\ Span("sandbox.finalize", FALSE) \in Spans
      /\ Uncounted \in Spans /\ Uncounted.told
      /\ RootBroken \in Spans /\ RootBroken.told
  BY Spanned DEF SpanNames, RootBroken, Uncounted
<1>3. Ends(r, TRUE) /\ UNCHANGED <<status, counted, stepOf, batchOf>>
  BY DEF FinalizedRaising, FinalizeCancelled
<1>4. CASE FinalizedRaising(r)
  <2>1. Exports(r, TRUE, 2)
    BY <1>1, <1>2, <1>4, RecordBothExports DEF FinalizedRaising, Exports
  <2>2. counted[r] = 1
    BY <1>1, <1>4 DEF FinalizedRaising, Counted
  <2> QED  BY <1>1, <1>3, <2>1, <2>2, RaisingStep
<1>5. CASE FinalizeCancelled(r)
  <2>1. Exports(r, TRUE, 2) /\ Uncounted \in ToSet(exported'[r])
    BY <1>1, <1>2, <1>5, RecordBothExports DEF FinalizeCancelled, Exports, Uncounted
  <2>2. counted[r] = 0 \/ counted[r] = 1
    BY <1>1, <1>5 DEF FinalizeCancelled, Counted
  <2> QED  BY <1>1, <1>3, <2>1, <2>2, RaisingStep
<1> QED  BY <1>4, <1>5

LEMMA RewardStep ==
  ASSUME TelemetryInv, NEW r \in Rollouts, Rewarded(r) \/ RewardFails(r),
         UNCHANGED unseen
  PROVE  TelemetryInv'
<1>1. /\ at[r] = "reward" /\ at[r] \in Midway /\ counted[r] = 1 /\ ~ raised[r]
      /\ ExportTyping /\ RolloutTyping
  BY DEF Rewarded, RewardFails, Midway, TelemetryInv, Tells, Counted
<1>2. /\ Span("reward.compute", FALSE) \in Spans /\ ~ Span("reward.compute", FALSE).told
      /\ Span("reward.compute", TRUE) \in Spans /\ Span("reward.compute", TRUE).told
      /\ Outcome(status[r]) \in Spans /\ Outcome(status[r]).told = Bad(status[r])
  BY Spanned DEF SpanNames, Outcome, Bad
<1>3. UNCHANGED <<status, counted, stepOf, batchOf>>
  BY DEF Rewarded, RewardFails
<1>4. CASE RewardFails(r)
  <2>1. Exports(r, TRUE, 1) /\ Ends(r, TRUE)
    BY <1>1, <1>2, <1>4, RecordExports DEF RewardFails, Exports
  <2> QED  BY <1>1, <1>3, <2>1, RaisingStep
<1>5. CASE Rewarded(r) /\ Bad(status[r])
  <2>1. Exports(r, TRUE, 2)
    BY <1>1, <1>2, <1>5, RecordBothExports DEF Rewarded, Exports
  <2>2. PICK raising \in BOOLEAN : Ends(r, raising)
    BY <1>5 DEF Rewarded
  <2>3. /\ raised' \in [Rollouts -> BOOLEAN]
        /\ \A q \in Rollouts \ {r} : raised'[q] = raised[q]
        /\ Goes(r, "ended") /\ Exit
    BY <2>2, Ending
  <2>4. at'[r] = "ended"
    BY <1>1, <2>3 DEF RolloutTyping, Goes
  <2>5. Failing(r)'
    BY <1>3, <1>5 DEF Failing, Bad
  <2>6. Tells(r)'
    BY <1>1, <2>1, <2>3, <2>5, TellsFailure
  <2>7. Counted(r)'
    BY <1>1, <1>3, <2>4 DEF Counted
  <2> QED  BY <1>1, <1>3, <2>1, <2>3, <2>6, <2>7, StepOfRollout DEF RolloutTyping
<1>6. CASE Rewarded(r) /\ ~ Bad(status[r])
  <2>1. Exports(r, FALSE, 2)
    BY <1>1, <1>2, <1>6, RecordBothExports DEF Rewarded, Exports
  <2>2. Ends(r, FALSE)
    BY <1>6 DEF Rewarded
  <2>3. /\ raised' \in [Rollouts -> BOOLEAN] /\ raised'[r] = FALSE
        /\ \A q \in Rollouts \ {r} : raised'[q] = raised[q]
        /\ Goes(r, "ended") /\ Exit
    BY <2>2, Ending
  <2>4. at'[r] = "ended"
    BY <1>1, <2>3 DEF RolloutTyping, Goes
  <2>5. ~ Failing(r) /\ ~ Failing(r)'
    BY <1>1, <1>3, <1>6, <2>3, <2>4 DEF Failing, Bad
  <2>6. Closed("ended") = Closed(at[r]) + 2
    BY <1>1, ClosedAt
  <2>7. Tells(r)'
    BY <1>1, <2>1, <2>3, <2>5, <2>6, TellsFine
  <2>8. Counted(r)'
    BY <1>1, <1>3, <2>4 DEF Counted
  <2> QED  BY <1>1, <1>3, <2>1, <2>3, <2>7, <2>8, StepOfRollout DEF RolloutTyping
<1> QED  BY <1>4, <1>5, <1>6
LEMMA HandOverStep ==
  ASSUME TelemetryInv, NEW r \in Rollouts, HandOverFails(r)
  PROVE  TelemetryInv'
<1>1. /\ at[r] = "reward" /\ at[r] \in Midway /\ counted[r] = 1 /\ ~ raised[r]
      /\ ExportTyping /\ RolloutTyping /\ Tells(r) /\ r \notin unseen
  BY DEF HandOverFails, Midway, TelemetryInv, Tells, Counted
<1>2. /\ UNCHANGED <<status, counted, stepOf, batchOf>> /\ unseen' = unseen \cup {r}
      /\ exported' = exported /\ sampled' = sampled /\ Ends(r, TRUE)
  BY DEF HandOverFails, storeVars
<1>3. /\ raised' \in [Rollouts -> BOOLEAN] /\ raised'[r] = TRUE
      /\ \A q \in Rollouts \ {r} : raised'[q] = raised[q]
      /\ Goes(r, "ended") /\ Exit
  BY <1>1, <1>2, Ending
<1>4. Told(r)' <=> Told(r)
  BY <1>2 DEF Told
<1>5. Exports(r, FALSE, 0)
  BY <1>1, <1>2, <1>4 DEF Exports, ExportTyping
<1>6. at'[r] = "ended"
  BY <1>1, <1>3 DEF RolloutTyping, Goes
<1>7. Failing(r)' <=> Failing(r)
  BY <1>1, <1>2, <1>6 DEF Failing, Bad
<1>8. Shown(r)' = Shown(r)
  BY <1>1, <1>2, ClosedAt DEF Shown
<1>9. Tells(r)'
  BY <1>1, <1>2, <1>4, <1>6, <1>7, <1>8 DEF Tells
<1>10. Counted(r)'
  BY <1>1, <1>2, <1>6 DEF Counted
<1> QED
  BY <1>1, <1>2, <1>3, <1>5, <1>9, <1>10, StepOfRollout DEF RolloutTyping
-----------------------------------------------------------------------------
(* The start of a rollout, and what the trainer does *)

LEMMA StartStep ==
  ASSUME TelemetryInv, NEW r \in Rollouts, Start(r),
         UNCHANGED unseen
  PROVE  TelemetryInv'
<1>1. /\ RolloutTyping /\ TrackerTyping /\ ExportTyping /\ Flight /\ Batches
      /\ Tells(r) /\ Counted(r) /\ at[r] = "off"
  BY DEF TelemetryInv, Start
<1>2. /\ at' = [at EXCEPT ![r] = "provision"]
      /\ stepOf' = [stepOf EXCEPT ![r] = step']
      /\ batchOf' = [batchOf EXCEPT ![r] = batch]
      /\ UNCHANGED <<storeVars, status, raised, counted>>
      /\ step' = (IF NewStep THEN step + 1 ELSE step) /\ inFlight' = inFlight + 1
      /\ UNCHANGED <<longIdle, batch, misled>>
  BY DEF Start, Enter
<1>3. step' \in Nat
  BY <1>1, <1>2 DEF TrackerTyping
<1>4. /\ at' \in [Rollouts -> Stations] /\ stepOf' \in [Rollouts -> Nat]
      /\ batchOf' \in [Rollouts -> Nat]
      /\ at'[r] = "provision" /\ stepOf'[r] = step' /\ batchOf'[r] = batch
      /\ \A q \in Rollouts \ {r} :
           at'[q] = at[q] /\ stepOf'[q] = stepOf[q] /\ batchOf'[q] = batchOf[q]
  BY <1>1, <1>2, <1>3 DEF RolloutTyping, TrackerTyping, Stations, Midway
<1>5. RolloutTyping' /\ ExportTyping'
  BY <1>1, <1>2, <1>4 DEF RolloutTyping, ExportTyping, storeVars
<1>6. TrackerTyping'
  <2>1. inFlight' \in Nat /\ batch' \in Nat \ {0}
    BY <1>1, <1>2 DEF TrackerTyping
  <2>2. longIdle' \in BOOLEAN /\ misled' \in BOOLEAN
    BY <1>1, <1>2, Zenon DEF TrackerTyping
  <2> QED  BY <1>3, <2>1, <2>2 DEF TrackerTyping
<1>7. Flight'
  <2>1. Running' = Running \cup {r} /\ r \notin Running
    BY <1>1, <1>4 DEF Running
  <2>2. /\ IsFiniteSet(Running \cup {r})
        /\ Cardinality(Running \cup {r}) = Cardinality(Running) + 1
    BY <1>1, <2>1, FS_AddElement DEF Flight
  <2> QED  BY <1>1, <1>2, <2>1, <2>2 DEF Flight
<1>8. Batches'
  <2>1. \A q \in Rollouts : batchOf'[q] <= batch' /\ (at'[q] = "off" <=> batchOf'[q] = 0)
    BY <1>1, <1>2, <1>4 DEF Batches, TrackerTyping
  <2>2. Begun'
    BY <1>2, <1>4 DEF Begun
  <2>3. ~ misled => step' = batch
    <3>1. CASE Begun
      BY <1>1, <1>2, <3>1 DEF Batches, NewStep, TrackerTyping
    <3>2. CASE ~ Begun
      BY <1>1, <1>2, <3>2 DEF Batches, NewStep, TrackerTyping
    <3> QED  BY <3>1, <3>2
  <2>4. ~ misled => \A q \in Rollouts : at'[q] # "off" => stepOf'[q] = batchOf'[q]
    BY <1>1, <1>4, <2>3 DEF Batches
  <2>5. inFlight' # 0
    BY <1>1, <1>2 DEF TrackerTyping
  <2> QED  BY <1>2, <2>1, <2>2, <2>3, <2>4, <2>5 DEF Batches
<1>9. ASSUME NEW q \in Rollouts
      PROVE  Tells(q)' /\ Counted(q)'
  <2>1. Tells(q) /\ Counted(q)
    BY DEF TelemetryInv
  <2>2. UNCHANGED <<exported, sampled, status, raised, counted>>
    BY <1>2 DEF storeVars
  <2>3. Told(q)' <=> Told(q)
    BY <2>2 DEF Told
  <2>4. CASE q # r
    <3>1. at'[q] = at[q]
      BY <1>4, <2>4
    <3>2. Tells(q)'
      BY <2>1, <2>2, <2>3, <3>1 DEF Tells, Failing, Bad, Shown, Closed
    <3>3. Counted(q)'
      BY <2>1, <2>2, <3>1 DEF Counted, Uncounted, Span
    <3> QED  BY <3>2, <3>3
  <2>5. CASE q = r
    <3>1. ~ Failing(r)' /\ ~ Told(r)'
      BY <1>1, <1>4, <2>2, <2>3, <2>5 DEF Tells, Failing, Bad
    <3>2. Shown(r)' = Shown(r)
      BY <1>1, <1>4 DEF Tells, Shown, Closed
    <3>3. Tells(r)'
      BY <1>1, <1>4, <2>2, <2>3, <2>5, <3>1, <3>2 DEF Tells
    <3>4. Counted(r)'
      BY <1>1, <1>4, <2>2 DEF Counted
    <3> QED  BY <2>5, <3>3, <3>4
  <2> QED  BY <2>4, <2>5
<1> QED  BY <1>5, <1>6, <1>7, <1>8, <1>9 DEF TelemetryInv

LEMMA RestStays ==
  ASSUME TelemetryInv, UNCHANGED <<storeVars, rolloutVars, unseen>>, TrackerTyping', Batches',
         inFlight' = inFlight
  PROVE  TelemetryInv'
<1>1. RolloutTyping' /\ ExportTyping'
  BY DEF TelemetryInv, RolloutTyping, ExportTyping, storeVars, rolloutVars
<1>2. Flight'
  BY DEF TelemetryInv, Flight, Running, rolloutVars
<1>3. ASSUME NEW q \in Rollouts
      PROVE  Tells(q)' /\ Counted(q)'
  <2>1. Tells(q) /\ Counted(q)
    BY DEF TelemetryInv
  <2>2. UNCHANGED <<exported, sampled, at, status, raised, counted, unseen>>
    BY DEF storeVars, rolloutVars
  <2>3. Told(q)' <=> Told(q)
    BY <2>2 DEF Told
  <2>4. Tells(q)'
    BY <2>1, <2>2, <2>3 DEF Tells, Failing, Bad, Shown, Closed
  <2>5. Counted(q)'
    BY <2>1, <2>2 DEF Counted, Uncounted, Span
  <2> QED  BY <2>4, <2>5
<1> QED  BY <1>1, <1>2, <1>3 DEF TelemetryInv

LEMMA TrackerStepInv ==
  ASSUME TelemetryInv, TrackerStep,
         UNCHANGED unseen
  PROVE  TelemetryInv'
<1>1. TrackerTyping /\ Batches /\ UNCHANGED <<storeVars, rolloutVars>>
  BY DEF TelemetryInv, TrackerStep
<1>2. UNCHANGED <<at, stepOf, batchOf>>
  BY <1>1 DEF rolloutVars
<1>3. CASE Train /\ Begun
  <2>1. PICK long \in BOOLEAN : longIdle' = (longIdle \/ long) /\ misled' = (misled \/ ~ long)
    BY <1>3 DEF Train
  <2>2. longIdle' \in BOOLEAN /\ misled' \in BOOLEAN
    BY <2>1, Zenon
  <2>3. /\ inFlight = 0 /\ step > 0 /\ batch' = batch + 1 /\ UNCHANGED <<inFlight, step>>
    BY <1>3 DEF Train
  <2>4. TrackerTyping'
    BY <1>1, <2>2, <2>3 DEF TrackerTyping
  <2>5. ~ misled' => ~ misled /\ longIdle'
    BY <2>1, Zenon
  <2>6. ~ Begun'
    BY <1>1, <1>2, <2>3 DEF Begun, Batches, TrackerTyping
  <2>7. Batches'
    <3>1. \A q \in Rollouts : batchOf'[q] <= batch' /\ (at'[q] = "off" <=> batchOf'[q] = 0)
      <4> SUFFICES ASSUME NEW q \in Rollouts
                   PROVE  batchOf[q] <= batch + 1 /\ (at[q] = "off" <=> batchOf[q] = 0)
        BY <1>2, <2>3
      <4>1. batchOf[q] \in Nat
        BY DEF TelemetryInv, RolloutTyping
      <4> QED  BY <1>1, <4>1 DEF Batches, TrackerTyping
    <3>2. ~ misled => step = batch /\ \A q \in Rollouts : at[q] # "off" => stepOf[q] = batchOf[q]
      BY <1>1, <1>3 DEF Batches
    <3> QED  BY <1>2, <2>3, <2>5, <2>6, <3>1, <3>2 DEF Batches
  <2> QED  BY <1>1, <2>3, <2>4, <2>7, RestStays
<1>4. CASE LongPause
  <2>1. longIdle' = TRUE /\ misled' = TRUE /\ UNCHANGED <<inFlight, step, batch>>
    BY <1>4 DEF LongPause
  <2>2. TrackerTyping'
    BY <1>1, <2>1 DEF TrackerTyping
  <2>3. Batches'
    BY <1>1, <1>2, <2>1 DEF Batches
  <2> QED  BY <1>1, <2>1, <2>2, <2>3, RestStays
<1> QED  BY <1>3, <1>4 DEF TrackerStep, Begun
-----------------------------------------------------------------------------
(* The invariant *)

LEMMA TelemetryInit == Init => TelemetryInv
<1> SUFFICES ASSUME Init PROVE TelemetryInv
  OBVIOUS
<1>1. RolloutTyping
  BY DEF Init, RolloutTyping, Stations, Statuses
<1>2. TrackerTyping
  <2>1. inFlight \in Nat /\ step \in Nat /\ batch \in Nat \ {0}
    BY DEF Init, TrackerInit
  <2>2. longIdle \in BOOLEAN /\ misled \in BOOLEAN
    BY Zenon DEF Init, TrackerInit
  <2> QED  BY <2>1, <2>2 DEF TrackerTyping
<1>3. ExportTyping
  <2>1. <<>> \in Seq(Spans)
    OBVIOUS
  <2> QED  BY <2>1 DEF Init, StoreInit, ExportTyping
<1>4. Flight
  <2>1. Running = {}
    BY DEF Init, Running
  <2> QED  BY <2>1, FS_EmptySet DEF Flight, Init, TrackerInit
<1>5. Batches
  BY DEF Init, TrackerInit, Batches, Begun
<1>6. ASSUME NEW r \in Rollouts
      PROVE  Tells(r) /\ Counted(r)
  <2>1. /\ at[r] = "off" /\ status[r] = "running" /\ raised[r] = FALSE /\ exported[r] = <<>>
    BY DEF Init, StoreInit
  <2>2. counted[r] = 0
    BY DEF Init
  <2>3. ~ Told(r)
    BY <2>1 DEF Told
  <2>4. Tells(r)
    BY <2>1, <2>3 DEF Init, Tells, Failing, Bad, Shown, Closed
  <2> QED  BY <2>1, <2>2, <2>4 DEF Counted
<1> QED  BY <1>1, <1>2, <1>3, <1>4, <1>5, <1>6 DEF TelemetryInv

LEMMA TelemetryNext == TelemetryInv /\ [Next]_vars => TelemetryInv'
<1> SUFFICES ASSUME TelemetryInv, [Next]_vars PROVE TelemetryInv'
  OBVIOUS
<1>1. ASSUME NEW r \in Rollouts, SeenStep(r), UNCHANGED unseen
      PROVE  TelemetryInv'
  BY <1>1, StartStep, ProvisionStep, GenerateStep, FinalizedStep, FinalizeRaisesStep, RewardStep
  DEF SeenStep
<1>4. ASSUME NEW r \in Rollouts, HandOverFails(r)
      PROVE  TelemetryInv'
  BY <1>4, HandOverStep
<1>2. CASE TrackerStep /\ UNCHANGED unseen
  BY <1>2, TrackerStepInv
<1>3. CASE UNCHANGED vars
  <2>1. UNCHANGED <<storeVars, rolloutVars, unseen>> /\ UNCHANGED trackerVars /\ inFlight' = inFlight
    BY <1>3 DEF vars, trackerVars
  <2>2. TrackerTyping'
    BY <2>1 DEF TelemetryInv, TrackerTyping, trackerVars
  <2>3. Batches'
    BY <2>1 DEF TelemetryInv, Batches, Begun, trackerVars, rolloutVars
  <2> QED  BY <2>1, <2>2, <2>3, RestStays
<1> QED  BY <1>1, <1>2, <1>3, <1>4 DEF Next

LEMMA TelemetryAlways == Spec => []TelemetryInv
BY TelemetryInit, TelemetryNext, PTL DEF Spec

\* However a rollout goes wrong but on the way to its reward function, and whatever the
\* sampling rate, what is exported of it tells of the failure; one that goes right is
\* exported whole or not at all, and one that fails on that way without its last two
\* spans (InMemoryTelemetryStore.record_span, RolloutRunner.run, generate).
THEOREM FailureIsToldCorrect == Spec => []FailureIsTold
<1>1. TelemetryInv => FailureIsTold
  <2> SUFFICES ASSUME TelemetryInv, NEW r \in Ended
               PROVE  IF Bad(status[r]) \/ (raised[r] /\ r \notin unseen) THEN Told(r)
                      ELSE Len(exported[r]) =
                             IF r \notin sampled THEN 0
                             ELSE IF r \in unseen THEN Len(Opened) - 2 ELSE Len(Opened)
    BY DEF FailureIsTold
  <2>1. r \in Rollouts /\ at[r] = "ended" /\ Tells(r)
    BY DEF TelemetryInv, Ended
  <2>2. Len(Opened) = 6 /\ Closed("ended") = 6
    BY ClosedAt DEF Opened
  <2> QED  BY <2>1, <2>2 DEF Tells, Failing, Shown
<1> QED  BY <1>1, TelemetryAlways, PTL

\* A rollout that has ended was counted once, unless its cancellation arrived while its
\* sandbox was closed (RolloutRunner.run, StoringMetrics).
THEOREM CountedOnceCorrect == Spec => []CountedOnce
<1>1. TelemetryInv => CountedOnce
  BY DEF TelemetryInv, Counted, CountedOnce, Ended, Uncounted
<1> QED  BY <1>1, TelemetryAlways, PTL

\* As long as trainings are longer than the gap and pauses within a batch shorter,
\* the step a rollout is labelled with is its batch, for any number of them
\* (RolloutBatchTracker.enter, exit).
THEOREM StepIsBatchCorrect == Spec => []StepIsBatch
<1>1. TelemetryInv => StepIsBatch
  BY DEF TelemetryInv, Batches, StepIsBatch
<1> QED  BY <1>1, TelemetryAlways, PTL
-----------------------------------------------------------------------------
(* The ring of spans: how many there are *)

SpanLists == [Rollouts -> Seq(Spans)]

LEMMA PlaceOf ==
  ASSUME NEW f \in SpanLists
  PROVE  /\ \A r \in Rollouts, i \in Nat : <<r, i>> \in SpanPlaces(f) <=> i \in 1 .. Len(f[r])
         /\ \A p \in SpanPlaces(f) : \E r \in Rollouts, i \in Nat : p = <<r, i>>
<1>1. \A r \in Rollouts : DOMAIN f[r] = 1 .. Len(f[r]) /\ Len(f[r]) \in Nat
  BY DEF SpanLists
<1> QED  BY <1>1 DEF SpanPlaces

LEMMA PlacesOfOne ==
  ASSUME NEW r, NEW n \in Nat
  PROVE  IsFiniteSet({r} \X (1 .. n)) /\ Cardinality({r} \X (1 .. n)) = n
<1>1. IsFiniteSet({r}) /\ Cardinality({r}) = 1
  BY FS_Singleton
<1>2. IsFiniteSet(1 .. n) /\ Cardinality(1 .. n) = n
  BY FS_Interval
<1>3. /\ IsFiniteSet({r} \X (1 .. n))
      /\ Cardinality({r} \X (1 .. n)) = Cardinality({r}) * Cardinality(1 .. n)
  BY <1>1, <1>2, FS_Product
<1> QED  BY <1>1, <1>2, <1>3

\* g differs from f in the spans of r.
LEMMA SpansOfOne ==
  ASSUME NEW f \in SpanLists, NEW g \in SpanLists, NEW r \in Rollouts,
         IsFiniteSet(SpanPlaces(f)),
         \A q \in Rollouts \ {r} : g[q] = f[q]
  PROVE  /\ IsFiniteSet(SpanPlaces(g)) /\ Cardinality(SpanPlaces(g)) \in Nat
         /\ Cardinality(SpanPlaces(g)) + Len(f[r]) = Cardinality(SpanPlaces(f)) + Len(g[r])
<1>1. Len(f[r]) \in Nat /\ Len(g[r]) \in Nat
  BY DEF SpanLists
<1>2. PICK kept : kept = {r} \X (1 .. Len(g[r]))
  OBVIOUS
<1>3. PICK all : all = {r} \X (1 .. Len(f[r]))
  OBVIOUS
<1>4. /\ IsFiniteSet(kept) /\ Cardinality(kept) = Len(g[r])
      /\ IsFiniteSet(all) /\ Cardinality(all) = Len(f[r])
  BY <1>1, <1>2, <1>3, PlacesOfOne
<1>5. all \subseteq SpanPlaces(f) /\ kept \subseteq SpanPlaces(g)
  <2>1. \A i \in 1 .. Len(f[r]) : <<r, i>> \in SpanPlaces(f)
    BY <1>1, PlaceOf
  <2>2. \A i \in 1 .. Len(g[r]) : <<r, i>> \in SpanPlaces(g)
    BY <1>1, PlaceOf
  <2> QED  BY <1>1, <1>2, <1>3, <2>1, <2>2
<1>6. SpanPlaces(g) \ kept = SpanPlaces(f) \ all
  <2>1. ASSUME NEW q \in Rollouts, NEW i \in Nat
        PROVE  <<q, i>> \in SpanPlaces(g) \ kept <=> <<q, i>> \in SpanPlaces(f) \ all
    <3>1. <<q, i>> \in SpanPlaces(g) <=> i \in 1 .. Len(g[q])
      BY PlaceOf
    <3>2. <<q, i>> \in SpanPlaces(f) <=> i \in 1 .. Len(f[q])
      BY PlaceOf
    <3>3. <<q, i>> \in kept <=> q = r /\ i \in 1 .. Len(g[r])
      BY <1>2
    <3>4. <<q, i>> \in all <=> q = r /\ i \in 1 .. Len(f[r])
      BY <1>3
    <3> QED  BY <3>1, <3>2, <3>3, <3>4
  <2>2. ASSUME NEW p
        PROVE  p \in SpanPlaces(g) \ kept <=> p \in SpanPlaces(f) \ all
    BY <2>1, PlaceOf
  <2> QED  BY <2>2
<1>7. PICK pf : pf = SpanPlaces(f)
  OBVIOUS
<1>8. PICK pg : pg = SpanPlaces(g)
  OBVIOUS
<1>9. IsFiniteSet(pf) /\ Cardinality(pf) \in Nat
  BY <1>7, FS_CardinalityType
<1>10. IsFiniteSet(pf \ all) /\ Cardinality(pf \ all) = Cardinality(pf) - Cardinality(all)
  <2>1. pf \cap all = all
    BY <1>5, <1>7
  <2>2. /\ IsFiniteSet(pf \ all)
        /\ Cardinality(pf \ all) = Cardinality(pf) - Cardinality(pf \cap all)
    BY <1>9, FS_Difference
  <2> QED  BY <2>1, <2>2
<1>11. IsFiniteSet(pg) /\ Cardinality(pg) \in Nat
  <2>1. pg = (pf \ all) \cup kept
    BY <1>5, <1>6, <1>7, <1>8
  <2>2. IsFiniteSet((pf \ all) \cup kept)
    BY <1>4, <1>10, FS_Union
  <2> QED  BY <2>1, <2>2, FS_CardinalityType
<1>12. Cardinality(pg \ kept) = Cardinality(pg) - Cardinality(kept)
  <2>1. pg \cap kept = kept
    BY <1>5, <1>8
  <2>2. Cardinality(pg \ kept) = Cardinality(pg) - Cardinality(pg \cap kept)
    BY <1>11, FS_Difference
  <2> QED  BY <2>1, <2>2
<1>13. pg \ kept = pf \ all
  BY <1>6, <1>7, <1>8
<1>14. Cardinality(pg) + Len(f[r]) = Cardinality(pf) + Len(g[r])
  <2>1. Cardinality(pg) - Cardinality(kept) = Cardinality(pf) - Cardinality(all)
    BY <1>10, <1>12, <1>13
  <2>2. PICK a, b, c, d \in Nat : /\ a = Cardinality(pg) /\ b = Cardinality(pf)
                                 /\ c = Cardinality(kept) /\ d = Cardinality(all)
    <3>1. Cardinality(kept) \in Nat /\ Cardinality(all) \in Nat
      BY <1>1, <1>4
    <3> QED  BY <1>9, <1>11, <3>1
  <2>3. a - c = b - d
    BY <2>1, <2>2
  <2>4. a + d = b + c
    BY <2>3
  <2>5. c = Len(g[r]) /\ d = Len(f[r])
    BY <1>4, <2>2
  <2> QED  BY <2>2, <2>4, <2>5
<1> QED  BY <1>7, <1>8, <1>11, <1>14

-----------------------------------------------------------------------------
(* The ring of spans: what its operators keep *)

\* The ids are those of the rollouts that have spans in the ring, each once.
RingShape(m) ==
  /\ m \in [spans : SpanLists, ids : Seq(Rollouts), dropped : Nat, skipped : Nat]
  /\ Distinct(m.ids)
  /\ \A r \in Rollouts : r \in Entries(m.ids) <=> m.spans[r] # <<>>
  /\ IsFiniteSet(SpanPlaces(m.spans))

RingFits(m) == Len(m.ids) <= MaxRollouts /\ Held(m) <= MaxSpans

LEMMA HeldCounts ==
  ASSUME NEW m, RingShape(m)
  PROVE  Held(m) \in Nat
BY FS_CardinalityType DEF RingShape, Held

LEMMA TailEntries ==
  ASSUME NEW q \in Seq(Rollouts), q # <<>>, Distinct(q), NEW rest, rest = Tail(q)
  PROVE  /\ rest \in Seq(Rollouts) /\ Len(rest) = Len(q) - 1 /\ Distinct(rest)
         /\ q[1] \in Rollouts /\ Entries(rest) = Entries(q) \ {q[1]} /\ q[1] \in Entries(q)
<1>1. /\ rest \in Seq(Rollouts) /\ Len(rest) = Len(q) - 1 /\ Len(q) \in Nat \ {0}
      /\ \A i \in 1 .. Len(rest) : rest[i] = q[i + 1]
      /\ q[1] \in Rollouts
  OBVIOUS
<1>2. Distinct(rest)
  BY <1>1 DEF Distinct
<1>3. Entries(rest) \subseteq Entries(q) \ {q[1]}
  <2> SUFFICES ASSUME NEW i \in 1 .. Len(rest)
               PROVE  rest[i] \in Entries(q) /\ rest[i] # q[1]
    BY DEF Entries
  <2>1. i + 1 \in 1 .. Len(q) /\ rest[i] = q[i + 1] /\ 1 \in 1 .. Len(q) /\ i + 1 # 1
    BY <1>1
  <2> QED  BY <2>1 DEF Distinct, Entries
<1>4. Entries(q) \ {q[1]} \subseteq Entries(rest)
  <2> SUFFICES ASSUME NEW i \in 1 .. Len(q), q[i] # q[1]
               PROVE  q[i] \in Entries(rest)
    BY DEF Entries
  <2>1. i - 1 \in 1 .. Len(rest) /\ rest[i - 1] = q[i]
    BY <1>1
  <2> QED  BY <2>1 DEF Entries
<1>5. q[1] \in Entries(q)
  BY <1>1 DEF Entries
<1> QED  BY <1>1, <1>2, <1>3, <1>4, <1>5

LEMMA OldestDropped ==
  ASSUME NEW m, RingShape(m), m.ids # <<>>, NEW d, d = DropOldestRollout(m)
  PROVE  /\ RingShape(d) /\ Len(d.ids) = Len(m.ids) - 1
         /\ m.ids[1] \in Rollouts /\ m.spans[m.ids[1]] # <<>> /\ d.spans[m.ids[1]] = <<>>
         /\ \A q \in Rollouts \ {m.ids[1]} : d.spans[q] = m.spans[q]
         /\ Entries(d.ids) = Entries(m.ids) \ {m.ids[1]}
         /\ Held(d) + d.dropped = Held(m) + m.dropped /\ Held(d) < Held(m)
<1>1. /\ m.spans \in SpanLists /\ m.ids \in Seq(Rollouts) /\ m.dropped \in Nat
      /\ m.skipped \in Nat /\ Distinct(m.ids) /\ IsFiniteSet(SpanPlaces(m.spans))
      /\ \A r \in Rollouts : r \in Entries(m.ids) <=> m.spans[r] # <<>>
  BY DEF RingShape
<1>2. PICK f : f = m.spans
  OBVIOUS
<1>3. PICK o : o = m.ids[1]
  OBVIOUS
<1>4. PICK rest : rest = Tail(m.ids)
  OBVIOUS
<1>5. /\ rest \in Seq(Rollouts) /\ Len(rest) = Len(m.ids) - 1 /\ Distinct(rest)
      /\ o \in Rollouts /\ Entries(rest) = Entries(m.ids) \ {o} /\ o \in Entries(m.ids)
  BY <1>1, <1>3, <1>4, TailEntries
<1>6. PICK g : g = [f EXCEPT ![o] = <<>>]
  OBVIOUS
<1>7. /\ g \in SpanLists /\ g[o] = <<>> /\ \A q \in Rollouts \ {o} : g[q] = f[q]
      /\ f \in SpanLists
  <2>1. <<>> \in Seq(Spans)
    OBVIOUS
  <2> QED  BY <1>1, <1>2, <1>5, <1>6, <2>1 DEF SpanLists
<1>8. PICK n : n = Len(f[o])
  OBVIOUS
<1>9. n \in Nat /\ f[o] # <<>> /\ n > 0
  BY <1>1, <1>2, <1>5, <1>7, <1>8 DEF SpanLists
<1>10. d = [spans |-> g, ids |-> rest, dropped |-> m.dropped + n, skipped |-> m.skipped]
  <2>1. Head(m.ids) = o
    BY <1>1, <1>3
  <2>2. m = [spans |-> f, ids |-> m.ids, dropped |-> m.dropped, skipped |-> m.skipped]
    BY <1>2 DEF RingShape
  <2> QED  BY <1>2, <1>4, <1>6, <1>8, <2>1, <2>2 DEF DropOldestRollout
<1>11. /\ IsFiniteSet(SpanPlaces(g)) /\ Cardinality(SpanPlaces(g)) \in Nat
       /\ Cardinality(SpanPlaces(g)) + n = Cardinality(SpanPlaces(f))
  <2>1. Len(g[o]) = 0 /\ Len(g[o]) <= Len(f[o])
    BY <1>7, <1>8, <1>9
  <2>2. IsFiniteSet(SpanPlaces(f))
    BY <1>1, <1>2
  <2>3. /\ IsFiniteSet(SpanPlaces(g)) /\ Cardinality(SpanPlaces(g)) \in Nat
        /\ Cardinality(SpanPlaces(g)) + Len(f[o]) = Cardinality(SpanPlaces(f)) + Len(g[o])
    BY <1>5, <1>7, <2>1, <2>2, SpansOfOne
  <2>4. Cardinality(SpanPlaces(f)) \in Nat
    BY <2>2, FS_CardinalityType
  <2> QED  BY <1>8, <2>1, <2>3, <2>4
<1>12. RingShape(d)
  <2>1. \A r \in Rollouts : r \in Entries(rest) <=> g[r] # <<>>
    BY <1>1, <1>2, <1>5, <1>7
  <2> QED  BY <1>1, <1>5, <1>7, <1>9, <1>10, <1>11, <2>1 DEF RingShape
<1>13. Held(d) + d.dropped = Held(m) + m.dropped /\ Held(d) < Held(m)
  BY <1>1, <1>2, <1>9, <1>10, <1>11 DEF Held
<1> QED  BY <1>2, <1>3, <1>5, <1>7, <1>9, <1>10, <1>12, <1>13

\* All spans are those of the only rollout.
LEMMA OnlyRollout ==
  ASSUME NEW m, RingShape(m), NEW q \in Rollouts, Entries(m.ids) \subseteq {q}
  PROVE  Held(m) = Len(m.spans[q])
<1>1. m.spans \in SpanLists /\ \A r \in Rollouts \ {q} : m.spans[r] = <<>>
  BY DEF RingShape
<1>2. PICK f : f = m.spans
  OBVIOUS
<1>3. f \in SpanLists /\ Len(f[q]) \in Nat /\ \A r \in Rollouts \ {q} : Len(f[r]) = 0
  BY <1>1, <1>2 DEF SpanLists
<1>4. SpanPlaces(f) = {q} \X (1 .. Len(f[q]))
  <2>1. ASSUME NEW r \in Rollouts, NEW i \in Nat
        PROVE  <<r, i>> \in SpanPlaces(f) <=> r = q /\ i \in 1 .. Len(f[q])
    <3>1. <<r, i>> \in SpanPlaces(f) <=> i \in 1 .. Len(f[r])
      BY <1>3, PlaceOf
    <3> QED  BY <1>3, <3>1
  <2>2. ASSUME NEW p
        PROVE  p \in SpanPlaces(f) <=> p \in {q} \X (1 .. Len(f[q]))
    BY <1>3, <2>1, PlaceOf
  <2> QED  BY <2>2
<1>5. Cardinality({q} \X (1 .. Len(f[q]))) = Len(f[q])
  BY <1>3, PlacesOfOne
<1>6. Cardinality(SpanPlaces(f)) = Len(f[q])
  BY <1>4, <1>5
<1> QED  BY <1>2, <1>6 DEF Held

LEMMA OneSpanDropped ==
  ASSUME NEW m, RingShape(m), m.ids # <<>>, NEW d, d = DropOneSpan(m),
         Len(m.spans[m.ids[1]]) > 1
  PROVE  /\ RingShape(d) /\ d.ids = m.ids /\ m.ids[1] \in Rollouts
         /\ Len(d.spans[m.ids[1]]) < Len(m.spans[m.ids[1]])
         /\ \A q \in Rollouts \ {m.ids[1]} : d.spans[q] = m.spans[q]
         /\ Held(d) + d.dropped = Held(m) + m.dropped /\ Held(d) + 1 = Held(m)
<1>1. /\ m.spans \in SpanLists /\ m.ids \in Seq(Rollouts) /\ m.dropped \in Nat
      /\ m.skipped \in Nat /\ Distinct(m.ids) /\ IsFiniteSet(SpanPlaces(m.spans))
      /\ \A r \in Rollouts : r \in Entries(m.ids) <=> m.spans[r] # <<>>
  BY DEF RingShape
<1>2. PICK f : f = m.spans
  OBVIOUS
<1>3. PICK o : o = m.ids[1]
  OBVIOUS
<1>4. o \in Rollouts
  BY <1>1, <1>3
<1>5. PICK g : g = [f EXCEPT ![o] = Tail(f[o])]
  OBVIOUS
<1>6. f[o] \in Seq(Spans) /\ Len(f[o]) > 1
  BY <1>1, <1>2, <1>3, <1>4 DEF SpanLists
<1>7. PICK after : after = Tail(f[o])
  OBVIOUS
<1>8. after \in Seq(Spans) /\ Len(after) = Len(f[o]) - 1 /\ after # <<>> /\ f[o] # <<>>
  <2>1. f[o] # <<>>
    BY <1>6
  <2>2. after \in Seq(Spans) /\ Len(after) = Len(f[o]) - 1
    BY <1>6, <1>7, <2>1
  <2>3. after # <<>>
    BY <1>6, <2>2
  <2> QED  BY <2>1, <2>2, <2>3
<1>9. /\ g \in SpanLists /\ g[o] = after /\ \A q \in Rollouts \ {o} : g[q] = f[q]
      /\ f \in SpanLists
  BY <1>1, <1>2, <1>4, <1>5, <1>7, <1>8 DEF SpanLists
<1>10. d = [spans |-> g, ids |-> m.ids, dropped |-> m.dropped + 1, skipped |-> m.skipped]
  <2>1. m = [spans |-> f, ids |-> m.ids, dropped |-> m.dropped, skipped |-> m.skipped]
    BY <1>2 DEF RingShape
  <2> QED  BY <1>2, <1>3, <1>5, <2>1 DEF DropOneSpan
<1>11. /\ IsFiniteSet(SpanPlaces(g)) /\ Cardinality(SpanPlaces(g)) \in Nat
       /\ Cardinality(SpanPlaces(g)) + 1 = Cardinality(SpanPlaces(f))
  <2>1. Len(g[o]) + 1 = Len(f[o]) /\ Len(g[o]) \in Nat /\ Len(g[o]) <= Len(f[o])
    BY <1>6, <1>8, <1>9
  <2>2. IsFiniteSet(SpanPlaces(f))
    BY <1>1, <1>2
  <2>3. /\ IsFiniteSet(SpanPlaces(g)) /\ Cardinality(SpanPlaces(g)) \in Nat
        /\ Cardinality(SpanPlaces(g)) + Len(f[o]) = Cardinality(SpanPlaces(f)) + Len(g[o])
    BY <1>4, <1>9, <2>1, <2>2, SpansOfOne
  <2>4. Cardinality(SpanPlaces(f)) \in Nat
    BY <2>2, FS_CardinalityType
  <2> QED  BY <2>1, <2>3, <2>4
<1>12. RingShape(d)
  <2>1. \A r \in Rollouts : r \in Entries(m.ids) <=> g[r] # <<>>
    BY <1>1, <1>2, <1>8, <1>9
  <2> QED  BY <1>1, <1>9, <1>10, <1>11, <2>1 DEF RingShape
<1>13. Held(d) + d.dropped = Held(m) + m.dropped /\ Held(d) + 1 = Held(m)
  <2>1. Held(d) = Cardinality(SpanPlaces(g)) /\ d.dropped = m.dropped + 1
    BY <1>10 DEF Held
  <2>2. Held(m) = Cardinality(SpanPlaces(f))
    BY <1>2 DEF Held
  <2>3. PICK x \in Nat : x = Cardinality(SpanPlaces(g)) /\ x + 1 = Cardinality(SpanPlaces(f))
    BY <1>11
  <2>4. m.dropped \in Nat
    BY <1>1 DEF RingShape
  <2> QED  BY <2>1, <2>2, <2>3, <2>4
<1>14. Len(g[o]) < Len(f[o])
  BY <1>6, <1>8, <1>9
<1> QED  BY <1>2, <1>3, <1>4, <1>9, <1>10, <1>12, <1>13, <1>14

-----------------------------------------------------------------------------
(* The ring of spans: a span is recorded *)

LEMMA IdAppended ==
  ASSUME NEW q \in Seq(Rollouts), Distinct(q), NEW r \in Rollouts, r \notin Entries(q),
         NEW more, more = Append(q, r)
  PROVE  /\ more \in Seq(Rollouts) /\ Len(more) = Len(q) + 1 /\ Distinct(more)
         /\ Entries(more) = Entries(q) \cup {r}
<1>1. /\ more \in Seq(Rollouts) /\ Len(more) = Len(q) + 1 /\ Len(q) \in Nat
      /\ \A i \in 1 .. Len(q) : more[i] = q[i]
      /\ more[Len(q) + 1] = r
  OBVIOUS
<1>2. \A i \in 1 .. Len(q) : more[i] # r
  BY <1>1 DEF Entries
<1>3. Distinct(more)
  BY <1>1, <1>2 DEF Distinct
<1>4. Entries(more) = Entries(q) \cup {r}
  <2>1. Entries(more) \subseteq Entries(q) \cup {r}
    BY <1>1 DEF Entries
  <2>2. Entries(q) \subseteq Entries(more)
    <3> SUFFICES ASSUME NEW i \in 1 .. Len(q) PROVE q[i] \in Entries(more)
      BY DEF Entries
    <3>1. i \in 1 .. Len(more) /\ more[i] = q[i]
      BY <1>1
    <3> QED  BY <3>1 DEF Entries
  <2>3. r \in Entries(more)
    <3>1. Len(more) \in 1 .. Len(more) /\ more[Len(more)] = r
      BY <1>1
    <3> QED  BY <3>1 DEF Entries
  <2> QED  BY <2>1, <2>2, <2>3
<1> QED  BY <1>1, <1>3, <1>4

LEMMA SpanAppended ==
  ASSUME NEW m, RingShape(m), RingFits(m), NEW r \in Rollouts, NEW s \in Spans,
         NEW a, a = Appended(m, r, s)
  PROVE  /\ RingShape(a) /\ r \in Entries(a.ids) /\ Len(a.ids) <= MaxRollouts + 1
         /\ Held(a) = Held(m) + 1 /\ a.dropped = m.dropped
         /\ a.spans[r] = Append(m.spans[r], s)
         /\ \A q \in Rollouts \ {r} : a.spans[q] = m.spans[q]
<1>1. /\ m.spans \in SpanLists /\ m.ids \in Seq(Rollouts) /\ m.dropped \in Nat
      /\ m.skipped \in Nat /\ Distinct(m.ids) /\ IsFiniteSet(SpanPlaces(m.spans))
      /\ \A q \in Rollouts : q \in Entries(m.ids) <=> m.spans[q] # <<>>
  BY DEF RingShape
<1>2. MaxRollouts \in Nat \ {0} /\ Len(m.ids) <= MaxRollouts /\ Len(m.ids) \in Nat
  BY <1>1, StoreAssumption DEF RingFits
<1>3. PICK f : f = m.spans
  OBVIOUS
<1>4. PICK more : more = Append(f[r], s)
  OBVIOUS
<1>5. f \in SpanLists /\ f[r] \in Seq(Spans) /\ Len(f[r]) \in Nat
  BY <1>1, <1>3 DEF SpanLists
<1>6. more \in Seq(Spans) /\ Len(more) = Len(f[r]) + 1 /\ more # <<>>
  <2>1. more \in Seq(Spans) /\ Len(more) = Len(f[r]) + 1
    BY <1>4, <1>5
  <2> QED  BY <1>5, <2>1
<1>7. PICK g : g = [f EXCEPT ![r] = more]
  OBVIOUS
<1>8. g \in SpanLists /\ g[r] = more /\ \A q \in Rollouts \ {r} : g[q] = f[q]
  BY <1>5, <1>6, <1>7 DEF SpanLists
<1>9. PICK ids : ids = IF r \in ToSet(m.ids) THEN m.ids ELSE Append(m.ids, r)
  OBVIOUS
<1>10. a = [spans |-> g, ids |-> ids, dropped |-> m.dropped, skipped |-> m.skipped]
  <2>1. m = [spans |-> f, ids |-> m.ids, dropped |-> m.dropped, skipped |-> m.skipped]
    BY <1>3 DEF RingShape
  <2> QED  BY <1>3, <1>4, <1>7, <1>9, <2>1 DEF Appended
<1>11. ToSet(m.ids) = Entries(m.ids)
  BY <1>1 DEF ToSet, Entries
<1>12. /\ ids \in Seq(Rollouts) /\ Distinct(ids) /\ Entries(ids) = Entries(m.ids) \cup {r}
       /\ Len(ids) <= MaxRollouts + 1
  <2>1. CASE r \in Entries(m.ids)
    BY <1>1, <1>2, <1>9, <1>11, <2>1
  <2>2. CASE r \notin Entries(m.ids)
    <3>1. ids = Append(m.ids, r)
      BY <1>9, <1>11, <2>2
    <3>2. /\ ids \in Seq(Rollouts) /\ Len(ids) = Len(m.ids) + 1 /\ Distinct(ids)
          /\ Entries(ids) = Entries(m.ids) \cup {r}
      BY <1>1, <2>2, <3>1, IdAppended
    <3> QED  BY <1>2, <3>2
  <2> QED  BY <2>1, <2>2
<1>13. IsFiniteSet(SpanPlaces(g)) /\ Cardinality(SpanPlaces(g)) = Cardinality(SpanPlaces(f)) + 1
  <2>1. IsFiniteSet(SpanPlaces(f))
    BY <1>1, <1>3
  <2>2. /\ IsFiniteSet(SpanPlaces(g)) /\ Cardinality(SpanPlaces(g)) \in Nat
        /\ Cardinality(SpanPlaces(g)) + Len(f[r]) = Cardinality(SpanPlaces(f)) + Len(g[r])
    BY <1>5, <1>8, <2>1, SpansOfOne
  <2>3. Cardinality(SpanPlaces(f)) \in Nat
    BY <2>1, FS_CardinalityType
  <2> QED  BY <1>5, <1>6, <1>8, <2>2, <2>3
<1>14. RingShape(a)
  <2>1. \A q \in Rollouts : q \in Entries(ids) <=> g[q] # <<>>
    BY <1>1, <1>3, <1>6, <1>8, <1>12
  <2> QED  BY <1>1, <1>8, <1>10, <1>12, <1>13, <2>1 DEF RingShape
<1>15. Held(a) = Held(m) + 1
  BY <1>3, <1>10, <1>13 DEF Held
<1> QED  BY <1>3, <1>4, <1>8, <1>10, <1>12, <1>14, <1>15

\* e is the ring a with some of its rollouts dropped, or with less of r.
Shrunk(a, e, r) ==
  /\ RingShape(e)
  /\ Held(e) + e.dropped = Held(a) + a.dropped
  /\ e.spans[r] = a.spans[r] \/ Len(e.spans[r]) < Len(a.spans[r])
  /\ \A q \in Rollouts \ {r} : e.spans[q] = a.spans[q] \/ e.spans[q] = <<>>

LEMMA ShrunkByOldest ==
  ASSUME NEW a, RingShape(a), a.ids # <<>>, NEW r \in Rollouts,
         NEW e, e = DropOldestRollout(a)
  PROVE  Shrunk(a, e, r) /\ Len(e.ids) = Len(a.ids) - 1 /\ Held(e) < Held(a)
<1>1. /\ RingShape(e) /\ Len(e.ids) = Len(a.ids) - 1
      /\ a.ids[1] \in Rollouts /\ a.spans[a.ids[1]] # <<>> /\ e.spans[a.ids[1]] = <<>>
      /\ \A q \in Rollouts \ {a.ids[1]} : e.spans[q] = a.spans[q]
      /\ Held(e) + e.dropped = Held(a) + a.dropped /\ Held(e) < Held(a)
  BY OldestDropped
<1>2. e.spans[r] = a.spans[r] \/ Len(e.spans[r]) < Len(a.spans[r])
  <2>1. CASE r = a.ids[1]
    <3>1. a.spans[r] \in Seq(Spans) /\ a.spans[r] # <<>> /\ e.spans[r] = <<>>
      BY <1>1, <2>1 DEF RingShape, SpanLists
    <3> QED  BY <3>1
  <2>2. CASE r # a.ids[1]
    BY <1>1, <2>2
  <2> QED  BY <2>1, <2>2
<1>3. \A q \in Rollouts \ {r} : e.spans[q] = a.spans[q] \/ e.spans[q] = <<>>
  BY <1>1
<1> QED  BY <1>1, <1>2, <1>3 DEF Shrunk

LEMMA SpansEvicted ==
  ASSUME NEW a, RingShape(a), NEW r \in Entries(a.ids), Len(a.ids) <= MaxRollouts + 1,
         Held(a) <= MaxSpans + 1, NEW e, e = EvictSpans(a)
  PROVE  Shrunk(a, e, r) /\ RingFits(e)
<1>1. /\ MaxRollouts \in Nat \ {0} /\ MaxSpans \in Nat \ {0} /\ Held(a) \in Nat
      /\ a.ids \in Seq(Rollouts) /\ Len(a.ids) \in Nat \ {0} /\ r \in Rollouts /\ a.ids # <<>>
  <2>1. a.ids \in Seq(Rollouts)
    BY DEF RingShape
  <2>2. r \in Rollouts /\ Len(a.ids) \in Nat \ {0}
    BY <2>1 DEF Entries
  <2>3. a.ids # <<>>
    BY <2>1, <2>2
  <2> QED  BY <2>1, <2>2, <2>3, StoreAssumption, HeldCounts
<1>2. CASE Len(a.ids) > MaxRollouts
  <2>1. PICK few : few = DropOldestRollout(a)
    OBVIOUS
  <2>2. Shrunk(a, few, r) /\ Len(few.ids) = Len(a.ids) - 1 /\ Held(few) < Held(a)
    BY <1>1, <2>1, ShrunkByOldest
  <2>3. Held(few) \in Nat
    BY <2>2, HeldCounts DEF Shrunk
  <2>4. Held(few) <= MaxSpans
    BY <1>1, <2>2, <2>3
  <2>5. e = few
    BY <1>2, <2>1, <2>4 DEF EvictSpans
  <2> QED  BY <1>1, <2>2, <2>4, <2>5 DEF RingFits
<1>3. CASE ~ (Len(a.ids) > MaxRollouts) /\ Held(a) <= MaxSpans
  <2>1. e = a
    BY <1>3 DEF EvictSpans
  <2> QED  BY <1>1, <1>3, <2>1 DEF Shrunk, RingFits
<1>4. CASE ~ (Len(a.ids) > MaxRollouts) /\ ~ (Held(a) <= MaxSpans) /\ Len(a.ids) > 1
  <2>1. e = DropOldestRollout(a)
    BY <1>4 DEF EvictSpans
  <2>2. Shrunk(a, e, r) /\ Len(e.ids) = Len(a.ids) - 1 /\ Held(e) < Held(a)
    BY <1>1, <2>1, ShrunkByOldest
  <2>3. Held(e) \in Nat
    BY <2>2, HeldCounts DEF Shrunk
  <2> QED  BY <1>1, <1>4, <2>2, <2>3 DEF RingFits
<1>5. CASE ~ (Len(a.ids) > MaxRollouts) /\ ~ (Held(a) <= MaxSpans) /\ ~ (Len(a.ids) > 1)
  <2>1. e = DropOneSpan(a)
    BY <1>5 DEF EvictSpans
  <2>2. Len(a.ids) = 1 /\ a.ids[1] = r /\ Entries(a.ids) \subseteq {r}
    <3>1. Len(a.ids) = 1
      <4>1. \A k \in Nat \ {0} : ~ (k > 1) => k = 1
        OBVIOUS
      <4> QED  BY <1>1, <1>5, <4>1
    <3>2. PICK i \in 1 .. Len(a.ids) : r = a.ids[i]
      BY DEF Entries
    <3>3. i = 1
      BY <3>1, <3>2
    <3> QED  BY <3>1, <3>2, <3>3 DEF Entries
  <2>3. Held(a) = Len(a.spans[r])
    BY <1>1, <2>2, OnlyRollout
  <2>4. Len(a.spans[r]) > 1
    BY <1>1, <1>5, <2>3
  <2>5. /\ RingShape(e) /\ e.ids = a.ids
        /\ Len(e.spans[r]) < Len(a.spans[r])
        /\ \A q \in Rollouts \ {r} : e.spans[q] = a.spans[q]
        /\ Held(e) + e.dropped = Held(a) + a.dropped /\ Held(e) + 1 = Held(a)
    BY <1>1, <2>1, <2>2, <2>4, OneSpanDropped
  <2>6. Held(e) \in Nat
    BY <2>5, HeldCounts
  <2>7. RingFits(e)
    <3>1. Held(e) <= MaxSpans
      BY <1>1, <2>5, <2>6
    <3>2. Len(e.ids) <= MaxRollouts
      <4>1. \A k \in Nat \ {0} : 1 <= k
        OBVIOUS
      <4>2. Len(e.ids) = 1
        BY <2>2, <2>5
      <4> QED  BY <1>1, <4>1, <4>2
    <3> QED  BY <3>1, <3>2 DEF RingFits
  <2> QED  BY <2>5, <2>7 DEF Shrunk
<1> QED  BY <1>2, <1>3, <1>4, <1>5

\* new is the ring m after the spans kept of r were recorded.
Follows(m, new, r, kept) ==
  /\ RingShape(new) /\ RingFits(new)
  /\ Held(new) + new.dropped = Held(m) + m.dropped + Len(kept)
  /\ \/ new.spans[r] = m.spans[r] \o kept
     \/ Len(new.spans[r]) < Len(m.spans[r]) + Len(kept)
  /\ \A q \in Rollouts \ {r} : new.spans[q] = m.spans[q] \/ new.spans[q] = <<>>

LEMMA KeptFollows ==
  ASSUME NEW m, RingShape(m), RingFits(m), NEW r \in Rollouts, NEW s \in Spans,
         KeepTrace(r, s), NEW new, new = RecordSpan(m, r, s)
  PROVE  Follows(m, new, r, <<s>>)
<1>1. PICK a : a = Appended(m, r, s)
  OBVIOUS
<1>2. new = EvictSpans(a)
  BY <1>1 DEF RecordSpan
<1>3. /\ RingShape(a) /\ r \in Entries(a.ids) /\ Len(a.ids) <= MaxRollouts + 1
      /\ Held(a) = Held(m) + 1 /\ a.dropped = m.dropped
      /\ a.spans[r] = Append(m.spans[r], s)
      /\ \A q \in Rollouts \ {r} : a.spans[q] = m.spans[q]
  BY <1>1, SpanAppended
<1>4. Held(m) \in Nat /\ MaxSpans \in Nat /\ m.dropped \in Nat
  BY HeldCounts, StoreAssumption DEF RingShape
<1>5. Held(a) <= MaxSpans + 1
  BY <1>3, <1>4 DEF RingFits
<1>6. Shrunk(a, new, r) /\ RingFits(new)
  BY <1>2, <1>3, <1>5, SpansEvicted
<1>7. PICK before : before = m.spans[r]
  OBVIOUS
<1>8. before \in Seq(Spans)
  BY <1>7 DEF RingShape, SpanLists
<1>9. PICK after : after = Append(before, s)
  OBVIOUS
<1>10. after = before \o <<s>> /\ Len(after) = Len(before) + 1
  BY <1>8, <1>9, AppendIsConcat
<1>11. \/ new.spans[r] = before \o <<s>>
       \/ Len(new.spans[r]) < Len(before) + 1
  BY <1>3, <1>6, <1>7, <1>9, <1>10 DEF Shrunk
<1>12. Len(<<s>>) = 1
  OBVIOUS
<1>13. Held(new) + new.dropped = Held(m) + m.dropped + 1
  <2>1. Held(new) + new.dropped = Held(a) + a.dropped
    BY <1>6 DEF Shrunk
  <2>2. Held(a) + a.dropped = (Held(m) + 1) + m.dropped
    BY <1>3
  <2> QED  BY <1>4, <2>1, <2>2
<1>14. \A q \in Rollouts \ {r} : new.spans[q] = m.spans[q] \/ new.spans[q] = <<>>
  BY <1>3, <1>6 DEF Shrunk
<1> QED  BY <1>6, <1>7, <1>11, <1>12, <1>13, <1>14 DEF Shrunk, Follows

LEMMA SkippedFollows ==
  ASSUME NEW m, RingShape(m), RingFits(m), NEW r \in Rollouts, NEW s \in Spans,
         ~ KeepTrace(r, s), NEW new, new = RecordSpan(m, r, s)
  PROVE  Follows(m, new, r, <<>>)
<1>1. /\ m \in [spans : SpanLists, ids : Seq(Rollouts), dropped : Nat, skipped : Nat]
      /\ new = [m EXCEPT !.skipped = m.skipped + 1]
  BY DEF RingShape, RecordSpan
<1>2. /\ new \in [spans : SpanLists, ids : Seq(Rollouts), dropped : Nat, skipped : Nat]
      /\ new.spans = m.spans /\ new.ids = m.ids /\ new.dropped = m.dropped
  BY <1>1
<1>3. RingShape(new) /\ RingFits(new) /\ Held(new) = Held(m)
  BY <1>2 DEF RingShape, RingFits, Held
<1>4. m.spans[r] \in Seq(Spans)
  BY <1>1 DEF SpanLists
<1>5. m.spans[r] \o <<>> = m.spans[r] /\ Len(<<>>) = 0
  BY <1>4, ConcatEmptySeq
<1>6. Held(m) \in Nat /\ m.dropped \in Nat
  BY <1>1, HeldCounts
<1> QED  BY <1>2, <1>3, <1>5, <1>6 DEF Follows

LEMMA RecordFollows ==
  ASSUME NEW m, RingShape(m), RingFits(m), NEW r \in Rollouts, NEW s \in Spans,
         NEW new, new = RecordSpan(m, r, s), NEW kept, kept = Kept(r, s)
  PROVE  Follows(m, new, r, kept)
<1>1. CASE KeepTrace(r, s)
  BY <1>1, KeptFollows DEF Kept
<1>2. CASE ~ KeepTrace(r, s)
  BY <1>2, SkippedFollows DEF Kept
<1> QED  BY <1>1, <1>2

LEMMA FollowsOn ==
  ASSUME NEW m, RingShape(m), NEW r \in Rollouts,
         NEW first \in Seq(Spans), NEW second \in Seq(Spans),
         NEW n, Follows(m, n, r, first), NEW o, Follows(n, o, r, second)
  PROVE  Follows(m, o, r, first \o second)
<1>1. PICK both : both = first \o second
  OBVIOUS
<1>2. Len(both) = Len(first) + Len(second) /\ Len(first) \in Nat /\ Len(second) \in Nat
  BY <1>1
<1>3. PICK a : a = m.spans[r]
  OBVIOUS
<1>4. PICK b : b = n.spans[r]
  OBVIOUS
<1>5. PICK c : c = o.spans[r]
  OBVIOUS
<1>6. a \in Seq(Spans) /\ b \in Seq(Spans) /\ c \in Seq(Spans)
  BY <1>3, <1>4, <1>5 DEF Follows, RingShape, SpanLists
<1>7. /\ b = a \o first \/ Len(b) < Len(a) + Len(first)
      /\ c = b \o second \/ Len(c) < Len(b) + Len(second)
  BY <1>3, <1>4, <1>5 DEF Follows
<1>8. c = a \o both \/ Len(c) < Len(a) + Len(both)
  <2>1. CASE b = a \o first /\ c = b \o second
    <3>1. (a \o first) \o second = a \o (first \o second)
      BY <1>6, SMTT(40)
    <3>2. c = a \o (first \o second)
      BY <2>1, <3>1
    <3> QED  BY <1>1, <3>2
  <2>2. CASE Len(b) < Len(a) + Len(first) \/ Len(c) < Len(b) + Len(second)
    <3>1. Len(b) <= Len(a) + Len(first) /\ Len(c) <= Len(b) + Len(second)
      <4>1. Len(a \o first) = Len(a) + Len(first) /\ Len(b \o second) = Len(b) + Len(second)
        BY <1>6
      <4>2. Len(a) \in Nat /\ Len(b) \in Nat /\ Len(c) \in Nat
        BY <1>6
      <4> QED  BY <1>2, <1>7, <4>1, <4>2
    <3>2. Len(a) \in Nat /\ Len(b) \in Nat /\ Len(c) \in Nat
      BY <1>6
    <3> QED  BY <1>2, <2>2, <3>1, <3>2
  <2> QED  BY <1>7, <2>1, <2>2
<1>9. Held(o) + o.dropped = Held(m) + m.dropped + Len(both)
  <2>1. Held(m) \in Nat /\ m.dropped \in Nat
    BY HeldCounts DEF RingShape
  <2>2. Held(n) \in Nat /\ n.dropped \in Nat
    BY HeldCounts DEF Follows, RingShape
  <2>3. Held(n) + n.dropped = Held(m) + m.dropped + Len(first)
    BY DEF Follows
  <2>4. Held(o) + o.dropped = Held(n) + n.dropped + Len(second)
    BY DEF Follows
  <2> QED  BY <1>2, <2>1, <2>2, <2>3, <2>4
<1>10. \A q \in Rollouts \ {r} : o.spans[q] = m.spans[q] \/ o.spans[q] = <<>>
  BY DEF Follows
<1>11. RingShape(o) /\ RingFits(o)
  BY DEF Follows
<1>12. Follows(m, o, r, both)
  BY <1>3, <1>5, <1>8, <1>9, <1>10, <1>11 DEF Follows
<1> QED  BY <1>1, <1>12
-----------------------------------------------------------------------------
(* The names of the spans of a rollout *)

Names(es) == {es[j].name : j \in DOMAIN es}

\* Each span has a name of its own.
OnceEach(es) == IsFiniteSet(Names(es)) /\ Cardinality(Names(es)) = Len(es)

LEMMA NameAdded ==
  ASSUME NEW es \in Seq(Spans), NEW s \in Spans, s.name \notin Names(es), OnceEach(es),
         NEW more, more = Append(es, s)
  PROVE  more \in Seq(Spans) /\ OnceEach(more) /\ Names(more) = Names(es) \cup {s.name}
<1>1. /\ more \in Seq(Spans) /\ Len(more) = Len(es) + 1 /\ Len(es) \in Nat
      /\ DOMAIN es = 1 .. Len(es) /\ DOMAIN more = 1 .. (Len(es) + 1)
      /\ \A j \in 1 .. Len(es) : more[j] = es[j]
      /\ more[Len(es) + 1] = s
  OBVIOUS
<1>2. Names(more) = Names(es) \cup {s.name}
  <2>1. Names(more) \subseteq Names(es) \cup {s.name}
    BY <1>1 DEF Names
  <2>2. Names(es) \subseteq Names(more)
    BY <1>1 DEF Names
  <2>3. s.name \in Names(more)
    BY <1>1 DEF Names
  <2> QED  BY <2>1, <2>2, <2>3
<1>3. IsFiniteSet(Names(more)) /\ Cardinality(Names(more)) = Cardinality(Names(es)) + 1
  BY <1>2, FS_AddElement DEF OnceEach
<1> QED  BY <1>1, <1>2, <1>3 DEF OnceEach

LEMMA KeptNames ==
  ASSUME NEW es \in Seq(Spans), NEW r \in Rollouts, NEW s \in Spans,
         s.name \notin Names(es), OnceEach(es),
         NEW kept, kept = Kept(r, s), NEW more, more = es \o kept
  PROVE  more \in Seq(Spans) /\ OnceEach(more) /\ Names(more) \subseteq Names(es) \cup {s.name}
<1>1. CASE KeepTrace(r, s)
  <2>1. more = Append(es, s)
    BY <1>1, AppendIsConcat DEF Kept
  <2> QED  BY <2>1, NameAdded
<1>2. CASE ~ KeepTrace(r, s)
  <2>1. more = es
    BY <1>2, ConcatEmptySeq DEF Kept
  <2> QED  BY <2>1
<1> QED  BY <1>1, <1>2

-----------------------------------------------------------------------------
(* The ring against the export *)

\* The spans a rollout has closed when it is at a place.
NamesBy(place) ==
  CASE place = "generate" -> {"sandbox.provision"}
    [] place \in {"finalize", "finalize, raising"} ->
         {"sandbox.provision", "inference.generate"}
    [] place = "reward" ->
         {"sandbox.provision", "inference.generate", "sandbox.finalize", "rollout"}
    [] place = "ended" -> SpanNames
    [] OTHER -> {}

\* A rollout that lost nothing while it ran is in memory as it was exported, or was
\* dropped after its end.
InMemory(r) ==
  mem.spans[r] = exported[r] \/ (at[r] = "ended" /\ mem.spans[r] = <<>>)

TimelineInv ==
  /\ RingShape(mem) /\ RingFits(mem)
  /\ IsFiniteSet(SpanPlaces(exported))
  /\ Held(mem) + mem.dropped = Cardinality(SpanPlaces(exported))
  /\ \A r \in Rollouts \ cut : InMemory(r)
  /\ \A r \in Rollouts : OnceEach(exported[r]) /\ Names(exported[r]) \subseteq NamesBy(at[r])

LEMMA NothingYet ==
  ASSUME NEW es \in Seq(Spans), Names(es) \subseteq {}
  PROVE  es = <<>>
<1>1. DOMAIN es = 1 .. Len(es) /\ Len(es) \in Nat
  OBVIOUS
<1>2. \A j \in 1 .. Len(es) : es[j].name \in Names(es)
  BY <1>1 DEF Names
<1> QED  BY <1>1, <1>2

LEMMA RecordedStays ==
  ASSUME TelemetryInv, TimelineInv, NEW r \in Rollouts, at[r] \in Midway,
         NEW to \in Midway \cup {"ended"}, Goes(r, to),
         NEW new, NEW kept \in Seq(Spans), Recorded(r, new, kept, Running),
         Follows(mem, new, r, kept),
         OnceEach(exported[r] \o kept), Names(exported[r] \o kept) \subseteq NamesBy(to)
  PROVE  TimelineInv'
<1>1. RolloutTyping /\ ExportTyping /\ RingShape(mem)
  BY DEF TelemetryInv, TimelineInv
<1>2. at'[r] = to /\ \A q \in Rollouts \ {r} : at'[q] = at[q]
  BY <1>1 DEF RolloutTyping, Goes
<1>3. PICK more : more = exported[r] \o kept
  OBVIOUS
<1>4. PICK f : f = exported
  OBVIOUS
<1>5. PICK g : g = exported'
  OBVIOUS
<1>6. /\ f \in SpanLists /\ f[r] \in Seq(Spans) /\ Len(f[r]) \in Nat /\ Len(kept) \in Nat
      /\ more \in Seq(Spans) /\ Len(more) = Len(f[r]) + Len(kept)
  <2>1. f \in SpanLists /\ f[r] \in Seq(Spans)
    BY <1>1, <1>4 DEF ExportTyping, SpanLists
  <2> QED  BY <1>3, <1>4, <2>1
<1>7. g \in SpanLists /\ g[r] = more /\ \A q \in Rollouts \ {r} : g[q] = f[q]
  <2>1. exported' = [exported EXCEPT ![r] = more]
    BY <1>3 DEF Recorded
  <2> QED  BY <1>4, <1>5, <1>6, <2>1 DEF SpanLists
<1>8. /\ mem' = new /\ RingShape(new) /\ RingFits(new)
      /\ cut' = cut \cup
           {q \in Running :
              Len(new.spans[q]) < Len(mem.spans[q]) + IF q = r THEN Len(kept) ELSE 0}
  BY DEF Recorded, Follows
<1>9. IsFiniteSet(SpanPlaces(g)) /\ Held(new) + new.dropped = Cardinality(SpanPlaces(g))
  <2>1. IsFiniteSet(SpanPlaces(f)) /\ Cardinality(SpanPlaces(f)) \in Nat
    BY <1>4, FS_CardinalityType DEF TimelineInv
  <2>2. /\ IsFiniteSet(SpanPlaces(g)) /\ Cardinality(SpanPlaces(g)) \in Nat
        /\ Cardinality(SpanPlaces(g)) + Len(f[r]) = Cardinality(SpanPlaces(f)) + Len(g[r])
    BY <1>6, <1>7, <2>1, SpansOfOne
  <2>3. Cardinality(SpanPlaces(g)) = Cardinality(SpanPlaces(f)) + Len(kept)
    <3>1. Len(g[r]) = Len(f[r]) + Len(kept)
      BY <1>6, <1>7
    <3>2. PICK cf \in Nat : cf = Cardinality(SpanPlaces(f))
      BY <2>1
    <3>3. PICK cg \in Nat : cg = Cardinality(SpanPlaces(g))
      BY <2>2
    <3>4. PICK lf \in Nat : lf = Len(f[r])
      BY <1>6
    <3>5. PICK lk \in Nat : lk = Len(kept)
      BY <1>6
    <3>6. cg + lf = cf + (lf + lk)
      BY <2>2, <3>1, <3>2, <3>3, <3>4, <3>5
    <3>7. cg = cf + lk
      BY <3>6
    <3> QED  BY <3>2, <3>3, <3>5, <3>7
  <2>4. Held(new) + new.dropped = Cardinality(SpanPlaces(f)) + Len(kept)
    BY <1>4 DEF TimelineInv, Follows
  <2> QED  BY <2>2, <2>3, <2>4
<1>10. ASSUME NEW q \in Rollouts \ cut'
       PROVE  new.spans[q] = g[q] \/ (at'[q] = "ended" /\ new.spans[q] = <<>>)
  <2>1. /\ q \in Rollouts \ cut
        /\ q \in Running =>
             ~ (Len(new.spans[q]) < Len(mem.spans[q]) + IF q = r THEN Len(kept) ELSE 0)
    BY <1>8
  <2>2. mem.spans[q] = f[q] \/ (at[q] = "ended" /\ mem.spans[q] = <<>>)
    BY <1>4, <2>1 DEF TimelineInv, InMemory
  <2>3. mem.spans[q] \in Seq(Spans) /\ Len(mem.spans[q]) \in Nat
    BY <1>1 DEF RingShape, SpanLists
  <2>4. CASE q = r
    <3>1. r \in Running /\ at[r] # "ended"
      BY DEF Running, Midway
    <3>2. new.spans[r] = mem.spans[r] \o kept
      BY <2>1, <2>4, <3>1 DEF Follows
    <3>3. new.spans[r] = more
      BY <1>3, <1>4, <2>2, <2>4, <3>1, <3>2
    <3> QED  BY <1>7, <2>4, <3>3
  <2>5. CASE q # r
    <3>1. new.spans[q] = mem.spans[q] \/ new.spans[q] = <<>>
      BY <2>5 DEF Follows
    <3>2. g[q] = f[q] /\ at'[q] = at[q]
      BY <1>2, <1>7, <2>5
    <3>3. CASE q \in Running
      <4>1. at[q] # "ended" /\ mem.spans[q] = f[q]
        BY <2>2, <3>3 DEF Running
      <4>2. new.spans[q] = <<>> => mem.spans[q] = <<>>
        <5>1. ~ (Len(new.spans[q]) < Len(mem.spans[q]) + 0)
          BY <2>1, <2>5, <3>3
        <5>2. new.spans[q] = <<>> => Len(new.spans[q]) = 0
          OBVIOUS
        <5>3. new.spans[q] = <<>> => Len(mem.spans[q]) = 0
          BY <2>3, <5>1, <5>2
        <5> QED  BY <2>3, <5>3
      <4> QED  BY <3>1, <3>2, <4>1, <4>2
    <3>4. CASE at[q] = "ended"
      BY <2>2, <3>1, <3>2, <3>4
    <3>5. CASE at[q] = "off"
      <4>1. f[q] \in Seq(Spans) /\ Names(f[q]) \subseteq NamesBy("off")
        BY <1>4, <1>6, <3>5 DEF TimelineInv, SpanLists
      <4>2. f[q] = <<>>
        BY <4>1, NothingYet DEF NamesBy
      <4>3. mem.spans[q] = <<>>
        BY <2>2, <4>2
      <4> QED  BY <3>1, <3>2, <4>2, <4>3
    <3> QED  BY <3>3, <3>4, <3>5 DEF Running
  <2> QED  BY <2>4, <2>5
<1>11. ASSUME NEW q \in Rollouts
       PROVE  OnceEach(g[q]) /\ Names(g[q]) \subseteq NamesBy(at'[q])
  <2>1. CASE q = r
    BY <1>2, <1>3, <1>7, <2>1
  <2>2. CASE q # r
    BY <1>2, <1>4, <1>7, <2>2 DEF TimelineInv
  <2> QED  BY <2>1, <2>2
<1>12. RingShape(mem)' /\ RingFits(mem)'
  BY <1>8 DEF RingShape, RingFits, SpanLists, SpanPlaces, Held
<1>13. /\ IsFiniteSet(SpanPlaces(exported))'
       /\ (Held(mem) + mem.dropped = Cardinality(SpanPlaces(exported)))'
  BY <1>5, <1>8, <1>9 DEF Held, SpanPlaces
<1>14. \A q \in Rollouts \ cut' : InMemory(q)'
  BY <1>5, <1>8, <1>10 DEF InMemory
<1>15. ASSUME NEW q \in Rollouts
       PROVE  OnceEach(exported[q])' /\ (Names(exported[q]) \subseteq NamesBy(at[q]))'
  <2>1. OnceEach(g[q]) /\ Names(g[q]) \subseteq NamesBy(at'[q])
    BY <1>11
  <2>2. OnceEach(exported[q])'
    BY <1>5, <2>1 DEF OnceEach, Names
  <2>3. (Names(exported[q]) \subseteq NamesBy(at[q]))'
    BY <1>5, <2>1 DEF Names, NamesBy
  <2> QED  BY <2>2, <2>3
<1> QED  BY <1>12, <1>13, <1>14, <1>15 DEF TimelineInv

\* r closes one span and goes on.
LEMMA OneRecorded ==
  ASSUME TelemetryInv, TimelineInv, NEW r \in Rollouts, at[r] \in Midway,
         NEW to \in Midway \cup {"ended"}, Goes(r, to),
         NEW s \in Spans, Record(r, s, Running),
         s.name \notin NamesBy(at[r]), NamesBy(at[r]) \cup {s.name} \subseteq NamesBy(to)
  PROVE  TimelineInv'
<1>1. PICK kept : kept = Kept(r, s)
  OBVIOUS
<1>2. PICK new : new = RecordSpan(mem, r, s)
  OBVIOUS
<1>3. Recorded(r, new, kept, Running)
  BY <1>1, <1>2 DEF Record
<1>4. kept \in Seq(Spans)
  BY <1>1, KeptOne
<1>5. Follows(mem, new, r, kept)
  BY <1>1, <1>2, RecordFollows DEF TimelineInv
<1>6. PICK es : es = exported[r]
  OBVIOUS
<1>7. es \in Seq(Spans) /\ OnceEach(es) /\ Names(es) \subseteq NamesBy(at[r])
  BY <1>6 DEF TelemetryInv, ExportTyping, TimelineInv
<1>8. OnceEach(es \o kept) /\ Names(es \o kept) \subseteq Names(es) \cup {s.name}
  BY <1>1, <1>7, KeptNames
<1>9. Names(es \o kept) \subseteq NamesBy(to)
  BY <1>7, <1>8
<1> QED  BY <1>3, <1>4, <1>5, <1>6, <1>8, <1>9, RecordedStays

\* r closes two, one after the other.
LEMMA TwoRecorded ==
  ASSUME TelemetryInv, TimelineInv, NEW r \in Rollouts, at[r] \in Midway,
         NEW to \in Midway \cup {"ended"}, Goes(r, to),
         NEW s \in Spans, NEW t \in Spans, RecordBoth(r, s, t, Running),
         s.name \notin NamesBy(at[r]), t.name \notin NamesBy(at[r]), s.name # t.name,
         NamesBy(at[r]) \cup {s.name, t.name} \subseteq NamesBy(to)
  PROVE  TimelineInv'
<1>1. PICK first : first = Kept(r, s)
  OBVIOUS
<1>2. PICK second : second = Kept(r, t)
  OBVIOUS
<1>3. PICK between : between = RecordSpan(mem, r, s)
  OBVIOUS
<1>4. PICK new : new = RecordSpan(between, r, t)
  OBVIOUS
<1>5. PICK kept : kept = first \o second
  OBVIOUS
<1>6. Recorded(r, new, kept, Running)
  BY <1>1, <1>2, <1>3, <1>4, <1>5 DEF RecordBoth
<1>7. first \in Seq(Spans) /\ second \in Seq(Spans) /\ kept \in Seq(Spans)
  <2>1. first \in Seq(Spans)
    BY <1>1, KeptOne
  <2>2. second \in Seq(Spans)
    BY <1>2, KeptOne
  <2> QED  BY <1>5, <2>1, <2>2
<1>8. Follows(mem, new, r, kept)
  <2>1. RingShape(mem) /\ RingFits(mem)
    BY DEF TimelineInv
  <2>2. Follows(mem, between, r, first)
    BY <1>1, <1>3, <2>1, RecordFollows
  <2>3. Follows(between, new, r, second)
    <3>1. RingShape(between) /\ RingFits(between)
      BY <2>2 DEF Follows
    <3> QED  BY <1>2, <1>4, <3>1, RecordFollows
  <2>4. Follows(mem, new, r, first \o second)
    BY <1>7, <2>1, <2>2, <2>3, FollowsOn
  <2> QED  BY <1>5, <2>4
<1>9. PICK es : es = exported[r]
  OBVIOUS
<1>10. es \in Seq(Spans) /\ OnceEach(es) /\ Names(es) \subseteq NamesBy(at[r])
  BY <1>9 DEF TelemetryInv, ExportTyping, TimelineInv
<1>11. PICK some : some = es \o first
  OBVIOUS
<1>12. some \in Seq(Spans) /\ OnceEach(some) /\ Names(some) \subseteq Names(es) \cup {s.name}
  BY <1>1, <1>10, <1>11, KeptNames
<1>13. PICK more : more = some \o second
  OBVIOUS
<1>14. OnceEach(more) /\ Names(more) \subseteq Names(some) \cup {t.name}
  BY <1>2, <1>10, <1>12, <1>13, KeptNames
<1>15. more = es \o kept
  BY <1>5, <1>7, <1>10, <1>11, <1>13, ConcatAssociative
<1>16. Names(more) \subseteq NamesBy(to)
  BY <1>10, <1>12, <1>14
<1> QED  BY <1>6, <1>7, <1>8, <1>9, <1>14, <1>15, <1>16, RecordedStays

LEMMA NamesByPlace ==
  /\ NamesBy("off") = {} /\ NamesBy("provision") = {}
  /\ NamesBy("generate") = {"sandbox.provision"}
  /\ NamesBy("finalize") = {"sandbox.provision", "inference.generate"}
  /\ NamesBy("finalize, raising") = {"sandbox.provision", "inference.generate"}
  /\ NamesBy("reward") =
       {"sandbox.provision", "inference.generate", "sandbox.finalize", "rollout"}
  /\ NamesBy("ended") = SpanNames
BY DEF NamesBy

LEMMA SpanOf ==
  ASSUME NEW name \in SpanNames, NEW told \in BOOLEAN
  PROVE  Span(name, told) \in Spans /\ Span(name, told).name = name
BY DEF Span, Spans

LEMMA RootSpans ==
  ASSUME NEW st
  PROVE  /\ RootSpan(st) \in Spans /\ RootSpan(st).name = "rollout"
         /\ Outcome(st) \in Spans /\ Outcome(st).name = "rollout.outcome"
         /\ RootBroken \in Spans /\ RootBroken.name = "rollout"
BY SpanOf DEF SpanNames, RootSpan, RootBroken, Outcome, Bad

\* Nothing is recorded, and at most a rollout starts.
LEMMA StoreStays ==
  ASSUME TelemetryInv, TimelineInv, UNCHANGED storeVars,
         \A q \in Rollouts :
           \/ at'[q] = at[q]
           \/ at[q] = "off" /\ at'[q] = "provision"
           \/ at[q] = "reward" /\ at'[q] = "ended"
  PROVE  TimelineInv'
<1>1. mem' = mem /\ exported' = exported /\ cut' = cut
  BY DEF storeVars
<1>2. RingShape(mem)' /\ RingFits(mem)'
  BY <1>1 DEF TimelineInv, RingShape, RingFits, SpanLists, SpanPlaces, Held
<1>3. /\ IsFiniteSet(SpanPlaces(exported))'
      /\ (Held(mem) + mem.dropped = Cardinality(SpanPlaces(exported)))'
  BY <1>1 DEF TimelineInv, Held, SpanPlaces
<1>4. \A q \in Rollouts \ cut' : InMemory(q)'
  BY <1>1 DEF TimelineInv, InMemory
<1>5. ASSUME NEW q \in Rollouts
      PROVE  OnceEach(exported[q])' /\ (Names(exported[q]) \subseteq NamesBy(at[q]))'
  <2>1. OnceEach(exported[q]) /\ Names(exported[q]) \subseteq NamesBy(at[q])
    BY DEF TimelineInv
  <2>2. NamesBy(at[q]) \subseteq NamesBy(at'[q])
    BY NamesByPlace DEF SpanNames
  <2>3. OnceEach(exported[q])'
    BY <1>1, <2>1 DEF OnceEach, Names
  <2>4. (Names(exported[q]) \subseteq NamesBy(at[q]))'
    <3>1. Names(exported[q])' = Names(exported[q])
      BY <1>1 DEF Names
    <3>2. NamesBy(at[q])' = NamesBy(at'[q])
      BY DEF NamesBy
    <3> QED  BY <2>1, <2>2, <3>1, <3>2
  <2> QED  BY <2>3, <2>4
<1> QED  BY <1>2, <1>3, <1>4, <1>5 DEF TimelineInv

LEMMA ProvisionKeepsTimeline ==
  ASSUME TelemetryInv, TimelineInv, NEW r \in Rollouts,
         Provisioned(r) \/ ProvisionFails(r) \/ ProvisionCancelled(r)
  PROVE  TimelineInv'
<1>1. at[r] = "provision" /\ at[r] \in Midway
  BY DEF Provisioned, ProvisionFails, ProvisionCancelled, Midway
<1>2. ASSUME NEW told \in BOOLEAN
      PROVE  /\ Span("sandbox.provision", told) \in Spans
             /\ Span("sandbox.provision", told).name = "sandbox.provision"
  BY SpanOf DEF SpanNames
<1>3. CASE Provisioned(r)
  <2>1. Record(r, Span("sandbox.provision", FALSE), Running) /\ Goes(r, "generate")
    BY <1>3 DEF Provisioned
  <2>2. "generate" \in Midway \cup {"ended"}
    BY DEF Midway
  <2> QED  BY <1>1, <1>2, <2>1, <2>2, NamesByPlace, OneRecorded
<1>4. CASE ProvisionFails(r)
  <2>1. /\ RecordBoth(r, Span("sandbox.provision", TRUE), RootSpan("aborted"), Running)
        /\ Goes(r, "reward")
    BY <1>4 DEF ProvisionFails
  <2>2. "reward" \in Midway \cup {"ended"}
    BY DEF Midway
  <2> QED  BY <1>1, <1>2, <2>1, <2>2, RootSpans, NamesByPlace, TwoRecorded
<1>5. CASE ProvisionCancelled(r)
  <2>1. /\ RecordBoth(r, Span("sandbox.provision", TRUE), RootBroken, Running)
        /\ Goes(r, "ended")
    BY <1>5 DEF ProvisionCancelled, Ends
  <2> QED  BY <1>1, <1>2, <2>1, RootSpans, NamesByPlace, TwoRecorded DEF SpanNames
<1> QED  BY <1>3, <1>4, <1>5

LEMMA GenerateKeepsTimeline ==
  ASSUME TelemetryInv, TimelineInv, NEW r \in Rollouts,
         Generated(r) \/ GenerateFails(r) \/ GenerateCancelled(r)
  PROVE  TimelineInv'
<1>1. at[r] = "generate" /\ at[r] \in Midway
  BY DEF Generated, GenerateFails, GenerateCancelled, Midway
<1>2. PICK told \in BOOLEAN, to \in {"finalize", "finalize, raising"} :
        Record(r, Span("inference.generate", told), Running) /\ Goes(r, to)
  BY DEF Generated, GenerateFails, GenerateCancelled
<1>3. /\ Span("inference.generate", told) \in Spans
      /\ Span("inference.generate", told).name = "inference.generate"
  BY SpanOf DEF SpanNames
<1>4. /\ to \in Midway \cup {"ended"}
      /\ NamesBy(to) = {"sandbox.provision", "inference.generate"}
  BY NamesByPlace DEF Midway
<1> QED  BY <1>1, <1>2, <1>3, <1>4, NamesByPlace, OneRecorded

LEMMA FinalizeKeepsTimeline ==
  ASSUME TelemetryInv, TimelineInv, NEW r \in Rollouts,
         Finalized(r) \/ FinalizedRaising(r) \/ FinalizeCancelled(r)
  PROVE  TimelineInv'
<1>1. /\ at[r] \in {"finalize", "finalize, raising"} /\ at[r] \in Midway
      /\ NamesBy(at[r]) = {"sandbox.provision", "inference.generate"}
  BY NamesByPlace DEF Finalized, FinalizedRaising, FinalizeCancelled, Midway
<1>2. PICK told \in BOOLEAN, root \in {RootSpan(status[r]), RootBroken},
           to \in {"reward", "ended"} :
        RecordBoth(r, Span("sandbox.finalize", told), root, Running) /\ Goes(r, to)
  BY DEF Finalized, FinalizedRaising, FinalizeCancelled, Ends
<1>3. /\ Span("sandbox.finalize", told) \in Spans
      /\ Span("sandbox.finalize", told).name = "sandbox.finalize"
      /\ root \in Spans /\ root.name = "rollout"
  BY SpanOf, RootSpans DEF SpanNames
<1>4. /\ to \in Midway \cup {"ended"}
      /\ {"sandbox.provision", "inference.generate", "sandbox.finalize", "rollout"}
           \subseteq NamesBy(to)
  BY NamesByPlace DEF Midway, SpanNames
<1>5. PICK s : s = Span("sandbox.finalize", told)
  OBVIOUS
<1>6. s \in Spans /\ s.name = "sandbox.finalize" /\ RecordBoth(r, s, root, Running)
  BY <1>2, <1>3, <1>5
<1>7. /\ s.name \notin NamesBy(at[r]) /\ root.name \notin NamesBy(at[r]) /\ s.name # root.name
      /\ NamesBy(at[r]) \cup {s.name, root.name} \subseteq NamesBy(to)
  BY <1>1, <1>3, <1>4, <1>6
<1> QED  BY <1>1, <1>2, <1>3, <1>4, <1>6, <1>7, TwoRecorded

LEMMA RewardKeepsTimeline ==
  ASSUME TelemetryInv, TimelineInv, NEW r \in Rollouts, Rewarded(r) \/ RewardFails(r)
  PROVE  TimelineInv'
<1>1. at[r] = "reward" /\ at[r] \in Midway
  BY DEF Rewarded, RewardFails, Midway
<1>2. ASSUME NEW told \in BOOLEAN
      PROVE  /\ Span("reward.compute", told) \in Spans
             /\ Span("reward.compute", told).name = "reward.compute"
  BY SpanOf DEF SpanNames
<1>3. Goes(r, "ended")
  BY DEF Rewarded, RewardFails, Ends
<1>4. CASE Rewarded(r)
  <2>1. PICK s \in Spans, t \in Spans :
          /\ s.name = "reward.compute" /\ t.name = "rollout.outcome"
          /\ RecordBoth(r, s, t, Running)
    <3>1. RecordBoth(r, Span("reward.compute", FALSE), Outcome(status[r]), Running)
      BY <1>4 DEF Rewarded
    <3> QED  BY <1>2, <3>1, RootSpans
  <2>2. /\ s.name \notin NamesBy(at[r]) /\ t.name \notin NamesBy(at[r]) /\ s.name # t.name
        /\ NamesBy(at[r]) \cup {s.name, t.name} \subseteq NamesBy("ended")
    BY <1>1, <2>1, NamesByPlace DEF SpanNames
  <2>3. "ended" \in Midway \cup {"ended"}
    OBVIOUS
  <2> QED  BY <1>1, <1>3, <2>1, <2>2, <2>3, TwoRecorded
<1>5. CASE RewardFails(r)
  <2>1. PICK s \in Spans : s.name = "reward.compute" /\ Record(r, s, Running)
    BY <1>2, <1>5 DEF RewardFails
  <2>2. /\ s.name \notin NamesBy(at[r])
        /\ NamesBy(at[r]) \cup {s.name} \subseteq NamesBy("ended")
    BY <1>1, <2>1, NamesByPlace DEF SpanNames
  <2>3. "ended" \in Midway \cup {"ended"}
    OBVIOUS
  <2> QED  BY <1>1, <1>3, <2>1, <2>2, <2>3, OneRecorded
<1> QED  BY <1>4, <1>5

LEMMA TimelineInit == Init => TimelineInv
<1> SUFFICES ASSUME Init PROVE TimelineInv
  OBVIOUS
<1>1. mem = EmptyMemory /\ exported = [r \in Rollouts |-> <<>>] /\ cut = {}
  BY DEF Init, StoreInit
<1>2. PICK f : f = [r \in Rollouts |-> <<>>]
  OBVIOUS
<1>3. f \in SpanLists /\ \A r \in Rollouts : f[r] = <<>>
  <2>1. <<>> \in Seq(Spans)
    OBVIOUS
  <2> QED  BY <1>2, <2>1 DEF SpanLists
<1>4. SpanPlaces(f) = {}
  <2>1. ASSUME NEW r \in Rollouts, NEW i \in Nat
        PROVE  <<r, i>> \notin SpanPlaces(f)
    <3>1. <<r, i>> \in SpanPlaces(f) <=> i \in 1 .. Len(f[r])
      BY <1>3, PlaceOf
    <3>2. Len(f[r]) = 0
      BY <1>3
    <3> QED  BY <3>1, <3>2
  <2> QED  BY <1>3, <2>1, PlaceOf
<1>5. IsFiniteSet(SpanPlaces(f)) /\ Cardinality(SpanPlaces(f)) = 0
  BY <1>4, FS_EmptySet
<1>6. mem = [spans |-> f, ids |-> <<>>, dropped |-> 0, skipped |-> 0] /\ exported = f
  BY <1>1, <1>2 DEF EmptyMemory
<1>7. RingShape(mem)
  <2>1. <<>> \in Seq(Rollouts) /\ Distinct(<<>>) /\ Entries(<<>>) = {}
    BY DEF Distinct, Entries
  <2> QED  BY <1>3, <1>5, <1>6, <2>1 DEF RingShape
<1>8. RingFits(mem)
  <2>1. Len(mem.ids) = 0 /\ Held(mem) = 0
    BY <1>5, <1>6 DEF Held
  <2> QED  BY <2>1, StoreAssumption DEF RingFits
<1>9. Held(mem) + mem.dropped = Cardinality(SpanPlaces(exported))
  BY <1>5, <1>6 DEF Held
<1>10. ASSUME NEW r \in Rollouts
       PROVE  InMemory(r) /\ OnceEach(exported[r]) /\ Names(exported[r]) \subseteq NamesBy(at[r])
  <2>1. exported[r] = <<>> /\ mem.spans[r] = <<>>
    BY <1>3, <1>6
  <2>2. Names(<<>>) = {} /\ Len(<<>>) = 0
    BY DEF Names
  <2> QED  BY <2>1, <2>2, FS_EmptySet DEF InMemory, OnceEach
<1> QED  BY <1>5, <1>6, <1>7, <1>8, <1>9, <1>10 DEF TimelineInv

LEMMA TimelineNext ==
  TelemetryInv /\ TimelineInv /\ [Next]_vars => TimelineInv'
<1> SUFFICES ASSUME TelemetryInv, TimelineInv, [Next]_vars PROVE TimelineInv'
  OBVIOUS
<1>1. ASSUME NEW r \in Rollouts, Start(r)
      PROVE  TimelineInv'
  <2>1. UNCHANGED storeVars /\ at[r] = "off" /\ at' = [at EXCEPT ![r] = "provision"]
    BY <1>1 DEF Start
  <2>2. \A q \in Rollouts : at'[q] = at[q] \/ (at[q] = "off" /\ at'[q] = "provision")
    BY <2>1 DEF TelemetryInv, RolloutTyping
  <2> QED  BY <2>1, <2>2, StoreStays
<1>4. ASSUME NEW r \in Rollouts, HandOverFails(r)
      PROVE  TimelineInv'
  <2>1. UNCHANGED storeVars /\ at[r] = "reward" /\ at' = [at EXCEPT ![r] = "ended"]
    BY <1>4 DEF HandOverFails, Ends, Goes
  <2>2. \A q \in Rollouts : at'[q] = at[q] \/ (at[q] = "reward" /\ at'[q] = "ended")
    BY <2>1 DEF TelemetryInv, RolloutTyping
  <2> QED  BY <2>1, <2>2, StoreStays
<1>2. ASSUME NEW r \in Rollouts, SeenStep(r), ~ Start(r)
      PROVE  TimelineInv'
  BY <1>2, ProvisionKeepsTimeline, GenerateKeepsTimeline, FinalizeKeepsTimeline,
     RewardKeepsTimeline DEF SeenStep
<1>3. CASE TrackerStep \/ UNCHANGED vars
  <2>1. UNCHANGED storeVars /\ at' = at
    BY <1>3 DEF TrackerStep, vars, rolloutVars
  <2> QED  BY <2>1, StoreStays
<1> QED  BY <1>1, <1>2, <1>3, <1>4 DEF Next

LEMMA TimelineAlways == Spec => [](TelemetryInv /\ TimelineInv)
BY TelemetryInit, TimelineInit, TelemetryNext, TimelineNext, PTL DEF Spec

-----------------------------------------------------------------------------
(* What a reader gets *)

LEMMA OpenedNames ==
  /\ Len(Opened) = 6
  /\ Opened[1] = "rollout" /\ Opened[2] = "sandbox.provision"
  /\ Opened[3] = "inference.generate" /\ Opened[4] = "sandbox.finalize"
  /\ Opened[5] = "reward.compute" /\ Opened[6] = "rollout.outcome"
BY DEF Opened

Reads(has, names, read) ==
  read = [n \in 0 .. 6 |->
            IF n = 0 THEN <<>>
            ELSE IF has[n] THEN Append(read[n - 1], names[n]) ELSE read[n - 1]]

\* The recursion of the reader has a solution, whatever names there are.
LEMMA ReadingExists ==
  ASSUME NEW has, NEW names
  PROVE  \E read : Reads(has, names, read)
<1>1. PICK p0 : p0 = <<>>
  OBVIOUS
<1>2. PICK p1 : p1 = IF has[1] THEN Append(p0, names[1]) ELSE p0
  OBVIOUS
<1>3. PICK p2 : p2 = IF has[2] THEN Append(p1, names[2]) ELSE p1
  OBVIOUS
<1>4. PICK p3 : p3 = IF has[3] THEN Append(p2, names[3]) ELSE p2
  OBVIOUS
<1>5. PICK p4 : p4 = IF has[4] THEN Append(p3, names[4]) ELSE p3
  OBVIOUS
<1>6. PICK p5 : p5 = IF has[5] THEN Append(p4, names[5]) ELSE p4
  OBVIOUS
<1>7. PICK p6 : p6 = IF has[6] THEN Append(p5, names[6]) ELSE p5
  OBVIOUS
<1>8. PICK read : read = [n \in 0 .. 6 |->
                            IF n = 0 THEN p0 ELSE IF n = 1 THEN p1 ELSE IF n = 2 THEN p2
                            ELSE IF n = 3 THEN p3 ELSE IF n = 4 THEN p4
                            ELSE IF n = 5 THEN p5 ELSE p6]
  OBVIOUS
<1>9. /\ read[0] = p0 /\ read[1] = p1 /\ read[2] = p2 /\ read[3] = p3 /\ read[4] = p4
      /\ read[5] = p5 /\ read[6] = p6
  BY <1>8
<1>10. ASSUME NEW n \in 0 .. 6
       PROVE  read[n] = IF n = 0 THEN <<>>
                        ELSE IF has[n] THEN Append(read[n - 1], names[n]) ELSE read[n - 1]
  <2>1. n = 0 \/ n = 1 \/ n = 2 \/ n = 3 \/ n = 4 \/ n = 5 \/ n = 6
    OBVIOUS
  <2>2. CASE n = 0
    BY <1>1, <1>9, <2>2
  <2>3. CASE n = 1
    <3>1. n - 1 = 0 /\ n # 0
      BY <2>3
    <3> QED  BY <1>2, <1>9, <2>3, <3>1
  <2>4. CASE n = 2
    <3>1. n - 1 = 1 /\ n # 0
      BY <2>4
    <3> QED  BY <1>3, <1>9, <2>4, <3>1
  <2>5. CASE n = 3
    <3>1. n - 1 = 2 /\ n # 0
      BY <2>5
    <3> QED  BY <1>4, <1>9, <2>5, <3>1
  <2>6. CASE n = 4
    <3>1. n - 1 = 3 /\ n # 0
      BY <2>6
    <3> QED  BY <1>5, <1>9, <2>6, <3>1
  <2>7. CASE n = 5
    <3>1. n - 1 = 4 /\ n # 0
      BY <2>7
    <3> QED  BY <1>6, <1>9, <2>7, <3>1
  <2>8. CASE n = 6
    <3>1. n - 1 = 5 /\ n # 0
      BY <2>8
    <3> QED  BY <1>7, <1>9, <2>8, <3>1
  <2> QED  BY <2>1, <2>2, <2>3, <2>4, <2>5, <2>6, <2>7, <2>8
<1>11. read = [n \in 0 .. 6 |-> read[n]]
  BY <1>8
<1>12. Reads(has, names, read)
  BY <1>10, <1>11 DEF Reads
<1> QED  BY <1>12

\* A reader gets as many spans as there are names in memory.
LEMMA ReadLength ==
  ASSUME NEW r \in Rollouts, mem.spans[r] \in Seq(Spans), NEW es, es = mem.spans[r],
         IsFiniteSet(Names(es))
  PROVE  Len(SpansForRollout(r)) = Cardinality(Names(es))
<1>1. PICK has : has = [i \in 1 .. 6 |->
                          \E j \in DOMAIN mem.spans[r] : mem.spans[r][j].name = Opened[i]]
  OBVIOUS
<1>2. \A i \in 1 .. 6 : has[i] <=> Opened[i] \in Names(es)
  BY <1>1 DEF Names
<1>3. PICK read :
        /\ read = [n \in 0 .. 6 |->
                     IF n = 0 THEN <<>>
                     ELSE IF \E j \in DOMAIN mem.spans[r] : mem.spans[r][j].name = Opened[n]
                          THEN Append(read[n - 1], Opened[n]) ELSE read[n - 1]]
        /\ SpansForRollout(r) = read[6]
  <2> DEFINE Sol(f) == f = [n \in 0 .. 6 |->
                     IF n = 0 THEN <<>>
                     ELSE IF \E j \in DOMAIN mem.spans[r] : mem.spans[r][j].name = Opened[n]
                          THEN Append(f[n - 1], Opened[n]) ELSE f[n - 1]]
  <2>0. PICK f : Reads(has, Opened, f)
    BY ReadingExists
  <2>1. f = [n \in 0 .. 6 |->
               IF n = 0 THEN <<>>
               ELSE IF has[n] THEN Append(f[n - 1], Opened[n]) ELSE f[n - 1]]
    BY <2>0 DEF Reads
  <2>2. Sol(f)
    <3>1. \A n \in 0 .. 6 : n # 0 =>
            (has[n] <=> \E j \in DOMAIN mem.spans[r] : mem.spans[r][j].name = Opened[n])
      BY <1>1
    <3> QED  BY <2>1, <3>1
  <2>3. Sol(CHOOSE x : Sol(x))
    BY <2>2
  <2>4. SpansForRollout(r) = (CHOOSE x : Sol(x))[6]
    BY OpenedNames DEF SpansForRollout
  <2> QED  BY <2>3, <2>4
<1>4. ASSUME NEW n \in 1 .. 6
      PROVE  read[n] = IF Opened[n] \in Names(es) THEN Append(read[n - 1], Opened[n])
                       ELSE read[n - 1]
  <2>1. n \in 0 .. 6 /\ n # 0
    OBVIOUS
  <2>2. Opened[n] \in Names(es) <=>
          \E j \in DOMAIN mem.spans[r] : mem.spans[r][j].name = Opened[n]
    BY DEF Names
  <2> QED  BY <1>3, <2>1, <2>2
<1> DEFINE Upto(n) == Names(es) \cap {Opened[i] : i \in 1 .. n}
           Good(n) == /\ read[n] \in Seq(SpanNames)
                      /\ IsFiniteSet(Upto(n)) /\ Len(read[n]) = Cardinality(Upto(n))
<1>5. ASSUME NEW m \in 0 .. 5, NEW n \in 1 .. 6, n = m + 1, Good(m)
      PROVE  Good(n)
  <2>1. n - 1 = m
    BY <1>5
  <2>2. Opened[n] \in SpanNames /\ \A i \in 1 .. m : Opened[i] # Opened[n]
    BY <1>5, OpenedNames DEF SpanNames
  <2>3. Opened[n] \notin Upto(m)
    BY <2>2
  <2>4. {Opened[i] : i \in 1 .. n} = {Opened[i] : i \in 1 .. m} \cup {Opened[n]}
    BY <1>5
  <2>5. CASE Opened[n] \in Names(es)
    <3>1. read[n] = Append(read[m], Opened[n])
      BY <1>4, <2>1, <2>5
    <3>2. Upto(n) = Upto(m) \cup {Opened[n]}
      BY <2>4, <2>5
    <3>3. /\ IsFiniteSet(Upto(m) \cup {Opened[n]})
          /\ Cardinality(Upto(m) \cup {Opened[n]}) = Cardinality(Upto(m)) + 1
      BY <1>5, <2>3, FS_AddElement
    <3>4. read[n] \in Seq(SpanNames) /\ Len(read[n]) = Len(read[m]) + 1
      BY <1>5, <2>2, <3>1
    <3> QED  BY <1>5, <3>2, <3>3, <3>4
  <2>6. CASE Opened[n] \notin Names(es)
    <3>1. read[n] = read[m]
      BY <1>4, <2>1, <2>6
    <3>2. Upto(n) = Upto(m)
      BY <2>4, <2>6
    <3> QED  BY <1>5, <3>1, <3>2
  <2> QED  BY <2>5, <2>6
<1>6. Good(0)
  <2>1. read[0] = <<>>
    BY <1>3
  <2>2. Upto(0) = {}
    OBVIOUS
  <2>3. IsFiniteSet(Upto(0)) /\ Cardinality(Upto(0)) = 0
    BY <2>2, FS_EmptySet
  <2>4. read[0] \in Seq(SpanNames) /\ Len(read[0]) = 0
    BY <2>1
  <2> QED  BY <2>3, <2>4
<1>7. Good(6)
  <2> HIDE DEF Good
  <2>1. Good(1)
    BY <1>5, <1>6
  <2>2. Good(2)
    BY <1>5, <2>1
  <2>3. Good(3)
    BY <1>5, <2>2
  <2>4. Good(4)
    BY <1>5, <2>3
  <2>5. Good(5)
    BY <1>5, <2>4
  <2> QED  BY <1>5, <2>5
<1>8. Upto(6) = Names(es)
  <2>1. Names(es) \subseteq SpanNames
    <3>1. \A j \in DOMAIN es : es[j] \in Spans
      OBVIOUS
    <3> QED  BY <3>1 DEF Names, Spans
  <2>2. SpanNames \subseteq {Opened[i] : i \in 1 .. 6}
    BY OpenedNames DEF SpanNames
  <2> QED  BY <2>1, <2>2
<1> QED  BY <1>3, <1>7, <1>8

\* Whatever the limits of the ring, and however rollouts interleave and fail: one that is in
\* memory and lost nothing while it ran is read back as it was exported, and no span
\* is missing that is not counted (InMemoryTelemetryStore.record_span, _evict_spans).
THEOREM TimelineIsWholeCorrect == Spec => []TimelineIsWhole
<1>1. TelemetryInv /\ TimelineInv => TimelineIsWhole
  <2> SUFFICES ASSUME TelemetryInv, TimelineInv
               PROVE  TimelineIsWhole
    OBVIOUS
  <2>1. ASSUME NEW r \in ToSet(mem.ids) \ cut
        PROVE  /\ ToSet(mem.spans[r]) = ToSet(exported[r])
               /\ Len(SpansForRollout(r)) = Len(exported[r])
    <3>1. r \in Rollouts /\ mem.spans[r] # <<>> /\ mem.spans[r] \in Seq(Spans)
      <4>1. mem.ids \in Seq(Rollouts) /\ mem.spans \in SpanLists
        BY DEF TimelineInv, RingShape
      <4>2. r \in Entries(mem.ids)
        BY <4>1 DEF ToSet, Entries
      <4>3. r \in Rollouts
        BY <4>1, <4>2 DEF Entries
      <4> QED  BY <4>1, <4>2, <4>3 DEF TimelineInv, RingShape, SpanLists
    <3>2. mem.spans[r] = exported[r]
      BY <3>1 DEF TimelineInv, InMemory
    <3>3. OnceEach(mem.spans[r])
      BY <3>1, <3>2 DEF TimelineInv
    <3>4. Len(SpansForRollout(r)) = Cardinality(Names(mem.spans[r]))
      BY <3>1, <3>3, ReadLength DEF OnceEach
    <3> QED  BY <3>2, <3>3, <3>4 DEF OnceEach
  <2> QED  BY <2>1 DEF TimelineInv, TimelineIsWhole
<1> QED  BY <1>1, TimelineAlways, PTL

\* The ring never exceeds its limits: once round each loop of the eviction is enough
\* (InMemoryTelemetryStore._evict_spans).
THEOREM RingIsBounded == Spec => [](Len(mem.ids) <= MaxRollouts /\ Held(mem) <= MaxSpans)
<1>1. TimelineInv => Len(mem.ids) <= MaxRollouts /\ Held(mem) <= MaxSpans
  BY DEF TimelineInv, RingFits
<1> QED  BY <1>1, TimelineAlways, PTL
=============================================================================
