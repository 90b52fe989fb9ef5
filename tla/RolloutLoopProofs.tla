-------------------------- MODULE RolloutLoopProofs --------------------------
(***************************************************************************)
(* A rollout ends with the status it deserves, and a completed one hands   *)
(* the trainer something to train on: TypeOK, StatusExplained and          *)
(* DeliveredIsUsable of RolloutLoop, for every configuration, every reply  *)
(* of the model and every result of a tool.                                *)
(***************************************************************************)
EXTENDS RolloutLoop, SequenceTheorems, WellFoundedInduction, TLAPS

-----------------------------------------------------------------------------
(* Induction and recursion over 0 .. n, for sets instead of predicates *)

NatLess == OpToRel(<, Nat)

\* A set of numbers has a least one.
LEMMA LeastNumber ==
    ASSUME NEW T \in SUBSET Nat, T # {}
    PROVE  \E n \in T : \A m \in T : n <= m
<1>1. IsWellFoundedOn(NatLess, Nat)
  BY NatLessThanWellFounded, Zenon DEF NatLess
<1>2. \A x, y \in Nat : <<y, x>> \in NatLess <=> y < x
  BY DEF NatLess, OpToRel
<1>3. PICK n \in T : \A m \in T : ~ (<<m, n>> \in NatLess)
  BY <1>1, WFMin
<1>4. \A m \in T : ~ (m < n)
  BY <1>2, <1>3
<1> QED  BY <1>4

\* A set of numbers that holds 0 and with each number its successor is Nat.
LEMMA SetInduction ==
    ASSUME NEW S \in SUBSET Nat, 0 \in S, \A n \in S : n + 1 \in S
    PROVE  S = Nat
<1> SUFFICES ASSUME Nat \ S # {} PROVE FALSE
  OBVIOUS
<1>1. PICK n \in Nat \ S : \A m \in Nat \ S : n <= m
  BY LeastNumber
<1>2. n - 1 \in S
  BY <1>1
<1> QED  BY <1>1, <1>2

Recursion(V, base, n, step) ==
    base \in V /\ n \in Nat /\ step \in [1 .. n -> [V -> V]]

SolvedBy(f, V, base, n, step) ==
    /\ f \in [0 .. n -> V]
    /\ f[0] = base
    /\ \A i \in 1 .. n : f[i] = step[i][f[i - 1]]

\* A recursion that goes down by one has a solution.
LEMMA RecursionSolved ==
    ASSUME NEW V, NEW base, NEW n, NEW step, Recursion(V, base, n, step)
    PROVE  \E f : SolvedBy(f, V, base, n, step)
<1> DEFINE S == {k \in Nat : k <= n => \E f : SolvedBy(f, V, base, k, step)}
<1>1. 0 \in S
  <2>1. SolvedBy([i \in 0 .. 0 |-> base], V, base, 0, step)
    BY DEF Recursion, SolvedBy
  <2> QED  BY <2>1
<1>2. ASSUME NEW k \in S, k + 1 <= n  PROVE \E f : SolvedBy(f, V, base, k + 1, step)
  <2>1. k \in Nat /\ n \in Nat /\ k <= n
    BY <1>2 DEF Recursion
  <2>2. PICK f : SolvedBy(f, V, base, k, step)
    BY <2>1
  <2> DEFINE g == [i \in 0 .. k + 1 |-> IF i <= k THEN f[i] ELSE step[i][f[i - 1]]]
  <2>3. g \in [0 .. k + 1 -> V]
    BY <1>2, <2>1, <2>2 DEF Recursion, SolvedBy
  <2>4. g[0] = base /\ \A i \in 1 .. k + 1 : g[i] = step[i][g[i - 1]]
    BY <1>2, <2>1, <2>2 DEF SolvedBy
  <2> QED  BY <2>3, <2>4 DEF SolvedBy
<1>3. \A k \in S : k + 1 \in S
  BY <1>2
<1>4. S = Nat
  BY <1>1, <1>3, SetInduction
<1>5. n \in S
  BY <1>4 DEF Recursion
<1> QED  BY <1>5

Selects(f, s, kinds) ==
    f = [i \in 0 .. Len(s) |->
            IF i = 0 THEN <<>>
            ELSE IF s[i] \in kinds THEN Append(f[i - 1], s[i]) ELSE f[i - 1]]

\* Only's recursion has a solution.
LEMMA SelectionExists ==
    ASSUME NEW T, NEW s \in Seq(T), NEW kinds
    PROVE  \E f : Selects(f, s, kinds)
<1> DEFINE V == Seq(kinds)
           step == [i \in 1 .. Len(s) |-> [t \in V |->
                      IF s[i] \in kinds THEN Append(t, s[i]) ELSE t]]
<1>1. Recursion(V, <<>>, Len(s), step)
  BY DEF Recursion
<1>2. PICK f : SolvedBy(f, V, <<>>, Len(s), step)
  BY <1>1, RecursionSolved
<1>3. Len(s) \in Nat /\ f \in [0 .. Len(s) -> V] /\ f[0] = <<>>
  BY <1>2 DEF SolvedBy
<1>4. ASSUME NEW i \in 1 .. Len(s)
      PROVE  f[i] = IF s[i] \in kinds THEN Append(f[i - 1], s[i]) ELSE f[i - 1]
  <2>1. i - 1 \in 0 .. Len(s)
    BY <1>3
  <2>2. f[i - 1] \in V
    BY <1>3, <2>1
  <2>3. f[i] = step[i][f[i - 1]]
    BY <1>2 DEF SolvedBy
  <2> QED  BY <2>2, <2>3
<1>5. f = [i \in 0 .. Len(s) |->
             IF i = 0 THEN <<>>
             ELSE IF s[i] \in kinds THEN Append(f[i - 1], s[i]) ELSE f[i - 1]]
  <2>1. f = [i \in 0 .. Len(s) |-> f[i]]
    BY <1>3
  <2>2. ASSUME NEW i \in 0 .. Len(s)
        PROVE  f[i] = IF i = 0 THEN <<>>
                      ELSE IF s[i] \in kinds THEN Append(f[i - 1], s[i]) ELSE f[i - 1]
    <3>1. i = 0 \/ i \in 1 .. Len(s)
      BY <1>3
    <3>2. CASE i = 0
      BY <1>3, <3>2, Zenon
    <3>3. CASE i # 0
      BY <1>4, <3>1, <3>3, Zenon
    <3> QED  BY <3>2, <3>3
  <2> QED  BY <2>1, <2>2, Zenon
<1> QED  BY <1>5 DEF Selects

\* Its solution is a sequence over kinds.
LEMMA SelectionType ==
    ASSUME NEW T, NEW s \in Seq(T), NEW kinds, NEW f, Selects(f, s, kinds)
    PROVE  f[Len(s)] \in Seq(kinds)
<1> DEFINE S == {k \in Nat : k <= Len(s) => f[k] \in Seq(kinds)}
<1>0. Len(s) \in Nat
  OBVIOUS
<1>1. f[0] = <<>>
  <2>1. 0 \in 0 .. Len(s)
    BY <1>0
  <2> QED  BY <2>1, Zenon DEF Selects
<1>2. ASSUME NEW k \in Nat, k + 1 <= Len(s)
      PROVE  f[k + 1] = IF s[k + 1] \in kinds THEN Append(f[k], s[k + 1]) ELSE f[k]
  <2>1. k + 1 \in 0 .. Len(s) /\ k + 1 # 0 /\ (k + 1) - 1 = k
    BY <1>0, <1>2
  <2> QED  BY <2>1, Zenon DEF Selects
<1>3. 0 \in S
  <2>1. f[0] \in Seq(kinds)
    BY <1>1
  <2> QED  BY <2>1
<1>4. ASSUME NEW k \in S  PROVE k + 1 \in S
  <2>1. CASE k + 1 <= Len(s)
    <3>1. f[k] \in Seq(kinds) /\ s[k + 1] \in T
      BY <1>0, <2>1
    <3>2. f[k + 1] = IF s[k + 1] \in kinds THEN Append(f[k], s[k + 1]) ELSE f[k]
      BY <1>2, <2>1
    <3>3. s[k + 1] \in kinds => Append(f[k], s[k + 1]) \in Seq(kinds)
      BY <3>1, AppendProperties
    <3>4. f[k + 1] \in Seq(kinds)
      BY <3>1, <3>2, <3>3, Zenon
    <3> QED  BY <3>4
  <2>2. CASE ~ (k + 1 <= Len(s))
    BY <2>2
  <2> QED  BY <2>1, <2>2
<1>5. S = Nat
  BY <1>3, <1>4, SetInduction
<1> QED  BY <1>0, <1>5

LEMMA OnlyType ==
    ASSUME NEW T, NEW s \in Seq(T), NEW kinds
    PROVE  Only(s, kinds) \in Seq(kinds)
<1> DEFINE f == CHOOSE g : Selects(g, s, kinds)
<1>1. Selects(f, s, kinds)
  BY SelectionExists
<1>2. f[Len(s)] \in Seq(kinds)
  BY <1>1, SelectionType
<1> QED  BY <1>2 DEF Only, Selects

TokensOf(ev, types, i) == IF ev[i].type \in types THEN ev[i].tokens ELSE 0

Sums(f, ev, types) ==
    f = [i \in 0 .. Len(ev) |->
            IF i = 0 THEN 0
            ELSE f[i - 1] + IF ev[i].type \in types THEN ev[i].tokens ELSE 0]

LEMMA TokensOfType ==
    ASSUME NEW ev \in Seq(Event), NEW types, NEW i \in 1 .. Len(ev)
    PROVE  TokensOf(ev, types, i) \in Nat
<1>1. ev[i] \in Event
  OBVIOUS
<1> QED  BY <1>1 DEF Event, TokensOf

\* The recursion of Tokens has a solution.
LEMMA SumExists ==
    ASSUME NEW ev \in Seq(Event), NEW types
    PROVE  \E f : Sums(f, ev, types)
<1> DEFINE step == [i \in 1 .. Len(ev) |-> [m \in Nat |-> m + TokensOf(ev, types, i)]]
<1>1. Recursion(Nat, 0, Len(ev), step)
  BY TokensOfType DEF Recursion
<1>2. PICK f : SolvedBy(f, Nat, 0, Len(ev), step)
  BY <1>1, RecursionSolved
<1>3. Len(ev) \in Nat /\ f \in [0 .. Len(ev) -> Nat] /\ f[0] = 0
  BY <1>2 DEF SolvedBy
<1>4. ASSUME NEW i \in 1 .. Len(ev)  PROVE f[i] = f[i - 1] + TokensOf(ev, types, i)
  <2>1. i - 1 \in 0 .. Len(ev)
    BY <1>3
  <2>2. f[i - 1] \in Nat
    BY <1>3, <2>1
  <2>3. f[i] = step[i][f[i - 1]]
    BY <1>2 DEF SolvedBy
  <2> QED  BY <2>2, <2>3
<1>5. f = [i \in 0 .. Len(ev) |-> IF i = 0 THEN 0 ELSE f[i - 1] + TokensOf(ev, types, i)]
  BY <1>3, <1>4
<1> QED  BY <1>5 DEF Sums, TokensOf

\* Its solution is a number, and positive when one of the events has tokens.
LEMMA SumType ==
    ASSUME NEW ev \in Seq(Event), NEW types, NEW f, Sums(f, ev, types)
    PROVE  /\ f[Len(ev)] \in Nat
           /\ \A j \in 1 .. Len(ev) : TokensOf(ev, types, j) > 0 => f[Len(ev)] > 0
<1> DEFINE S == {k \in Nat : k <= Len(ev) =>
                     /\ f[k] \in Nat
                     /\ \A j \in 1 .. k : TokensOf(ev, types, j) > 0 => f[k] > 0}
<1>0. Len(ev) \in Nat
  OBVIOUS
<1>1. f[0] = 0
  BY <1>0 DEF Sums
<1>2. ASSUME NEW k \in Nat, k + 1 <= Len(ev)
      PROVE  f[k + 1] = f[k] + TokensOf(ev, types, k + 1)
  BY <1>0, <1>2 DEF Sums, TokensOf
<1>3. 0 \in S
  BY <1>1
<1>4. ASSUME NEW k \in S, k + 1 <= Len(ev)
      PROVE  /\ f[k + 1] \in Nat
             /\ \A j \in 1 .. k + 1 : TokensOf(ev, types, j) > 0 => f[k + 1] > 0
  <2>1. /\ k \in Nat /\ f[k] \in Nat
        /\ \A j \in 1 .. k : TokensOf(ev, types, j) > 0 => f[k] > 0
    BY <1>0, <1>4
  <2>2. k + 1 \in 1 .. Len(ev)
    BY <1>0, <1>4, <2>1
  <2>3. f[k + 1] = f[k] + TokensOf(ev, types, k + 1) /\ TokensOf(ev, types, k + 1) \in Nat
    BY <1>2, <1>4, <2>1, <2>2, TokensOfType
  <2>4. ASSUME NEW j \in 1 .. k + 1, TokensOf(ev, types, j) > 0  PROVE f[k + 1] > 0
    <3>1. j \in 1 .. k \/ j = k + 1
      BY <2>1
    <3> QED  BY <2>1, <2>3, <2>4, <3>1
  <2> QED  BY <2>1, <2>3, <2>4
<1>5. \A k \in S : k + 1 \in S
  BY <1>4
<1>6. S = Nat
  BY <1>3, <1>5, SetInduction
<1> QED  BY <1>0, <1>6

LEMMA TokensSum ==
    ASSUME NEW ev \in Seq(Event), NEW types
    PROVE  /\ Tokens(ev, types) \in Nat
           /\ \A k \in DOMAIN ev :
                 ev[k].type \in types /\ ev[k].tokens > 0 => Tokens(ev, types) > 0
<1> DEFINE f == CHOOSE g : Sums(g, ev, types)
<1>1. Sums(f, ev, types)
  BY SumExists
<1>2. /\ f[Len(ev)] \in Nat
      /\ \A j \in 1 .. Len(ev) : TokensOf(ev, types, j) > 0 => f[Len(ev)] > 0
  BY <1>1, SumType
<1>3. Tokens(ev, types) = f[Len(ev)]
  BY DEF Tokens, Sums
<1> QED  BY <1>2, <1>3 DEF TokensOf

-----------------------------------------------------------------------------
(* The invariant *)

NoErrors(ev) == \A i \in DOMAIN ev : ev[i].type # "error"

\* The model wrote something.
HasText(ev) == \E i \in DOMAIN ev : ev[i].type = "generation" /\ ev[i].tokens > 0

LastIsError(ev) == ev # <<>> /\ ev[Len(ev)].type = "error"

Typing == TypeOK /\ (pc = "tool" => todo # <<>>)

\* The loop runs with the status it will have if it completes.
Running ==
    InTheLoop =>
        /\ status = "completed" /\ error = "none" /\ ~ cancelled
        /\ NoErrors(events)
        /\ pc \in {"generate", "tool"} => turn > 0
        /\ pc = "tool" => HasText(events)

\* Why the loop was left.
LeftCompleted ==
    /\ error = "none" /\ turn > 0 /\ ~ BudgetExceeded(used)
    /\ NoErrors(events) /\ HasText(events)
    /\ request.require_passing => TestsCurrentlyPassing(events)

LeftBroken ==
    /\ error # "none"
    /\ status = "failed" => error \notin Timeouts
    /\ error # "rollout_timeout" => LastIsError(events)

LeftWith ==
    ~ InTheLoop /\ ~ cancelled =>
        /\ status = "completed" => LeftCompleted
        /\ status = "truncated" => TruncatedExplained
        /\ status \in {"aborted", "failed"} => LeftBroken

CancelledGoes == cancelled => pc \in {"close", "cancelled"}

\* The sample tells of the trajectory.
SampleTells ==
    /\ pc = "reward" => sample = Applied /\ request.reward_function
    /\ pc = "returned" =>
          /\ sample.status = status /\ status # "failed"
          /\ sample.removed = (status = "aborted")
          /\ sample.trainable = Tokens(events, {"generation"})
          /\ ~ request.reward_function => sample.reward = RewardFromEvents(events)

Inv == Typing /\ Running /\ LeftWith /\ CancelledGoes /\ SampleTells

-----------------------------------------------------------------------------
(* Events *)

\* An event that is no error leaves a trajectory without errors, and what the
\* model wrote stays written.
LEMMA AppendKeeps ==
    ASSUME NEW ev \in Seq(Event), NEW e \in Event
    PROVE  /\ Append(ev, e) \in Seq(Event)
           /\ NoErrors(ev) /\ e.type # "error" => NoErrors(Append(ev, e))
           /\ HasText(ev) => HasText(Append(ev, e))
           /\ e.type = "generation" /\ e.tokens > 0 => HasText(Append(ev, e))
           /\ e.type = "error" => LastIsError(Append(ev, e))
<1>1. /\ Append(ev, e) \in Seq(Event) /\ Len(Append(ev, e)) = Len(ev) + 1
      /\ \A i \in DOMAIN ev : i \in DOMAIN Append(ev, e) /\ Append(ev, e)[i] = ev[i]
      /\ Append(ev, e)[Len(ev) + 1] = e /\ Len(ev) + 1 \in DOMAIN Append(ev, e)
      /\ \A i \in DOMAIN Append(ev, e) : i \in DOMAIN ev \/ i = Len(ev) + 1
  OBVIOUS
<1>2. NoErrors(ev) /\ e.type # "error" => NoErrors(Append(ev, e))
  BY <1>1 DEF NoErrors
<1>3. HasText(ev) => HasText(Append(ev, e))
  BY <1>1 DEF HasText
<1>4. e.type = "generation" /\ e.tokens > 0 => HasText(Append(ev, e))
  BY <1>1 DEF HasText
<1>5. e.type = "error" => LastIsError(Append(ev, e))
  BY <1>1 DEF LastIsError
<1> QED  BY <1>1, <1>2, <1>3, <1>4, <1>5

LEMMA EventTypes ==
    /\ \A n \in Nat : /\ GenerationEvent(n) \in Event
                      /\ GenerationEvent(n).type = "generation" /\ GenerationEvent(n).tokens = n
    /\ \A tool \in Tools, ok \in BOOLEAN, n \in Nat :
          ToolEvent(tool, ok, n) \in Event /\ ToolEvent(tool, ok, n).type = "tool"
    /\ ErrorEvent \in Event /\ ErrorEvent.type = "error"
BY DEF GenerationEvent, ToolEvent, ErrorEvent, Event, Tools

-----------------------------------------------------------------------------
(* How the loop goes on or is left *)

ErrorCodes ==
    {"sandbox_timeout", "sandbox_provision_failed", "platform_error", "tool_timeout",
     "tool_failed", "user_code_error", "inference_failed", "rollout_timeout"}

\* The next turn starts, or the rollout is truncated with a reason.
LEMMA NextTurnKeeps ==
    ASSUME Inv, InTheLoop, NextTurn, UNCHANGED <<request, cancelled, sample>>,
           used' \in Nat, events' \in Seq(Event), NoErrors(events'),
           env' \in {"none", "open", "closed"}
    PROVE  Inv'
<1>1. /\ status = "completed" /\ error = "none" /\ ~ cancelled
      /\ turn \in 0 .. request.max_turns /\ todo \in Seq(Tools) /\ final \in BOOLEAN
      /\ request \in Requests /\ request.max_turns \in Nat /\ cancelled \in BOOLEAN
  BY RequestsAssumption DEF Inv, Typing, TypeOK, Running, Request
<1>2. CASE turn = request.max_turns \/ BudgetExceeded(used')
  <2>1. /\ pc' = "close" /\ status' = "truncated" /\ error' = "none"
        /\ UNCHANGED <<turn, todo, final>>
    BY <1>2 DEF NextTurn, Leave, loop
  <2>2. TruncatedExplained'
    BY <1>2, <2>1 DEF TruncatedExplained, BudgetExceeded
  <2>3. Typing'
    BY <1>1, <2>1 DEF Typing, TypeOK, Awaits
  <2> QED
    BY <1>1, <2>1, <2>2, <2>3
    DEF Inv, Running, InTheLoop, LeftWith, CancelledGoes, SampleTells
<1>3. CASE ~ (turn = request.max_turns \/ BudgetExceeded(used'))
  <2>1. /\ pc' = "generate" /\ turn' = turn + 1 /\ todo' = <<>> /\ final' = FALSE
        /\ UNCHANGED <<status, error>>
    BY <1>3 DEF NextTurn
  <2>2. turn' \in 0 .. request.max_turns /\ turn' > 0
    BY <1>1, <1>3, <2>1
  <2>3. todo' \in Seq(Tools)
    BY <2>1
  <2>4. final' \in BOOLEAN
    BY <2>1, Zenon
  <2>5. Typing'
    BY <1>1, <2>1, <2>2, <2>3, <2>4 DEF Typing, TypeOK, Awaits
  <2> QED
    BY <1>1, <2>1, <2>2, <2>5
    DEF Inv, Running, InTheLoop, LeftWith, CancelledGoes, SampleTells
<1> QED  BY <1>2, <1>3

\* A turn within the budget ends: completed if the gate allows it.
LEMMA FinishTurnKeeps ==
    ASSUME Inv, InTheLoop, turn > 0, NEW finish \in BOOLEAN, FinishTurn(finish),
           UNCHANGED <<request, cancelled, sample, env>>,
           used' \in Nat, ~ BudgetExceeded(used'), events' \in Seq(Event),
           NoErrors(events'), HasText(events')
    PROVE  Inv'
<1>1. CASE finish /\ (request.require_passing => TestsCurrentlyPassing(events'))
  <2>1. /\ pc' = "close" /\ status' = "completed" /\ error' = "none"
        /\ UNCHANGED <<turn, todo, final>>
    BY <1>1 DEF FinishTurn, Leave, loop
  <2>2. LeftCompleted'
    BY <1>1, <2>1 DEF LeftCompleted, BudgetExceeded
  <2>3. Typing'
    BY <2>1 DEF Inv, Typing, TypeOK, Awaits
  <2> QED
    BY <2>1, <2>2, <2>3
    DEF Inv, Running, InTheLoop, LeftWith, CancelledGoes, SampleTells
<1>2. CASE ~ (finish /\ (request.require_passing => TestsCurrentlyPassing(events')))
  <2>1. NextTurn
    BY <1>2 DEF FinishTurn
  <2>2. env' \in {"none", "open", "closed"}
    BY DEF Inv, Typing, TypeOK
  <2> QED  BY <2>1, <2>2, NextTurnKeeps
<1> QED  BY <1>1, <1>2

\* The budget is used up in the middle of a turn.
LEMMA BudgetEnds ==
    ASSUME Inv, InTheLoop, Leave("truncated", "none"), BudgetExceeded(used'),
           UNCHANGED <<request, cancelled, sample, env>>,
           used' \in Nat, events' \in Seq(Event)
    PROVE  Inv'
<1>1. /\ pc' = "close" /\ status' = "truncated" /\ error' = "none"
      /\ UNCHANGED <<turn, todo, final>>
  BY DEF Leave, loop
<1>2. TruncatedExplained'
  BY <1>1 DEF TruncatedExplained, BudgetExceeded
<1>3. Typing'
  BY <1>1 DEF Inv, Typing, TypeOK, Awaits
<1> QED
  BY <1>1, <1>2, <1>3 DEF Inv, Running, InTheLoop, LeftWith, CancelledGoes, SampleTells

\* An error ends the loop; it is the last event unless the rollout's own
\* timeout came.
LEMMA ErrorEnds ==
    ASSUME Inv, InTheLoop, NEW with \in {"aborted", "failed"}, NEW code \in ErrorCodes,
           Leave(with, code), with = "failed" => code \notin Timeouts,
           \/ events' = Append(events, ErrorEvent)
           \/ code = "rollout_timeout" /\ UNCHANGED events,
           UNCHANGED <<request, used, env, cancelled, sample>>
    PROVE  Inv'
<1>1. /\ pc' = "close" /\ status' = with /\ error' = code
      /\ UNCHANGED <<turn, todo, final>>
  BY DEF Leave, loop
<1>2. events' \in Seq(Event) /\ (code # "rollout_timeout" => LastIsError(events'))
  BY AppendKeeps, EventTypes DEF Inv, Typing, TypeOK
<1>3. LeftBroken'
  BY <1>1, <1>2 DEF LeftBroken, ErrorCodes, LastIsError
<1>4. Typing'
  BY <1>1, <1>2 DEF Inv, Typing, TypeOK, Awaits, ErrorCodes
<1> QED
  BY <1>1, <1>3, <1>4 DEF Inv, Running, InTheLoop, LeftWith, CancelledGoes, SampleTells

-----------------------------------------------------------------------------
(* The actions *)

LEMMA InitInv == Init => Inv
<1> SUFFICES ASSUME Init PROVE Inv
  OBVIOUS
<1>1. request \in Request
  BY RequestsAssumption DEF Init
<1>2. /\ todo \in Seq(Tools) /\ events \in Seq(Event)
      /\ used \in Nat /\ turn \in 0 .. request.max_turns
  BY <1>1 DEF Init, Request
<1>3. Typing
  BY <1>2 DEF Init, Typing, TypeOK, Awaits
<1>4. NoErrors(events)
  BY DEF Init, NoErrors
<1> QED
  BY <1>3, <1>4 DEF Init, Inv, Running, InTheLoop, LeftWith, CancelledGoes, SampleTells

\* A result of a tool is an event, and no error.
LEMMA RunsType ==
    ASSUME Inv, InTheLoop, NEW tool \in Tools, Runs(tool)
    PROVE  /\ used' \in Nat /\ events' \in Seq(Event)
           /\ NoErrors(events') /\ (HasText(events) => HasText(events'))
<1>1. PICK n \in ToolTokens, end \in Dispatched(tool) :
          /\ events' = Append(events, ToolEvent(tool, end = "ok", n))
          /\ used' = used + n
  BY DEF Runs
<1>2. n \in Nat /\ (end = "ok") \in BOOLEAN
  BY ToolTokensAssumption
<1>3. ToolEvent(tool, end = "ok", n) \in Event /\ ToolEvent(tool, end = "ok", n).type = "tool"
  BY <1>2, EventTypes
<1> QED
  BY <1>1, <1>2, <1>3, AppendKeeps DEF Inv, Typing, TypeOK, Running

LEMMA ProvisionedKeeps == Inv /\ Provisioned => Inv'
<1> SUFFICES ASSUME Inv, Provisioned PROVE Inv'
  OBVIOUS
<1>1. InTheLoop /\ used' \in Nat /\ events' \in Seq(Event) /\ NoErrors(events')
  BY DEF Provisioned, InTheLoop, Inv, Running, Typing, TypeOK
<1>2. CASE NextTurn
  BY <1>1, <1>2, NextTurnKeeps DEF Provisioned
<1>3. CASE pc' \in {"seed", "bootstrap"} /\ UNCHANGED <<loop, status, error>>
  <2>1. Typing'
    BY <1>1, <1>3 DEF Provisioned, Inv, Typing, TypeOK, loop, Awaits
  <2> QED
    BY <1>1, <1>3, <2>1
    DEF Provisioned, Inv, Running, InTheLoop, LeftWith, CancelledGoes, SampleTells, loop
<1> QED  BY <1>2, <1>3 DEF Provisioned, AfterSeeds

LEMMA SeededKeeps == Inv /\ Seeded => Inv'
<1> SUFFICES ASSUME Inv, Seeded PROVE Inv'
  OBVIOUS
<1>1. /\ InTheLoop /\ used' \in Nat /\ events' \in Seq(Event) /\ NoErrors(events')
      /\ env' \in {"none", "open", "closed"}
  BY DEF Seeded, InTheLoop, Inv, Running, Typing, TypeOK
<1>2. CASE NextTurn
  BY <1>1, <1>2, NextTurnKeeps DEF Seeded
<1>3. CASE pc' = "bootstrap" /\ UNCHANGED <<loop, status, error>>
  <2>1. Typing'
    BY <1>1, <1>3 DEF Seeded, Inv, Typing, TypeOK, loop, Awaits
  <2> QED
    BY <1>1, <1>3, <2>1
    DEF Seeded, Inv, Running, InTheLoop, LeftWith, CancelledGoes, SampleTells, loop
<1> QED  BY <1>2, <1>3 DEF Seeded, AfterSeeds

LEMMA BootstrappedKeeps == Inv /\ Bootstrapped => Inv'
<1> SUFFICES ASSUME Inv, Bootstrapped PROVE Inv'
  OBVIOUS
<1>1. InTheLoop /\ "run_tests" \in Tools /\ Runs("run_tests") /\ NextTurn
      /\ UNCHANGED <<request, env, cancelled, sample>>
  BY DEF Bootstrapped, InTheLoop, Tools
<1>2. used' \in Nat /\ events' \in Seq(Event) /\ NoErrors(events')
  BY <1>1, RunsType
<1>3. env' \in {"none", "open", "closed"}
  BY <1>1 DEF Inv, Typing, TypeOK
<1> QED  BY <1>1, <1>2, <1>3, NextTurnKeeps

\* Whatever fails in the loop ends it with its code.
LEMMA FailureKeeps ==
    Inv /\ (ProvisionFails \/ ToolFails \/ InferenceFails \/ ContextOverflow) => Inv'
<1>1. ASSUME Inv, InTheLoop, NEW code \in ErrorCodes \ {"rollout_timeout"}, Fails(code)
      PROVE  Inv'
  BY <1>1, ErrorEnds DEF Fails
<1>2. ASSUME Inv, ProvisionFails  PROVE Inv'
  BY <1>1, <1>2 DEF ProvisionFails, InTheLoop, ErrorCodes
<1>3. ASSUME Inv, ToolFails  PROVE Inv'
  BY <1>1, <1>3 DEF ToolFails, ToolErrors, InTheLoop, ErrorCodes
<1>4. ASSUME Inv, InferenceFails  PROVE Inv'
  BY <1>1, <1>4 DEF InferenceFails, InTheLoop, ErrorCodes
<1>5. ASSUME Inv, ContextOverflow  PROVE Inv'
  BY <1>5, ErrorEnds DEF ContextOverflow, InTheLoop, ErrorCodes
<1> QED  BY <1>2, <1>3, <1>4, <1>5

\* The tools of a reply are tools, and no more than the configuration allows.
LEMMA ToolsOfType ==
    ASSUME Inv, NEW reply \in Replies
    PROVE  ToolsOf(reply) \in Seq(Tools) /\ AsksToFinish(reply) \in BOOLEAN
<1>1. reply.payloads \in Seq(Payloads) /\ request.max_tools \in Nat
  BY RepliesAssumption, RequestsAssumption DEF Reply, Request, Inv, Typing, TypeOK
<1>2. Actions(reply) \in Seq(Usable)
  <2>1. Only(reply.payloads, Usable) \in Seq(Usable)
    BY <1>1, OnlyType
  <2>2. <<"final">> \in Seq(Usable)
    BY DEF Usable
  <2> QED  BY <2>1, <2>2 DEF Actions
<1>3. Only(Actions(reply), Tools) \in Seq(Tools)
  BY <1>2, OnlyType
<1>4. ASSUME NEW s \in Seq(Tools), request.max_tools < Len(s)
      PROVE  SubSeq(s, 1, request.max_tools) \in Seq(Tools)
  BY <1>1, <1>4, SubSeqProperties
<1>5. ToolsOf(reply) \in Seq(Tools)
  BY <1>1, <1>3, <1>4 DEF ToolsOf
<1> QED  BY <1>5 DEF AsksToFinish

LEMMA GeneratedKeeps ==
    ASSUME Inv, NEW reply \in Replies, Generated(reply)
    PROVE  Inv'
<1>1. /\ InTheLoop /\ turn > 0 /\ reply.tokens \in Nat /\ (reply.blank \/ reply.tokens > 0)
      /\ used \in Nat /\ UNCHANGED <<request, env, cancelled, sample>>
  BY RepliesAssumption DEF Generated, InTheLoop, Inv, Running, Typing, TypeOK, Reply
<1>2. /\ used' \in Nat /\ events' \in Seq(Event) /\ NoErrors(events')
      /\ reply.tokens > 0 => HasText(events')
  <2>1. /\ events' = Append(events, GenerationEvent(reply.tokens))
        /\ used' = used + reply.tokens
        /\ events \in Seq(Event) /\ NoErrors(events)
    BY <1>1 DEF Generated, Inv, Running, Typing, TypeOK
  <2> QED  BY <1>1, <2>1, EventTypes, AppendKeeps
<1>3. ToolsOf(reply) \in Seq(Tools) /\ AsksToFinish(reply) \in BOOLEAN
  BY ToolsOfType
<1>4. CASE BudgetExceeded(used')
  BY <1>1, <1>2, <1>4, BudgetEnds DEF Generated
<1>5. CASE ~ BudgetExceeded(used') /\ Nudged(reply)
  <2>1. NextTurn /\ env' \in {"none", "open", "closed"}
    BY <1>1, <1>5 DEF Generated, Inv, Typing, TypeOK
  <2> QED  BY <1>1, <1>2, <2>1, NextTurnKeeps
<1>6. CASE ~ BudgetExceeded(used') /\ ~ Nudged(reply) /\ ToolsOf(reply) = <<>>
  <2>1. FinishTurn(AsksToFinish(reply)) /\ HasText(events')
    BY <1>1, <1>2, <1>6 DEF Generated, Nudged
  <2> QED  BY <1>1, <1>2, <1>3, <1>6, <2>1, FinishTurnKeeps
<1>7. CASE ~ BudgetExceeded(used') /\ ~ Nudged(reply) /\ ToolsOf(reply) # <<>>
  <2>1. /\ pc' = "tool" /\ todo' = ToolsOf(reply) /\ final' = AsksToFinish(reply)
        /\ UNCHANGED <<turn, status, error>>
    BY <1>7 DEF Generated
  <2>2. HasText(events')
    BY <1>1, <1>2, <1>7 DEF Nudged
  <2>3. Typing'
    BY <1>1, <1>2, <1>3, <1>7, <2>1 DEF Inv, Typing, TypeOK, Awaits
  <2> QED
    BY <1>1, <1>2, <2>1, <2>2, <2>3
    DEF Inv, Running, InTheLoop, LeftWith, CancelledGoes, SampleTells
<1> QED  BY <1>4, <1>5, <1>6, <1>7

LEMMA ToolReturnsKeeps == Inv /\ ToolReturns => Inv'
<1> SUFFICES ASSUME Inv, ToolReturns PROVE Inv'
  OBVIOUS
<1>1. /\ InTheLoop /\ pc = "tool" /\ turn > 0 /\ HasText(events)
      /\ todo \in Seq(Tools) /\ todo # <<>> /\ final \in BOOLEAN
      /\ UNCHANGED <<request, env, cancelled, sample>>
  BY DEF ToolReturns, InTheLoop, Inv, Running, Typing, TypeOK
<1>2. Head(todo) \in Tools /\ Tail(todo) \in Seq(Tools) /\ Runs(Head(todo))
  BY <1>1 DEF ToolReturns
<1>3. used' \in Nat /\ events' \in Seq(Event) /\ NoErrors(events') /\ HasText(events')
  BY <1>1, <1>2, RunsType
<1>4. CASE BudgetExceeded(used')
  BY <1>1, <1>3, <1>4, BudgetEnds DEF ToolReturns
<1>5. CASE ~ BudgetExceeded(used') /\ Tail(todo) = <<>>
  BY <1>1, <1>3, <1>5, FinishTurnKeeps DEF ToolReturns
<1>6. CASE ~ BudgetExceeded(used') /\ Tail(todo) # <<>>
  <2>1. todo' = Tail(todo) /\ UNCHANGED <<pc, turn, final, status, error>>
    BY <1>6 DEF ToolReturns
  <2>2. Typing'
    BY <1>1, <1>2, <1>3, <1>6, <2>1 DEF Inv, Typing, TypeOK
  <2> QED
    BY <1>1, <1>3, <2>1, <2>2
    DEF Inv, Running, InTheLoop, LeftWith, CancelledGoes, SampleTells
<1> QED  BY <1>4, <1>5, <1>6

LEMMA StoppedKeeps == Inv /\ (RolloutTimeout \/ Cancel) => Inv'
<1>1. ASSUME Inv, RolloutTimeout  PROVE Inv'
  BY <1>1, ErrorEnds DEF RolloutTimeout, ErrorCodes
<1>2. ASSUME Inv, Cancel  PROVE Inv'
  <2>1. /\ InTheLoop /\ pc' = "close" /\ status' = "aborted" /\ error' = "none"
        /\ cancelled' = TRUE /\ UNCHANGED <<request, loop, events, used, env, sample>>
    BY <1>2 DEF Cancel, Leave
  <2>2. Typing'
    BY <1>2, <2>1 DEF Inv, Typing, TypeOK, Awaits, loop
  <2> QED
    BY <2>1, <2>2 DEF Inv, Running, InTheLoop, LeftWith, CancelledGoes, SampleTells
<1> QED  BY <1>1, <1>2

\* The status and what explains it stay as they are once the loop is left.
LEMMA ExplanationKept ==
    ASSUME Inv, ~ InTheLoop, UNCHANGED <<request, loop, events, used, status, error>>,
           pc' \in {"reward", "returned", "raised", "cancelled"},
           env' \in {"none", "open", "closed"}, cancelled' \in BOOLEAN,
           cancelled' => pc' = "cancelled", cancelled => cancelled'
    PROVE  (Typing /\ Running /\ LeftWith /\ CancelledGoes)'
<1>1. Typing'
  BY DEF Inv, Typing, TypeOK, Awaits, Ends, loop
<1>2. ~ InTheLoop'
  BY DEF InTheLoop
<1>3. LeftWith'
  <2> SUFFICES ASSUME ~ cancelled'
               PROVE  /\ status' = "completed" => LeftCompleted'
                      /\ status' = "truncated" => TruncatedExplained'
                      /\ status' \in {"aborted", "failed"} => LeftBroken'
    BY DEF LeftWith
  <2> QED
    BY DEF Inv, LeftWith, LeftCompleted, TruncatedExplained, LeftBroken, BudgetExceeded, loop
<1> QED  BY <1>1, <1>2, <1>3 DEF Running, CancelledGoes

\* The sample s is the trajectory's, with the reward r.
Tells(s, r) ==
    /\ DOMAIN s = {"length", "trainable", "reward", "status", "removed"}
    /\ s.status = status /\ s.removed = FALSE /\ s.reward = r
    /\ s.trainable = Tokens(events, {"generation"})

LEMMA AppliedTells ==
    /\ Tells(Applied, RewardFromEvents(events))
    /\ \A r : Tells([Applied EXCEPT !.reward = r], r)
<1>1. Tells(Applied, RewardFromEvents(events))
  BY DEF Applied, Tells
<1>2. ASSUME NEW s, NEW old, NEW r, Tells(s, old)
      PROVE  Tells([s EXCEPT !.reward = r], r)
  BY <1>2 DEF Tells
<1> QED  BY <1>1, <1>2

\* What the trainer gets of an applied sample, with the reward it has by then.
LEMMA DeliverKeeps ==
    ASSUME Inv, pc \in {"close", "reward"}, NEW s, NEW r, Tells(s, r), Deliver(s),
           ~ request.reward_function => r = RewardFromEvents(events),
           UNCHANGED <<request, events, status>>
    PROVE  SampleTells' /\ pc' \in {"returned", "raised"}
<1>1. CASE status \in {"failed", "aborted"}
  <2>1. /\ pc' \in {"returned", "raised"} /\ sample' = [s EXCEPT !.removed = TRUE]
        /\ pc' = "returned" => status = "aborted"
    BY <1>1 DEF Deliver, Tells
  <2>2. /\ sample'.status = status /\ sample'.removed = TRUE /\ sample'.reward = r
        /\ sample'.trainable = Tokens(events, {"generation"})
    BY <2>1 DEF Tells
  <2> QED  BY <2>1, <2>2 DEF SampleTells
<1>2. CASE status \notin {"failed", "aborted"}
  <2>1. pc' = "returned" /\ sample' = s
    BY <1>2 DEF Deliver, Tells
  <2> QED  BY <1>2, <2>1 DEF SampleTells, Tells
<1> QED  BY <1>1, <1>2

LEMMA ClosedKeeps == Inv /\ Closed => Inv'
<1> SUFFICES ASSUME Inv, Closed PROVE Inv'
  OBVIOUS
<1>1. /\ ~ InTheLoop /\ env' \in {"none", "open", "closed"} /\ cancelled' \in BOOLEAN
      /\ UNCHANGED <<request, loop, events, used, status, error, cancelled>>
  BY DEF Closed, InTheLoop, Inv, Typing, TypeOK
<1>2. CASE cancelled
  BY <1>1, <1>2, ExplanationKept DEF Closed, Inv, SampleTells
<1>3. CASE ~ cancelled /\ request.reward_function
  <2>1. pc' = "reward" /\ sample' = Applied
    BY <1>3 DEF Closed
  <2>2. Applied' = Applied /\ request'.reward_function
    BY <1>1, <1>3 DEF Applied
  <2>3. SampleTells'
    BY <2>1, <2>2 DEF SampleTells
  <2> QED  BY <1>1, <1>3, <2>1, <2>3, ExplanationKept DEF Inv
<1>4. CASE ~ cancelled /\ ~ request.reward_function
  <2>1. Deliver(Applied) /\ pc = "close" /\ Tells(Applied, RewardFromEvents(events))
    BY <1>4, AppliedTells DEF Closed
  <2>2. SampleTells' /\ pc' \in {"returned", "raised"}
    BY <1>1, <1>4, <2>1, DeliverKeeps
  <2> QED  BY <1>1, <1>4, <2>2, ExplanationKept DEF Inv
<1> QED  BY <1>2, <1>3, <1>4

LEMMA RewardKeeps == Inv /\ RewardReturns => Inv'
<1> SUFFICES ASSUME Inv, RewardReturns PROVE Inv'
  OBVIOUS
<1>1. /\ ~ InTheLoop /\ env' \in {"none", "open", "closed"} /\ cancelled' \in BOOLEAN
      /\ UNCHANGED <<request, loop, events, used, status, error, cancelled>>
      /\ pc = "reward" /\ ~ cancelled /\ sample = Applied /\ request.reward_function
  BY DEF RewardReturns, InTheLoop, Inv, Typing, TypeOK, CancelledGoes, SampleTells
<1>2. PICK r \in {"zero", "one"} : Deliver([sample EXCEPT !.reward = r])
  BY DEF RewardReturns
<1>3. Tells([sample EXCEPT !.reward = r], r)
  BY <1>1, AppliedTells
<1>4. SampleTells' /\ pc' \in {"returned", "raised"}
  BY <1>1, <1>2, <1>3, DeliverKeeps
<1> QED  BY <1>1, <1>4, ExplanationKept DEF Inv

LEMMA EndKeeps == Inv /\ (CancelClose \/ RewardRaises \/ CancelReward) => Inv'
<1>1. ASSUME Inv, CancelClose  PROVE Inv'
  BY <1>1, ExplanationKept DEF CancelClose, InTheLoop, Inv, SampleTells
<1>2. ASSUME Inv, RewardRaises  PROVE Inv'
  <2>1. cancelled' \in BOOLEAN /\ ~ cancelled /\ env' \in {"none", "open", "closed"}
    BY <1>2 DEF RewardRaises, Inv, Typing, TypeOK, CancelledGoes
  <2> QED
    BY <1>2, <2>1, ExplanationKept DEF RewardRaises, InTheLoop, Inv, SampleTells
<1>3. ASSUME Inv, CancelReward  PROVE Inv'
  <2>1. env' \in {"none", "open", "closed"}
    BY <1>3 DEF CancelReward, Inv, Typing, TypeOK
  <2> QED
    BY <1>3, <2>1, ExplanationKept DEF CancelReward, InTheLoop, Inv, SampleTells
<1> QED  BY <1>1, <1>2, <1>3

LEMMA StutterKeeps == Inv /\ UNCHANGED vars => Inv'
<1> SUFFICES ASSUME Inv, UNCHANGED vars PROVE Inv'
  OBVIOUS
<1>1. (Typing /\ Running /\ CancelledGoes)'
  BY DEF Inv, vars, Typing, TypeOK, Running, CancelledGoes, InTheLoop
<1>2. LeftWith'
  BY DEF Inv, vars, LeftWith, LeftCompleted, LeftBroken, TruncatedExplained, BudgetExceeded,
         InTheLoop
<1>3. SampleTells'
  BY DEF Inv, vars, SampleTells, Applied
<1> QED  BY <1>1, <1>2, <1>3 DEF Inv

LEMMA InvInvariant == Spec => []Inv
<1>1. Inv /\ [Next]_vars => Inv'
  <2> SUFFICES ASSUME Inv, [Next]_vars PROVE Inv'
    OBVIOUS
  <2>1. CASE Provisioned \/ Seeded \/ Bootstrapped
    BY <2>1, ProvisionedKeeps, SeededKeeps, BootstrappedKeeps
  <2>2. CASE ProvisionFails \/ ToolFails \/ InferenceFails \/ ContextOverflow
    BY <2>2, FailureKeeps
  <2>3. CASE \E reply \in Replies : Generated(reply)
    BY <2>3, GeneratedKeeps
  <2>4. CASE ToolReturns
    BY <2>4, ToolReturnsKeeps
  <2>5. CASE RolloutTimeout \/ Cancel
    BY <2>5, StoppedKeeps
  <2>6. CASE Closed \/ RewardReturns
    BY <2>6, ClosedKeeps, RewardKeeps
  <2>7. CASE CancelClose \/ RewardRaises \/ CancelReward
    BY <2>7, EndKeeps
  <2>8. CASE UNCHANGED vars
    BY <2>8, StutterKeeps
  <2> QED
    BY <2>1, <2>2, <2>3, <2>4, <2>5, <2>6, <2>7, <2>8 DEF Next
<1> QED  BY InitInv, <1>1, PTL DEF Spec

-----------------------------------------------------------------------------
(* The theorems *)

\* The types of the loop's state, for every configuration; no rollout starts
\* more turns than max_turns (RolloutRunner.run).
THEOREM TypeCorrect == Spec => []TypeOK
<1>1. Inv => TypeOK
  BY DEF Inv, Typing
<1> QED  BY InvInvariant, <1>1, PTL

\* The latest run_tests passed: then every run_tests that failed has a later one.
LEMMA PassingExplained ==
    ASSUME NEW ev \in Seq(Event), TestsCurrentlyPassing(ev)
    PROVE  /\ TestsRun(ev) /\ RewardFromEvents(ev) = "one"
           /\ \E i \in DOMAIN ev : IsTest(ev[i])
           /\ \A i \in DOMAIN ev :
                 \/ ~ IsTest(ev[i])
                 \/ ev[i].ok
                 \/ \E j \in i + 1 .. Len(ev) : IsTest(ev[j])
<1>1. PICK k \in 1 .. Len(ev) :
          IsTest(ev[k]) /\ ev[k].ok /\ \A j \in k + 1 .. Len(ev) : ~ IsTest(ev[j])
  BY DEF TestsCurrentlyPassing
<1>2. TestsRun(ev) /\ RewardFromEvents(ev) = "one"
  BY <1>1 DEF TestsRun, RewardFromEvents
<1>3. ASSUME NEW i \in 1 .. Len(ev), IsTest(ev[i]), ~ ev[i].ok
      PROVE  \E j \in i + 1 .. Len(ev) : IsTest(ev[j])
  <2>1. i # k /\ i \notin k + 1 .. Len(ev)
    BY <1>1, <1>3
  <2>2. k \in i + 1 .. Len(ev)
    BY <2>1
  <2> QED  BY <1>1, <2>2
<1> QED  BY <1>1, <1>2, <1>3

\* Every status a rollout ends with has the reason that its name says, for
\* every configuration, every reply and every result of a tool
\* (RolloutRunner.run).
THEOREM StatusExplainedCorrect == Spec => []StatusExplained
<1>1. Inv => StatusExplained
  <2> SUFFICES ASSUME Inv, Ended
               PROVE  /\ status = "completed" => CompletedExplained
                      /\ status = "truncated" => TruncatedExplained
                      /\ status \in {"aborted", "failed"} => BrokenOffExplained
    BY DEF StatusExplained
  <2>1. ~ InTheLoop /\ ~ cancelled /\ events \in Seq(Event)
    BY DEF Inv, Typing, TypeOK, Ended, InTheLoop, CancelledGoes
  <2>2. status = "completed" => CompletedExplained
    BY <2>1, PassingExplained DEF Inv, LeftWith, LeftCompleted, CompletedExplained, NoErrors
  <2>3. status \in {"aborted", "failed"} => BrokenOffExplained
    BY <2>1 DEF Inv, LeftWith, LeftBroken, BrokenOffExplained, LastIsError
  <2> QED  BY <2>1, <2>2, <2>3 DEF Inv, LeftWith
<1> QED  BY InvInvariant, <1>1, PTL

\* A completed sample has tokens to train on and, behind the gate, the reward
\* of tests that pass; what is handed over of an aborted one is marked for
\* removal; a failed one is never handed over (_raise_if_unusable,
\* apply_trajectory).
THEOREM DeliveredIsUsableCorrect == Spec => []DeliveredIsUsable
<1>1. Inv => DeliveredIsUsable
  <2> SUFFICES ASSUME Inv, pc = "returned"
               PROVE  /\ sample.removed = (sample.status = "aborted")
                      /\ sample.status \in {"completed", "truncated", "aborted"}
                      /\ sample.status = "completed" =>
                            /\ sample.trainable > 0
                            /\ request.require_passing /\ ~ request.reward_function
                                  => sample.reward = "one"
    BY DEF DeliveredIsUsable
  <2>1. /\ ~ InTheLoop /\ ~ cancelled /\ events \in Seq(Event)
        /\ status \in {"completed", "truncated", "aborted", "failed"}
        /\ sample.status = status /\ status # "failed"
        /\ sample.removed = (status = "aborted")
        /\ sample.trainable = Tokens(events, {"generation"})
        /\ ~ request.reward_function => sample.reward = RewardFromEvents(events)
    BY DEF Inv, Typing, TypeOK, InTheLoop, CancelledGoes, SampleTells
  <2>2. ASSUME status = "completed"
        PROVE  /\ Tokens(events, {"generation"}) > 0
               /\ request.require_passing => RewardFromEvents(events) = "one"
    <3>1. HasText(events) /\ (request.require_passing => TestsCurrentlyPassing(events))
      BY <2>1, <2>2 DEF Inv, LeftWith, LeftCompleted
    <3>2. PICK i \in DOMAIN events : events[i].type = "generation" /\ events[i].tokens > 0
      BY <3>1 DEF HasText
    <3>3. Tokens(events, {"generation"}) > 0
      BY <2>1, <3>2, TokensSum
    <3> QED  BY <2>1, <3>1, <3>3, PassingExplained
  <2> QED  BY <2>1, <2>2
<1> QED  BY InvInvariant, <1>1, PTL
=============================================================================
