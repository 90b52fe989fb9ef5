----------------------------- MODULE RolloutLoop -----------------------------
(***************************************************************************)
(* One rollout, from the call of Slime's generate hook to the sample it    *)
(* hands back: RolloutRunner.run (runtime/rollout.py) and what             *)
(* adapters/slime/generate.py and sample.py do with the trajectory.        *)
(*                                                                         *)
(* A step runs from one await to the next.  The model's reply and the      *)
(* results of tools are inputs; what the harness reads in them is their    *)
(* actions, success and number of tokens.  A rollout timeout or a          *)
(* cancellation may arrive at every await.                                 *)
(***************************************************************************)
EXTENDS Integers, Sequences

CONSTANTS
    Requests,           \* the configurations a rollout may run under
    Replies,            \* what the model may answer
    ToolTokens,         \* bound: tokens of a tool's observation
    Unlimited           \* no max_total_tokens

\* Only run_tests is told apart from the other tools.
Tools == {"run_tests", "other"}

Request ==
    [max_turns: Nat, max_tools: Nat \ {0}, prompt_tokens: Nat,
     max_total_tokens: Nat \cup {Unlimited},
     seeds: BOOLEAN, bootstrap: BOOLEAN, require_passing: BOOLEAN,
     reward_function: BOOLEAN, allow_aborted: BOOLEAN]

\* A reply is a text: its JSON objects in order, whether it is blank, and
\* whether it holds an invented <tool_result>.
Payloads == Tools \cup {"final", "malformed", "unknown"}
Reply == [payloads: Seq(Payloads), blank: BOOLEAN, invented: BOOLEAN,
          tokens: Nat]

ASSUME RequestsAssumption == Requests \subseteq Request
\* A text that is not blank took tokens.
ASSUME RepliesAssumption ==
    Replies \subseteq {reply \in Reply : reply.blank \/ reply.tokens > 0}
ASSUME ToolTokensAssumption == ToolTokens \subseteq Nat
ASSUME UnlimitedAssumption == Unlimited \notin Nat

VARIABLES
    request,
    pc,                 \* the await at which the rollout stands
    turn,               \* model turns started
    todo,               \* tools of this turn that have not run
    final,              \* this turn's reply asks to finish
    events,
    used,               \* used_tokens
    status,
    error,              \* error_code
    env,                \* the sandbox: "none", "open", "closed"
    cancelled,
    sample              \* what generate wrote to Slime's sample

vars == <<request, pc, turn, todo, final, events, used, status, error, env,
          cancelled, sample>>

loop == <<turn, todo, final>>

Awaits == {"provision", "seed", "bootstrap", "generate", "tool", "close",
           "reward"}
Ends == {"returned", "raised", "cancelled"}

Blank == [length |-> 0, trainable |-> 0, reward |-> "unset",
          status |-> "pending", removed |-> FALSE]

-----------------------------------------------------------------------------
(* Parsing a reply (runtime/actions.py) *)

Usable == Tools \cup {"final"}

\* The members of s that are in kinds, in their order.
Only(s, kinds) ==
    LET kept[i \in 0 .. Len(s)] ==
            IF i = 0 THEN <<>>
            ELSE IF s[i] \in kinds THEN Append(kept[i - 1], s[i]) ELSE kept[i - 1]
    IN  kept[Len(s)]

\* A text without JSON is a final answer.
Actions(reply) ==
    IF reply.payloads = <<>> THEN <<"final">> ELSE Only(reply.payloads, Usable)

\* Replies that get a hint instead of an action: nothing usable, or a tool
\* result the model made up instead of a call.
Nudged(reply) ==
    \/ reply.blank
    \/ Actions(reply) = <<>>
    \/ reply.invented /\ \A i \in DOMAIN reply.payloads : reply.payloads[i] = "unknown"

\* The first max_tools tools of the reply.
ToolsOf(reply) ==
    LET tools == Only(Actions(reply), Tools)
    IN  IF Len(tools) > request.max_tools
        THEN SubSeq(tools, 1, request.max_tools) ELSE tools

AsksToFinish(reply) == \E i \in DOMAIN Actions(reply) : Actions(reply)[i] = "final"

-----------------------------------------------------------------------------
(* The trajectory *)

GenerationEvent(n) == [type |-> "generation", tool |-> "none", ok |-> TRUE, tokens |-> n]
ToolEvent(tool, ok, n) == [type |-> "tool", tool |-> tool, ok |-> ok, tokens |-> n]
ErrorEvent == [type |-> "error", tool |-> "none", ok |-> FALSE, tokens |-> 0]

IsTest(e) == e.type = "tool" /\ e.tool = "run_tests"

TestsRun(ev) == \E i \in DOMAIN ev : IsTest(ev[i])

\* Mutant: some run_tests exited 0.
TestsOncePassed(ev) == \E i \in DOMAIN ev : IsTest(ev[i]) /\ ev[i].ok

\* The latest run_tests exited 0.
TestsCurrentlyPassing(ev) ==
    \E i \in DOMAIN ev :
        /\ IsTest(ev[i]) /\ ev[i].ok
        /\ \A j \in i + 1 .. Len(ev) : ~ IsTest(ev[j])

RewardFromEvents(ev) ==
    IF ~ TestsRun(ev) THEN "unset"
    ELSE IF TestsCurrentlyPassing(ev) THEN "one" ELSE "zero"

\* Tokens of the events of the given types.
Tokens(ev, types) ==
    LET sum[i \in 0 .. Len(ev)] ==
            IF i = 0 THEN 0
            ELSE sum[i - 1] + IF ev[i].type \in types THEN ev[i].tokens ELSE 0
    IN  sum[Len(ev)]

BudgetExceeded(n) ==
    request.max_total_tokens # Unlimited /\ n >= request.max_total_tokens

-----------------------------------------------------------------------------
Init ==
    /\ request \in Requests
    /\ pc = "provision"
    /\ turn = 0 /\ todo = <<>> /\ final = FALSE
    /\ events = <<>>
    /\ used = request.prompt_tokens
    /\ status = "completed" /\ error = "none"
    /\ env = "none"
    /\ cancelled = FALSE
    /\ sample = Blank

\* The loop is left, with a status; the finally closes the sandbox.
Leave(with, code) ==
    /\ pc' = "close"
    /\ status' = with
    /\ error' = code
    /\ UNCHANGED loop

\* The end of a turn, and what the next one checks before it generates.
NextTurn ==
    IF turn = request.max_turns \/ BudgetExceeded(used')
    THEN Leave("truncated", "none")
    ELSE /\ pc' = "generate"
         /\ turn' = turn + 1
         /\ todo' = <<>> /\ final' = FALSE
         /\ UNCHANGED <<status, error>>

\* The tools of the turn are done: its final answer, when it gave one, ends
\* the rollout unless the tests have to pass first.
FinishTurn(finish) ==
    IF finish /\ (request.require_passing => TestsCurrentlyPassing(events'))
    THEN Leave("completed", "none")
    ELSE NextTurn

Timeouts == {"sandbox_timeout", "tool_timeout", "rollout_timeout"}

\* A DaytonaError, or another exception as a platform_error, ends the rollout
\* and is the last event.
Fails(code) ==
    /\ Leave(IF code \in Timeouts THEN "aborted" ELSE "failed", code)
    /\ events' = Append(events, ErrorEvent)
    /\ UNCHANGED <<request, used, env, cancelled, sample>>

-----------------------------------------------------------------------------
(* From the sandbox to the first turn *)

AfterSeeds ==
    IF request.bootstrap
    THEN pc' = "bootstrap" /\ UNCHANGED <<loop, status, error>>
    ELSE NextTurn

Provisioned ==
    /\ pc = "provision"
    /\ env' = "open"
    /\ UNCHANGED <<request, events, used, cancelled, sample>>
    /\ IF request.seeds
       THEN pc' = "seed" /\ UNCHANGED <<loop, status, error>>
       ELSE AfterSeeds

ProvisionFails ==
    /\ pc = "provision"
    /\ \E code \in {"sandbox_timeout", "sandbox_provision_failed", "platform_error"} :
          Fails(code)

Seeded ==
    /\ pc = "seed"
    /\ UNCHANGED <<request, events, used, env, cancelled, sample>>
    /\ AfterSeeds

\* What the sandbox's client may raise: an exception that reads like a timeout
\* or not, early or with nine tenths of the tool's time gone.
SdkErrors == [reads_like_timeout: BOOLEAN, near_budget: BOOLEAN]

IsToolTimeout(e) == e.reads_like_timeout \/ e.near_budget

\* How a call ends that has no result: the runtime's own limit, an exception of
\* the client, or any other exception, which the loop calls a platform_error.
ToolErrors ==
    {IF IsToolTimeout(e) THEN "tool_timeout" ELSE "tool_failed" : e \in SdkErrors}
        \cup {"platform_error"}

\* A file to seed may name a path that is refused, which no model can correct.
ToolFails ==
    /\ pc \in {"seed", "bootstrap", "tool"}
    /\ \E code \in ToolErrors \cup (IF pc = "seed" THEN {"user_code_error"} ELSE {}) :
          Fails(code)

\* A call that leaves out the command of run_tests gets a default one; others
\* may lack what their tool needs, or name a path outside.
Refusable(tool) == tool # "run_tests"

\* What a tool makes of a call: exit code 0 or another, a file that is missing
\* or not, or a refusal.  The command of run_tests is the model's, so its
\* success says no more than that this command exited 0.
Dispatched(tool) == {"ok", "not ok"} \cup (IF Refusable(tool) THEN {"refused"} ELSE {})

\* A result is an event, and so is a refusal: the model may try again.
Runs(tool) ==
    \E n \in ToolTokens, end \in Dispatched(tool) :
        /\ events' = Append(events, ToolEvent(tool, end = "ok", n))
        /\ used' = used + n

Bootstrapped ==
    /\ pc = "bootstrap"
    /\ Runs("run_tests")
    /\ NextTurn
    /\ UNCHANGED <<request, env, cancelled, sample>>

-----------------------------------------------------------------------------
(* A turn *)

Generated(reply) ==
    /\ pc = "generate"
    /\ events' = Append(events, GenerationEvent(reply.tokens))
    /\ used' = used + reply.tokens
    /\ IF BudgetExceeded(used')
       THEN Leave("truncated", "none")
       ELSE IF Nudged(reply) THEN NextTurn
       ELSE IF ToolsOf(reply) = <<>> THEN FinishTurn(AsksToFinish(reply))
       ELSE /\ pc' = "tool"
            /\ todo' = ToolsOf(reply)
            /\ final' = AsksToFinish(reply)
            /\ UNCHANGED <<turn, status, error>>
    /\ UNCHANGED <<request, env, cancelled, sample>>

InferenceFails ==
    /\ pc = "generate"
    /\ Fails("inference_failed")

\* A context overflow is an abort, with the code of a failure.
ContextOverflow ==
    /\ pc = "generate"
    /\ Leave("aborted", "inference_failed")
    /\ events' = Append(events, ErrorEvent)
    /\ UNCHANGED <<request, used, env, cancelled, sample>>

ToolReturns ==
    /\ pc = "tool"
    /\ Runs(Head(todo))
    /\ IF BudgetExceeded(used')
       THEN Leave("truncated", "none")
       ELSE IF Tail(todo) = <<>> THEN FinishTurn(final)
       ELSE /\ todo' = Tail(todo)
            /\ UNCHANGED <<pc, turn, final, status, error>>
    /\ UNCHANGED <<request, env, cancelled, sample>>

-----------------------------------------------------------------------------
(* The end *)

InTheLoop == pc \in {"provision", "seed", "bootstrap", "generate", "tool"}

RolloutTimeout ==
    /\ InTheLoop
    /\ Leave("aborted", "rollout_timeout")
    /\ UNCHANGED <<request, events, used, env, cancelled, sample>>

Cancel ==
    /\ InTheLoop
    /\ Leave("aborted", "none")
    /\ cancelled' = TRUE
    /\ UNCHANGED <<request, events, used, env, sample>>

\* apply_trajectory: the tokens of the events, trainable those the model
\* generated, the reward of the tests.
Applied ==
    [length |-> Tokens(events, {"generation", "tool"}),
     trainable |-> Tokens(events, {"generation"}),
     reward |-> RewardFromEvents(events),
     status |-> status,
     removed |-> FALSE]

\* Mutant: with allow_aborted the sample is returned as it is.
DeliverAborted(s) ==
    /\ pc' = IF \/ s.status = "failed"
                \/ s.status = "aborted" /\ ~ request.allow_aborted
             THEN "raised" ELSE "returned"
    /\ sample' = s

\* _raise_if_unusable: generate returns the sample, or raises.
Deliver(s) ==
    IF s.status \in {"failed", "aborted"}
    THEN /\ pc' = IF s.status = "aborted" /\ request.allow_aborted
                  THEN "returned" ELSE "raised"
         /\ sample' = [s EXCEPT !.removed = TRUE]
    ELSE /\ pc' = "returned"
         /\ sample' = s

\* Mutant: a rollout without a sandbox is forgotten.
ClosedIfOpen ==
    /\ pc = "close" /\ env = "open"
    /\ env' = "closed"
    /\ IF cancelled
       THEN pc' = "cancelled" /\ sample' = [sample EXCEPT !.status = "aborted"]
       ELSE IF request.reward_function
       THEN pc' = "reward" /\ sample' = Applied
       ELSE Deliver(Applied)
    /\ UNCHANGED <<request, loop, events, used, status, error, cancelled>>

\* The close of the sandbox has ended (an error of it is swallowed).
Closed ==
    /\ pc = "close"
    /\ env' = IF env = "open" THEN "closed" ELSE env
    /\ IF cancelled
       THEN pc' = "cancelled" /\ sample' = [sample EXCEPT !.status = "aborted"]
       ELSE IF request.reward_function
       THEN pc' = "reward" /\ sample' = Applied
       ELSE Deliver(Applied)
    /\ UNCHANGED <<request, loop, events, used, status, error, cancelled>>

\* A cancellation while the sandbox is closed; close has been called.
CancelClose ==
    /\ pc = "close" /\ env = "open"
    /\ pc' = "cancelled"
    /\ env' = "closed"
    /\ cancelled' = TRUE
    /\ sample' = [sample EXCEPT !.status = "aborted"]
    /\ UNCHANGED <<request, loop, events, used, status, error>>

\* The trainer's own reward function returns, raises, or is cancelled.
RewardReturns ==
    /\ pc = "reward"
    /\ \E reward \in {"zero", "one"} : Deliver([sample EXCEPT !.reward = reward])
    /\ UNCHANGED <<request, loop, events, used, status, error, env, cancelled>>

RewardRaises ==
    /\ pc = "reward"
    /\ pc' = "raised"
    /\ UNCHANGED <<request, loop, events, used, status, error, env,
                   cancelled, sample>>

CancelReward ==
    /\ pc = "reward"
    /\ pc' = "cancelled"
    /\ cancelled' = TRUE
    /\ UNCHANGED <<request, loop, events, used, status, error, env, sample>>

Next ==
    \/ Provisioned \/ ProvisionFails \/ Seeded \/ Bootstrapped \/ ToolFails
    \/ \E reply \in Replies : Generated(reply)
    \/ InferenceFails \/ ContextOverflow \/ ToolReturns
    \/ RolloutTimeout \/ Cancel
    \/ Closed \/ CancelClose
    \/ RewardReturns \/ RewardRaises \/ CancelReward

Spec == Init /\ [][Next]_vars

\* Every await ends: the SDK's calls have timeouts, and so does the router's.
\* No timeout of the rollout and no cancellation is counted on.
Progress ==
    \/ Provisioned \/ Seeded \/ Bootstrapped
    \/ \E reply \in Replies : Generated(reply)
    \/ ToolReturns \/ Closed \/ RewardReturns

FairSpec == Spec /\ WF_vars(Progress)

-----------------------------------------------------------------------------
(* Properties *)

Event == [type: {"generation", "tool", "error"}, tool: Tools \cup {"none"},
          ok: BOOLEAN, tokens: Nat]

\* The types of the loop's state; the turns started are at most max_turns.
TypeOK ==
    /\ request \in Requests
    /\ pc \in Awaits \cup Ends
    /\ turn \in 0 .. request.max_turns
    /\ todo \in Seq(Tools)
    /\ final \in BOOLEAN
    /\ events \in Seq(Event)
    /\ used \in Nat
    /\ status \in {"completed", "truncated", "aborted", "failed"}
    /\ error \in {"none", "sandbox_timeout", "sandbox_provision_failed",
                  "platform_error", "tool_timeout", "tool_failed", "user_code_error",
                  "inference_failed", "rollout_timeout"}
    /\ env \in {"none", "open", "closed"}
    /\ cancelled \in BOOLEAN

Ended == pc \in {"reward", "returned", "raised"}

\* What the status of a trajectory means.  Completed: no error, within the
\* budget, and behind the gate the last run_tests of the trajectory passed.
\* Truncated: the turns or the tokens ran out.  Aborted or failed: an error
\* code, and an error event unless the rollout's own timeout ended it.
CompletedExplained ==
    /\ error = "none" /\ turn > 0 /\ ~ BudgetExceeded(used)
    /\ \A i \in DOMAIN events : events[i].type # "error"
    /\ request.require_passing =>
          /\ \E i \in DOMAIN events : IsTest(events[i])
          /\ \A i \in DOMAIN events :
                \/ ~ IsTest(events[i])
                \/ events[i].ok
                \/ \E j \in i + 1 .. Len(events) : IsTest(events[j])

TruncatedExplained ==
    /\ error = "none"
    /\ turn = request.max_turns \/ BudgetExceeded(used)

BrokenOffExplained ==
    /\ error # "none"
    /\ status = "failed" => error \notin Timeouts
    /\ error # "rollout_timeout" =>
          events # <<>> /\ events[Len(events)].type = "error"

StatusExplained ==
    Ended =>
        /\ status = "completed" => CompletedExplained
        /\ status = "truncated" => TruncatedExplained
        /\ status \in {"aborted", "failed"} => BrokenOffExplained

\* What the trainer gets: a sample that is not marked for removal is one of a
\* completed or truncated rollout; a completed one has tokens to train on, and
\* behind the gate, unless the trainer computes rewards itself, reward 1.
DeliveredIsUsable ==
    pc = "returned" =>
        /\ sample.removed = (sample.status = "aborted")
        /\ sample.status \in {"completed", "truncated", "aborted"}
        /\ sample.status = "completed" =>
              /\ sample.trainable > 0
              /\ request.require_passing /\ ~ request.reward_function
                    => sample.reward = "one"

\* Every rollout ends, by its turns when by nothing else.
RolloutEnds == <>(pc \in Ends)

\* generate.py:315: "Fail loudly instead of handing Megatron an empty / broken
\* Sample."  A sample that is handed on has a token to train on.
NoHollowSample ==
    pc = "returned" /\ ~ sample.removed => sample.trainable > 0
=============================================================================
