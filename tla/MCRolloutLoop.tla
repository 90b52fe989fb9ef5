---------------------------- MODULE MCRolloutLoop ----------------------------
(* Small instances of RolloutLoop: configurations in which each limit is    *)
(* reached, and replies that exercise each reading of a model's text.       *)
EXTENDS RolloutLoop

Text(payloads, blank, invented, tokens) ==
    [payloads |-> payloads, blank |-> blank, invented |-> invented, tokens |-> tokens]

MCReplies ==
    {Text(<<"run_tests">>, FALSE, FALSE, 1),
     Text(<<"run_tests", "malformed", "other", "run_tests">>, FALSE, FALSE, 2),
     Text(<<"other", "run_tests", "final">>, FALSE, FALSE, 1),
     Text(<<"final">>, FALSE, FALSE, 1),
     Text(<<>>, FALSE, FALSE, 1),               \* prose, taken as final
     Text(<<>>, FALSE, TRUE, 2),                \* an invented tool result
     Text(<<>>, TRUE, FALSE, 1)}                \* nothing

Config(prompt, budget, seeds, bootstrap, gate, rewards, aborted) ==
    [max_turns |-> 2, max_tools |-> 2, prompt_tokens |-> prompt,
     max_total_tokens |-> budget, seeds |-> seeds, bootstrap |-> bootstrap,
     require_passing |-> gate, reward_function |-> rewards, allow_aborted |-> aborted]

MCRequests ==
    {Config(1, budget, bootstrap, bootstrap, gate, rewards, aborted) :
        budget \in {Unlimited, 4, 6}, bootstrap \in BOOLEAN, gate \in BOOLEAN,
        rewards \in BOOLEAN, aborted \in BOOLEAN}
    \cup {Config(2, 2, FALSE, bootstrap, TRUE, FALSE, FALSE) : bootstrap \in BOOLEAN}

\* A prompt as long as the budget.
LongPrompt == {Config(2, 2, FALSE, FALSE, FALSE, FALSE, FALSE)}
=============================================================================
