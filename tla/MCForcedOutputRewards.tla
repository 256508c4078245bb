----------------------- MODULE MCForcedOutputRewards -----------------------
(***************************************************************************)
(* The model-checked instance of ForcedOutputRewards: two prompts with two *)
(* traces each.  The first prompt's traces have every outcome, the         *)
(* second's are right, wrong, or empty.  The configurations are those of   *)
(* the training scripts and the ones that combine filter, full trace,      *)
(* absolute budgets and KL penalty.                                        *)
(***************************************************************************)
EXTENDS ForcedOutputRewards

Fraction(n, d) == [relative |-> TRUE, num |-> n, den |-> d]
Tokens(n) == [relative |-> FALSE, num |-> n, den |-> 1]

Rlcm ==
    [budgets |-> <<Fraction(1, 4), Fraction(3, 4)>>, full_trace |-> FALSE,
     natural |-> TRUE, linear |-> FALSE, best |-> FALSE, budget_weight |-> 0,
     mode |-> "conf_diff", corner |-> FALSE, probe_weight |-> 1, filter |-> FALSE,
     estimator |-> "grpo", kl |-> FALSE]

AllConfigs ==
    { Rlcm,
      [Rlcm EXCEPT !.mode = "conf_margin_covar", !.corner = TRUE, !.kl = TRUE],
      [Rlcm EXCEPT !.mode = "conf_diff", !.corner = TRUE, !.filter = TRUE,
                   !.budgets = <<Tokens(9), Tokens(3)>>, !.full_trace = TRUE,
                   !.budget_weight = 2, !.linear = TRUE],
      [Rlcm EXCEPT !.mode = "ranking_reward", !.probe_weight = 2, !.best = TRUE],
      [Rlcm EXCEPT !.mode = "accuracy", !.filter = TRUE, !.full_trace = TRUE,
                   !.budgets = <<Tokens(9)>>],
      [Rlcm EXCEPT !.mode = "off", !.estimator = "c2gspg", !.budgets = <<Fraction(1, 1)>>] }

Half(first, second) == [s \in Samples |-> IF s <= GroupSize THEN first ELSE second]
AllLengths == Half({0, 2, 4}, {0, 4})
AllNaturals == Half({"right", "raises"}, {"right", "wrong"})
AllAnswers ==
    Half({<<"right", "right">>, <<"raises", "wrong">>, <<"wrong", "right">>},
         {<<"right", "right">>})

\* Different at every position, so that a value read in the wrong place shows.
Uneven == [s \in Samples |-> [p \in 0..ResponseLength |-> 144 * (((5 * s + 3 * p) % 11) + 1)]]
AllConfidences == {Uneven, [s \in Samples |-> [p \in 0..ResponseLength |-> 1728 - Uneven[s][p]]]}
AllPenalties == {[s \in Samples |-> 0], [s \in Samples |-> s]}
=============================================================================
