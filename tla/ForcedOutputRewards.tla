------------------------ MODULE ForcedOutputRewards ------------------------
(***************************************************************************)
(* A training step of the forced-output (RLCM) trainer, from the traces to *)
(* the advantages: the truncation of each trace at its budgets, the        *)
(* rewards of the forced answers and of the natural trace, the filter of   *)
(* unanimous groups, the probe's reward read from one flat tensor of       *)
(* predictions, and the advantage within a group.                          *)
(*                                                                         *)
(* Rewards and confidences are integers, Unit being 1.0; an instance       *)
(* chooses Unit so that every division is exact.  Weights are counted in   *)
(* halves.  What the probe predicts at a position of a trace is arbitrary. *)
(* An advantage is the reward centered in its group and multiplied by the  *)
(* group's size: the positive factors of the estimators are left out.      *)
(***************************************************************************)
EXTENDS Integers, Sequences, FiniteSets, SequencesExt

CONSTANTS
    Prompts, GroupSize,     \* prompts in a batch, rollout.n
    ResponseLength,
    NumAnswers,             \* num_forced_answers
    Configs,                \* configurations, records as ConfigsAssumption says
    Lengths,                \* sample -> lengths its trace may have
    Naturals,               \* sample -> outcomes its trace may have
    Answers,                \* sample -> answers a budget may bring
    Confidences,            \* what the probe may predict: sample, position -> value
    Penalties,              \* what the KL penalty may take off: sample -> value
    Unit

Samples == 1..(Prompts * GroupSize)
Outcomes == {"right", "wrong", "raises"}
Modes == {"off", "accuracy", "conf_diff", "conf_diff_v1", "conf_margin_covar",
          "ranking_reward"}

\* The combinations __init__ refuses are no configurations.
ASSUME ConfigsAssumption ==
    /\ Prompts \in Nat \ {0} /\ GroupSize \in Nat \ {0, 1}
    /\ ResponseLength \in Nat \ {0} /\ NumAnswers \in Nat \ {0} /\ Unit \in Nat \ {0}
    /\ Lengths \in [Samples -> SUBSET Nat] /\ Naturals \in [Samples -> SUBSET Outcomes]
    /\ Answers \in [Samples -> SUBSET [1..NumAnswers -> Outcomes]]
    /\ Confidences \subseteq [Samples -> [0..ResponseLength -> 0..Unit]]
    /\ \A c \in Configs :
        /\ c.budgets \in Seq([relative : BOOLEAN, num : Nat \ {0}, den : Nat \ {0}])
        /\ {c.full_trace, c.natural, c.linear, c.best, c.corner, c.filter, c.kl} \subseteq BOOLEAN
        /\ c.mode \in Modes /\ c.estimator \in {"grpo", "c2gspg"}
        /\ c.budget_weight \in Nat /\ c.probe_weight \in Nat
        /\ c.filter => c.natural /\ c.mode # "off"
        /\ c.mode = "ranking_reward" => c.natural

\* Unit is fine enough: the mean of any confidences of a trace is an integer.
ASSUME UnitAssumption ==
    \A c \in Configs, conf \in Confidences, s \in Samples, p \in 0..ResponseLength :
        \A n \in 1..(Len(c.budgets) + 1) : conf[s][p] % n = 0

VARIABLES
    config,
    stage,          \* "generate", "reward", "probe", "adv" or "done"
    traces,         \* sequence of the samples generated so far
    positions,      \* probe_budget_positions: sample -> truncation lengths
    mc,             \* probe_mc_accuracies: sample -> right answers per budget
    correct,        \* forced_output_natural_correct
    rewards,        \* sample -> the sum of its row of reward_tensor
    keep,           \* natural_corner_keep_mask, all samples for None
    confidence,     \* what the probe predicts in this step
    margins,        \* probe_reward_scalars
    advantages

step == <<positions, mc, correct, rewards, keep, confidence, margins, advantages>>
vars == <<config, stage, traces, step>>

Nobody(v) == [s \in Samples |-> v]
FreshStep ==
    /\ positions' = Nobody(<< >>) /\ mc' = Nobody(<< >>) /\ correct' = Nobody(FALSE)
    /\ rewards' = Nobody(0) /\ keep' = Samples /\ margins' = Nobody(0)
    /\ confidence' = Nobody([p \in 0..ResponseLength |-> 0]) /\ advantages' = Nobody(0)

Init ==
    /\ config \in Configs
    /\ stage = "generate" /\ traces = << >>
    /\ positions = Nobody(<< >>) /\ mc = Nobody(<< >>) /\ correct = Nobody(FALSE)
    /\ rewards = Nobody(0) /\ keep = Samples /\ margins = Nobody(0)
    /\ confidence = Nobody([p \in 0..ResponseLength |-> 0]) /\ advantages = Nobody(0)

Least(a, b) == IF a < b THEN a ELSE b
Total(seq) == FoldLeft(LAMBDA sum, x : sum + x, 0, seq)
Mean(seq) == Total(seq) \div Len(seq)

-----------------------------------------------------------------------------
(* The agent loop: a trace, and answers forced at its budgets *)

\* Python rounds a half to the even neighbour.
Rounded(n, d) ==
    CHOOSE q \in {n \div d, (n \div d) + 1} :
        LET twice == 2 * (n - q * d)
        IN -d <= twice /\ twice <= d /\ (twice \in {-d, d} => q % 2 = 0)

Target(length, budget) ==
    IF budget.relative THEN Rounded(length * budget.num, budget.den) ELSE budget.num

Resolved(length, budget) == Least(length, Target(length, budget))

\* Python's sorted().
Below(sorted, x) ==
    CHOOSE n \in 0..Len(sorted) :
        /\ \A i \in 1..n : sorted[i] <= x
        /\ \A i \in (n + 1)..Len(sorted) : x < sorted[i]
Insert(sorted, x) == InsertAt(sorted, Below(sorted, x) + 1, x)
Sorted(seq) == FoldLeft(LAMBDA sorted, x : Insert(sorted, x), << >>, seq)

ResolvedLengths(length, budgets) == [b \in DOMAIN budgets |-> Resolved(length, budgets[b])]

KeepsDuplicates(length, budgets) ==
    SelectSeq(Sorted(ResolvedLengths(length, budgets)), LAMBDA l : l > 0)

Keep(kept, l) == IF l > 0 /\ ~Contains(kept, l) THEN Append(kept, l) ELSE kept
Deduped(lengths) == FoldLeft(LAMBDA kept, l : Keep(kept, l), << >>, lengths)
BudgetLengths(length, budgets) == Deduped(Sorted(ResolvedLengths(length, budgets)))

TruncationLengths(length) ==
    LET lengths == BudgetLengths(length, config.budgets)
    IN IF config.full_trace /\ ~Contains(lengths, length)
       THEN Sorted(Append(lengths, length))
       ELSE lengths

\* The samples are generated concurrently and share nothing; the batch holds
\* them in the order they were asked for.
Generate(length, natural) ==
    /\ stage = "generate" /\ Len(traces) < Cardinality(Samples)
    /\ LET s == Len(traces) + 1 IN
        /\ length \in Lengths[s] /\ natural \in Naturals[s]
        /\ \E answers \in [1..Len(TruncationLengths(length)) -> Answers[s]] :
            traces' = Append(traces, [length |-> length, natural |-> natural, answers |-> answers])
    /\ stage' = IF Len(traces') = Cardinality(Samples) THEN "reward" ELSE "generate"
    /\ UNCHANGED <<config, step>>

-----------------------------------------------------------------------------
(* _compute_forced_output_rewards, and the filter of unanimous groups *)

\* _safe_compute_score: a score that cannot be computed is 0.
Score(outcome) ==
    CASE outcome = "right" -> Unit [] outcome = "wrong" -> -Unit [] outcome = "raises" -> 0

ValidLength(s) == Least(traces[s].length, ResponseLength)
NaturalReward(s) ==
    IF config.natural /\ ValidLength(s) > 0 THEN Score(traces[s].natural) ELSE 0

AnswerScores(answers) == [a \in DOMAIN answers |-> Score(answers[a])]
AnswersReward(answers) ==
    LET scores == AnswerScores(answers)
    IN IF config.best
       THEN CHOOSE r \in ToSet(scores) : \A other \in ToSet(scores) : other <= r
       ELSE Mean(scores)

BudgetRewards(s) ==
    [k \in DOMAIN traces[s].answers |->
        (AnswersReward(traces[s].answers[k]) * config.budget_weight) \div 2]

Aggregated(rs) ==
    LET n == Len(rs) IN
    IF n = 0 THEN 0
    ELSE IF config.linear
    THEN Total([k \in 1..n |-> k * rs[k]]) \div ((n * (n + 1)) \div 2)
    ELSE Mean(rs)

AverageWithNatural(s) ==
    Aggregated(IF config.natural THEN Append(BudgetRewards(s), NaturalReward(s))
                                 ELSE BudgetRewards(s))

\* The reward sits on the last token of the response, if there is one.
SequenceReward(s) ==
    IF ValidLength(s) = 0 THEN 0 ELSE Aggregated(BudgetRewards(s)) + NaturalReward(s)

RightAnswers(answers) == Cardinality({a \in DOMAIN answers : Score(answers[a]) > 0})

Group(s) == {t \in Samples : (t - 1) \div GroupSize = (s - 1) \div GroupSize}
Mixed(s, labels) == {labels[t] : t \in Group(s)} = BOOLEAN

ComputeRewards ==
    /\ stage = "reward"
    /\ positions' = [s \in Samples |-> TruncationLengths(traces[s].length)]
    /\ mc' = [s \in Samples |->
                [k \in DOMAIN traces[s].answers |-> RightAnswers(traces[s].answers[k])]]
    /\ correct' = [s \in Samples |-> NaturalReward(s) > 0]
    /\ rewards' = [s \in Samples |-> SequenceReward(s)]
    /\ LET mixed == {s \in Samples : Mixed(s, correct')}
       IN keep' = IF config.filter /\ mixed # {} THEN mixed ELSE Samples
    /\ stage' = IF config.mode = "off" THEN "adv" ELSE "probe"
    /\ UNCHANGED <<config, traces, confidence, margins, advantages>>

-----------------------------------------------------------------------------
(* The probe: predictions for the whole batch in one tensor, split again *)

\* extract_budget_hidden_states: the state at the truncated trace's last token.
Predictions(conf) ==
    FlattenSeq([s \in Samples |->
        [k \in DOMAIN positions[s] |-> conf[s][Least(positions[s][k], ResponseLength)]]])

StaysAtOneClass(s) ==
    Total([t \in 1..(s - 1) |->
        IF {0, NumAnswers} \subseteq ToSet(mc[t]) THEN Len(positions[t]) ELSE 0])
Offset(s) == Total([t \in 1..(s - 1) |-> Len(positions[t])])
OwnPredictions(s, predictions) ==
    SubSeq(predictions, Offset(s) + 1, Offset(s) + Len(positions[s]))

SumAt(own, indices) == Total([k \in DOMAIN own |-> IF k \in indices THEN own[k] ELSE 0])
MeanAt(own, indices) == SumAt(own, indices) \div Cardinality(indices)

\* compute_conf_diff_rewards; half right budgets are left out.
Margin(own, right) ==
    LET all == {k \in DOMAIN own : right[k] = NumAnswers}
        none == {k \in DOMAIN own : right[k] = 0}
    IN CASE all # {} /\ none # {} -> MeanAt(own, all) - MeanAt(own, none)
         [] all = {} /\ none = {} -> 0
         [] ~config.corner /\ (all = {}) # (none = {}) -> 0
         [] config.corner /\ all # {} /\ none = {} -> MeanAt(own, all)
         [] config.corner /\ all = {} /\ none # {} ->
                (IF config.mode = "conf_diff" THEN Unit ELSE 0) - MeanAt(own, none)

GroupCovariance(s) ==
    LET p == Cardinality({t \in Group(s) : correct[t]}) IN p * (GroupSize - p)

RankingReward(s, own) ==
    LET half == Unit \div 2
        sure == Mean(own) > half
    IN IF correct[s] THEN (IF sure THEN Unit ELSE half) ELSE (IF sure THEN -Unit ELSE -half)

AccuracyReward(own, right) ==
    Mean([k \in DOMAIN own |->
            IF (2 * own[k] > Unit) = (2 * right[k] > NumAnswers) THEN Unit ELSE 0])

ProbeReward(s, own) ==
    CASE own = << >> -> 0
      [] own # << >> /\ config.mode = "accuracy" -> AccuracyReward(own, mc[s])
      [] own # << >> /\ config.mode = "ranking_reward" -> RankingReward(s, own)
      [] own # << >> /\ config.mode \in {"conf_diff", "conf_diff_v1"} -> Margin(own, mc[s])
      [] own # << >> /\ config.mode = "conf_margin_covar" ->
            (Margin(own, mc[s]) * GroupCovariance(s)) \div (GroupSize * GroupSize)

\* The branch of the simple modes leaves the filtered samples their reward.
AddProbeReward(conf) ==
    LET reward == [s \in Samples |-> ProbeReward(s, OwnPredictions(s, Predictions(conf)))]
    IN /\ stage = "probe"
       /\ confidence' = conf
       /\ margins' = [s \in Samples |->
                        IF s \in keep \/ config.mode = "accuracy" THEN reward[s] ELSE 0]
       /\ rewards' = [s \in Samples |-> rewards[s] + (margins'[s] * config.probe_weight) \div 2]
       /\ stage' = "adv"
       /\ UNCHANGED <<config, traces, positions, mc, correct, keep, advantages>>

-----------------------------------------------------------------------------
(* The advantage *)

NoGuardrail(s) == rewards[s]
TokenLevelScore(s) == IF s \in keep THEN rewards[s] ELSE 0

Centered(s, value) ==
    IF ValidLength(s) = 0 THEN 0
    ELSE GroupSize * value[s] - Total([t \in 1..GroupSize |->
            value[((s - 1) \div GroupSize) * GroupSize + t]])

Labels == [s \in Samples |-> IF correct[s] THEN 1 ELSE 0]

ComputeAdvantage ==
    /\ stage = "adv"
    /\ \E penalty \in IF config.kl THEN Penalties ELSE {Nobody(0)} :
        LET score == [s \in Samples |-> TokenLevelScore(s) - penalty[s]]
            value == IF config.estimator = "c2gspg" THEN Labels ELSE score
        IN advantages' = [s \in Samples |-> Centered(s, value)]
    /\ stage' = "done"
    /\ UNCHANGED <<config, traces, positions, mc, correct, rewards, keep, confidence, margins>>

\* The actor is updated, and the next batch comes.
NextBatch ==
    /\ stage = "done"
    /\ stage' = "generate" /\ traces' = << >>
    /\ FreshStep
    /\ UNCHANGED config

Next ==
    \/ \E length \in UNION {Lengths[s] : s \in Samples},
          natural \in UNION {Naturals[s] : s \in Samples} : Generate(length, natural)
    \/ ComputeRewards
    \/ \E conf \in Confidences : AddProbeReward(conf)
    \/ ComputeAdvantage
    \/ NextBatch

Spec == Init /\ [][Next]_vars

-----------------------------------------------------------------------------
Graded == stage \in {"probe", "adv", "done"}

\* compute_budget_truncation_lengths and the full trace: the lengths increase
\* strictly, and they are exactly those some budget, or the whole trace, asks
\* for; every length has its own accuracy.
TruncationsSound ==
    Graded => \A s \in Samples :
        LET length == traces[s].length
            asked == {Resolved(length, b) : b \in ToSet(config.budgets)} \ {0}
        IN /\ ToSet(positions[s]) = asked \cup (IF config.full_trace THEN {length} ELSE {})
           /\ \A k \in 2..Len(positions[s]) : positions[s][k - 1] < positions[s][k]
           /\ Len(mc[s]) = Len(positions[s])

\* filter_natural_corner_groups: without a KL penalty in the reward, a group
\* whose traces are all right or all wrong teaches the actor nothing, whatever
\* its forced answers and the probe's reward are, unless all groups of the
\* step are like that.
UnanimousTeachNothing ==
    stage = "done" /\ config.filter /\ ~config.kl
    /\ (\E s \in Samples : Mixed(s, correct)) =>
        \A s \in Samples : ~Mixed(s, correct) => advantages[s] = 0

\* The probe's reward of a sample comes from its own predictions and its own
\* answers, however many budgets the samples before it have: the mean
\* confidence where every answer is right less that where none is.
ProbeReadsOwnTrace ==
    stage \in {"adv", "done"} /\ config.mode = "conf_diff" /\ ~config.corner =>
        \A s \in keep :
            LET at(n) == {k \in DOMAIN traces[s].answers : RightAnswers(traces[s].answers[k]) = n}
                sum(ks) == SumAt([k \in DOMAIN traces[s].answers |->
                    confidence[s][Least(TruncationLengths(traces[s].length)[k], ResponseLength)]], ks)
                all == at(NumAnswers)
                none == at(0)
            IN IF all = {} \/ none = {} THEN margins[s] = 0
               ELSE margins[s] * Cardinality(all) * Cardinality(none)
                    = sum(all) * Cardinality(none) - sum(none) * Cardinality(all)

\* The auxiliary rewards do not turn the outcome round, in the configurations
\* of which that can be said: the natural trace is scored, the budgets have no
\* weight of their own, the KL penalty is off, and the probe's reward is a
\* ranking or weighs at most one half (its margins lie between -1 and 1), or
\* the labels alone count (a condition on Configs: Moderate, in the theorem).
\* A right trace then has a higher advantage than a wrong one of the same
\* prompt.
RightBeatsWrong ==
    stage = "done" /\ config.natural /\ config.budget_weight = 0 /\ ~config.kl =>
        \A s \in Samples : \A t \in Group(s) :
            correct[s] /\ ~correct[t] /\ ValidLength(t) > 0 => advantages[s] > advantages[t]

=============================================================================
