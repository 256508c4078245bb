---------------------- MODULE ForcedOutputRewardsProofs ----------------------
(***************************************************************************)
(* Theorems about ForcedOutputRewards, for any number of prompts and of    *)
(* rollouts per prompt, any budgets and any configuration.                 *)
(*                                                                         *)
(* FilterInv.  Once the groups are graded the filter keeps exactly the     *)
(* mixed ones, if there are any.  The members of an unanimous group share  *)
(* the label and the score the advantage is computed from, and a value     *)
(* every member has is the group's mean.                                   *)
(*                                                                         *)
(* BatchInv.  A batch is graded only when it is complete, and every trace  *)
(* of it has one set of answers per truncation length.  What the lengths   *)
(* are follows from the folds that sort the budgets and drop duplicates,   *)
(* by induction over the steps of the fold.                                *)
(*                                                                         *)
(* GradedInv.  What the grading writes is what the traces say, until the   *)
(* next batch.  ReadsOwn follows from it: the predictions of the batch,    *)
(* joined in one sequence, are found again at the running sum of the       *)
(* lengths, and a mean is exact because no trace has more truncations      *)
(* than UnitAssumption speaks of.                                          *)
(*                                                                         *)
(* Bare and Ranked.  The rewards are the outcomes until the probe's comes  *)
(* in; what it adds is less than the distance between two outcomes, so a   *)
(* right trace stays ahead of a wrong one, and the advantage of a group    *)
(* keeps the order of the rewards.                                         *)
(***************************************************************************)
EXTENDS ForcedOutputRewards, FiniteSetTheorems, SequenceTheorems, WellFoundedInduction, TLAPS

(* Induction over the numbers, for a set of them.                          *)
LEMMA LeastOf ==
    ASSUME NEW T, T \subseteq Nat, T # {}
    PROVE  \E m \in T : \A k \in T : m <= k
<1> DEFINE R == OpToRel(<, Nat)
<1>1. IsWellFoundedOn(R, Nat)
  BY NatLessThanWellFounded, Zenon
<1>2. \A x, y \in Nat : <<y, x>> \in R <=> y < x
  BY DEF OpToRel
<1> HIDE DEF R
<1>3. PICK x \in T : \A y \in T : ~ (<<y, x>> \in R)
  BY <1>1, WFMin
<1>4. ASSUME NEW y \in T PROVE x <= y
  <2>1. x \in Nat /\ y \in Nat /\ ~(y < x)
    BY <1>2, <1>3, <1>4
  <2> QED
    BY <2>1
<1> QED
  BY <1>4

LEMMA UpTo ==
    ASSUME NEW n \in Nat, NEW T, 0 \in T,
           \A i \in 0..(n - 1) : i \in T => i + 1 \in T
    PROVE  0..n \subseteq T
<1> DEFINE U == (0..n) \ T
<1>1. SUFFICES ASSUME U # {} PROVE FALSE
  OBVIOUS
<1>2. PICK m \in U : \A k \in U : m <= k
  <2> HIDE DEF U
  <2>1. U \subseteq Nat
    BY DEF U
  <2> QED
    BY <1>1, <2>1, LeastOf
<1>3. m \in 1..n /\ m - 1 \in 0..(n - 1) /\ m - 1 \notin U
  BY <1>2
<1> QED
  BY <1>2, <1>3

-----------------------------------------------------------------------------
(* FoldLeft goes through the sets of positions, the greatest first.        *)
LEMMA MaxUpTo ==
    ASSUME NEW n \in Nat, NEW s \in SUBSET (1..n)
    PROVE  /\ s # {} => Max(s) \in s /\ s \ {Max(s)} \in SUBSET (1..n)
           /\ n \in s => Max(s) = n
<1>1. s # {} => \E m \in s : \A k \in s : m >= k
  <2>1. SUFFICES ASSUME s # {} PROVE \E m \in s : \A k \in s : m >= k
    OBVIOUS
  <2> DEFINE T == {n - k : k \in s}
  <2>2. T \subseteq Nat /\ T # {}
    <3>1. \A k \in s : n - k \in Nat
      OBVIOUS
    <3> QED
      BY <2>1, <3>1
  <2>3. PICK t \in T : \A k \in T : t <= k
    <3> HIDE DEF T
    <3> QED
      BY <2>2, LeastOf
  <2>4. PICK m \in s : t = n - m
    OBVIOUS
  <2>5. ASSUME NEW k \in s PROVE m >= k
    <3>1. n - k \in T /\ k \in Int /\ m \in Int
      BY <2>4
    <3>2. t <= n - k
      <4> HIDE DEF T
      <4> QED
        BY <2>3, <3>1
    <3> QED
      BY <2>4, <3>1, <3>2
  <2> QED
    BY <2>5
<1>2. s # {} => Max(s) \in s /\ \A k \in s : Max(s) >= k
  BY <1>1 DEF Max
<1>3. n \in s => Max(s) = n
  <2>1. n \in s => Max(s) \in 1..n /\ Max(s) >= n
    BY <1>2
  <2> QED
    BY <2>1
<1> QED
  BY <1>2, <1>3

IsFold(G, n, B, base, op) ==
    /\ G \in [SUBSET (1..n) -> B]
    /\ \A s \in SUBSET (1..n) : G[s] = IF s = {} THEN base ELSE op[<<G[s \ {Max(s)}], Max(s)>>]

\* A fold exists, whatever it combines.
LEMMA FoldExists ==
    ASSUME NEW n \in Nat, NEW B, NEW base \in B, NEW op \in [B \X (1..n) -> B]
    PROVE  \E G : IsFold(G, n, B, base, op)
<1> DEFINE T == {i \in 0..n : \E G : IsFold(G, i, B, base, op)}
<1>1. 0 \in T
  <2> DEFINE G == [s \in SUBSET (1..0) |-> base]
  <2>1. SUBSET (1..0) = {{}}
    OBVIOUS
  <2>2. IsFold(G, 0, B, base, op)
    BY <2>1 DEF IsFold
  <2> HIDE DEF G
  <2> QED
    BY <2>2
<1>2. ASSUME NEW i \in 0..(n - 1), i \in T PROVE i + 1 \in T
  <2>1. PICK G : IsFold(G, i, B, base, op)
    BY <1>2
  <2> DEFINE j == i + 1
             H == [s \in SUBSET (1..j) |->
                     IF j \in s THEN op[<<G[s \ {j}], j>>] ELSE G[s]]
  <2>2. j \in Nat /\ j \in 1..n
    OBVIOUS
  <2>3. \A s \in SUBSET (1..j) : (j \in s => s \ {j} \in SUBSET (1..i)) /\ (j \notin s => s \in SUBSET (1..i))
    OBVIOUS
  <2>4. H \in [SUBSET (1..j) -> B]
    <3> HIDE DEF j
    <3>1. \A s \in SUBSET (1..j) : H[s] \in B
      BY <2>1, <2>2, <2>3 DEF IsFold
    <3> QED
      BY <3>1
  <2>5. ASSUME NEW s \in SUBSET (1..j)
        PROVE  H[s] = IF s = {} THEN base ELSE op[<<H[s \ {Max(s)}], Max(s)>>]
    <3>1. CASE j \in s
      <4>1. Max(s) = j /\ s \ {j} \in SUBSET (1..j) /\ s # {}
        BY <2>2, <3>1, MaxUpTo
      <4>2. H[s] = op[<<G[s \ {j}], j>>] /\ H[s \ {j}] = G[s \ {j}]
        BY <3>1, <4>1
      <4> HIDE DEF H
      <4> QED
        BY <4>1, <4>2
    <3>2. CASE j \notin s
      <4>1. s \in SUBSET (1..i)
        BY <2>3, <3>2
      <4>2. s # {} => s \ {Max(s)} \in SUBSET (1..i) /\ s \ {Max(s)} \in SUBSET (1..j)
        BY <4>1, MaxUpTo
      <4>3. H[s] = G[s] /\ (s # {} => H[s \ {Max(s)}] = G[s \ {Max(s)}])
        BY <3>2, <4>1, <4>2
      <4> HIDE DEF H
      <4> QED
        BY <2>1, <4>1, <4>3 DEF IsFold
    <3> QED
      BY <3>1, <3>2
  <2> HIDE DEF H
  <2>6. IsFold(H, j, B, base, op)
    BY <2>4, <2>5 DEF IsFold
  <2> QED
    BY <2>2, <2>6
<1>3. 0..n \subseteq T
  <2> HIDE DEF T
  <2> QED
    BY <1>1, <1>2, UpTo
<1>4. n \in T
  <2> HIDE DEF T
  <2> QED
    BY <1>3
<1> QED
  BY <1>4

LEMMA Prefix ==
    ASSUME NEW n \in Nat, NEW i \in 1..n
    PROVE  /\ 1..i \in SUBSET (1..n) /\ 1..i # {} /\ Max(1..i) = i
           /\ (1..i) \ {i} = 1..(i - 1)
<1>1. 1..i \in SUBSET (1..n) /\ i \in 1..i /\ i \in Nat /\ 1..i \in SUBSET (1..i)
  OBVIOUS
<1>2. (1..i) \ {i} = 1..(i - 1)
  OBVIOUS
<1>3. Max(1..i) = i
  BY <1>1, MaxUpTo
<1> QED
  BY <1>1, <1>2, <1>3

LEMMA TotalFacts ==
    ASSUME NEW n \in Nat, NEW seq \in [1..n -> Int]
    PROVE  \E F : /\ F[0] = 0 /\ Total(seq) = F[n]
                  /\ \A i \in 1..n : F[i] = F[i - 1] + seq[i]
<1> DEFINE S == 1..n
           Step(G) == [s \in SUBSET S |-> IF s = {} THEN 0 ELSE G[s \ {Max(s)}] + seq[Max(s)]]
           I == CHOOSE G : G = Step(G)
<1>1. Total(seq) = I[S]
  BY DEF Total, FoldLeft, MapThenFoldSet
<1>2. I = Step(I)
  <2> DEFINE op == [p \in Int \X (1..n) |-> p[1] + seq[p[2]]]
  <2>1. op \in [Int \X (1..n) -> Int]
    OBVIOUS
  <2>2. \A a \in Int, k \in 1..n : op[<<a, k>>] = a + seq[k]
    OBVIOUS
  <2> HIDE DEF op
  <2>3. PICK G : IsFold(G, n, Int, 0, op)
    <3>1. 0 \in Int
      OBVIOUS
    <3> QED
      BY <2>1, <3>1, FoldExists, Zenon
  <2>4. ASSUME NEW s \in SUBSET (1..n)
        PROVE  G[s] = IF s = {} THEN 0 ELSE G[s \ {Max(s)}] + seq[Max(s)]
    <3>1. s # {} => Max(s) \in 1..n /\ s \ {Max(s)} \in SUBSET (1..n)
      BY MaxUpTo
    <3>2. s # {} => G[s \ {Max(s)}] \in Int
      BY <2>3, <3>1 DEF IsFold
    <3>3. s # {} => op[<<G[s \ {Max(s)}], Max(s)>>] = G[s \ {Max(s)}] + seq[Max(s)]
      BY <2>2, <3>1, <3>2
    <3> QED
      BY <2>3, <3>3 DEF IsFold
  <2>5. G = Step(G)
    BY <2>3, <2>4 DEF IsFold
  <2> HIDE DEF Step
  <2> QED
    BY <2>5
<1> HIDE DEF I
<1> DEFINE F == [i \in 0..n |-> I[1..i]]
<1>3. F[0] = 0
  <2>1. I[{}] = 0 /\ 1..0 = {}
    BY <1>2
  <2> QED
    BY <2>1
<1>4. ASSUME NEW i \in 1..n PROVE F[i] = F[i - 1] + seq[i]
  <2>1. I[1..i] = I[1..(i - 1)] + seq[i]
    <3>1. \A s \in SUBSET S : I[s] = IF s = {} THEN 0 ELSE I[s \ {Max(s)}] + seq[Max(s)]
      BY <1>2
    <3>2. 1..i \in SUBSET S /\ 1..i # {} /\ Max(1..i) = i /\ (1..i) \ {i} = 1..(i - 1)
      BY Prefix
    <3>3. I[1..i] = I[(1..i) \ {Max(1..i)}] + seq[Max(1..i)]
      BY <3>1, <3>2
    <3> QED
      BY <3>2, <3>3
  <2> QED
    BY <2>1
<1>5. Total(seq) = F[n]
  BY <1>1
<1> HIDE DEF F
<1> QED
  BY <1>3, <1>4, <1>5

\* What every member of a group has in common adds up to as many times it.
LEMMA TotalOfOne ==
    ASSUME NEW n \in Nat, NEW c \in Int, NEW seq \in [1..n -> Int],
           \A i \in 1..n : seq[i] = c
    PROVE  Total(seq) = n * c
<1>1. PICK F :
        /\ F[0] = 0 /\ Total(seq) = F[n]
        /\ \A i \in 1..n : F[i] = F[i - 1] + seq[i]
  BY TotalFacts
<1> DEFINE T == {i \in 0..n : F[i] = i * c}
<1>2. 0 \in T
  BY <1>1
<1>3. ASSUME NEW i \in 0..(n - 1), i \in T PROVE i + 1 \in T
  <2>1. i + 1 \in 1..n /\ (i + 1) - 1 = i
    OBVIOUS
  <2>2. F[i + 1] = F[i] + c
    BY <1>1, <2>1
  <2>3. (i + 1) * c = i * c + c
    OBVIOUS
  <2> QED
    BY <1>3, <2>1, <2>2, <2>3
<1> HIDE DEF T
<1>4. 0..n \subseteq T
  BY <1>2, <1>3, UpTo
<1>5. n \in T
  BY <1>4
<1> QED
  BY <1>1, <1>5 DEF T

-----------------------------------------------------------------------------
(* Groups: the rollouts of a prompt lie next to each other in the batch.   *)
Place(s, t) == ((s - 1) \div GroupSize) * GroupSize + t

LEMMA Numbers == GroupSize \in Nat /\ GroupSize > 1 /\ Prompts \in Nat /\ Prompts * GroupSize \in Nat
BY ConfigsAssumption

LEMMA Quotient ==
    ASSUME NEW q \in Int, NEW r \in 0..(GroupSize - 1)
    PROVE  (q * GroupSize + r) \div GroupSize = q
<1> DEFINE g == GroupSize
           x == q * g + r
           p == x \div g
           e == x % g
<1>1. g \in Nat /\ g > 1
  BY Numbers
<1>2. x \in Int /\ p \in Int /\ e \in 0..(g - 1) /\ x = g * p + e
  BY <1>1
<1>3. g * p + e = q * g + r /\ r \in 0..(g - 1)
  BY <1>2
<1> HIDE DEF g, p, e
<1>4. CASE p <= q - 1
  <2>1. g * p <= g * (q - 1) /\ g * (q - 1) = q * g - g
    BY <1>1, <1>2, <1>4
  <2>2. g * p \in Int /\ q * g \in Int
    BY <1>1, <1>2
  <2> QED
    BY <1>1, <1>2, <1>3, <2>1, <2>2
<1>5. CASE p >= q + 1
  <2>1. g * p >= g * (q + 1) /\ g * (q + 1) = q * g + g
    BY <1>1, <1>2, <1>5
  <2>2. g * p \in Int /\ q * g \in Int
    BY <1>1, <1>2
  <2> QED
    BY <1>1, <1>2, <1>3, <2>1, <2>2
<1>6. p = q \/ p <= q - 1 \/ p >= q + 1
  BY <1>2
<1> QED
  BY <1>4, <1>5, <1>6 DEF p, g, x

LEMMA PlaceInGroup ==
    ASSUME NEW s \in Samples, NEW t \in 1..GroupSize
    PROVE  Place(s, t) \in Group(s)
<1> DEFINE g == GroupSize
           q == (s - 1) \div g
           e == (s - 1) % g
<1>1. g \in Nat /\ g > 1 /\ Prompts \in Nat /\ Prompts * g \in Nat
  BY Numbers
<1>2. s \in 1..(Prompts * g)
  BY DEF Samples
<1>3. q \in Nat /\ e \in 0..(g - 1) /\ s - 1 = g * q + e
  BY <1>1, <1>2
<1>4. Place(s, t) = q * g + t
  BY DEF Place
<1> HIDE DEF g, q, e
<1>5. q <= Prompts - 1
  <2>1. SUFFICES ASSUME q >= Prompts PROVE FALSE
    BY <1>1, <1>3
  <2>2. g * q >= g * Prompts /\ g * Prompts = Prompts * g
    BY <1>1, <1>3, <2>1
  <2>3. g * q \in Int
    BY <1>1, <1>3
  <2> QED
    BY <1>1, <1>2, <1>3, <2>2, <2>3
<1>6. q * g <= (Prompts - 1) * g /\ (Prompts - 1) * g = Prompts * g - g /\ q * g \in Nat
  BY <1>1, <1>3, <1>5
<1>7. t \in 1..g
  BY DEF g
<1>8. q * g + t \in 1..(Prompts * g)
  BY <1>1, <1>6, <1>7
<1>9. (q * g + (t - 1)) \div g = q
  <2>1. t - 1 \in 0..(GroupSize - 1) /\ q \in Int
    BY <1>3, Numbers
  <2> QED
    BY <2>1, Quotient DEF g
<1>10. (q * g + t) - 1 = q * g + (t - 1)
  BY <1>6, <1>7
<1> QED
  BY <1>4, <1>8, <1>9, <1>10 DEF Group, Samples, g, q

\* The groups are the classes of an equivalence.
LEMMA GroupOfMember ==
    ASSUME NEW s \in Samples, NEW t \in Group(s)
    PROVE  t \in Samples /\ s \in Group(s) /\ Group(t) = Group(s)
BY DEF Group

-----------------------------------------------------------------------------
(* The filter *)

MixedSamples == {s \in Samples : Mixed(s, correct)}

\* Once the groups are graded, the filter keeps the mixed ones, if any;
\* otherwise all are kept.
Filtered ==
    /\ config \in Configs /\ stage \in {"generate", "reward", "probe", "adv", "done"}
    /\ Graded => /\ correct \in [Samples -> BOOLEAN]
                 /\ keep = IF config.filter /\ MixedSamples # {} THEN MixedSamples ELSE Samples

FilterInv == Filtered /\ UnanimousTeachNothing

\* A group that is not mixed has one label.
LEMMA OneLabel ==
    ASSUME NEW s \in Samples, NEW labels \in [Samples -> BOOLEAN], ~Mixed(s, labels)
    PROVE  \A t \in Group(s) : labels[t] = labels[s]
<1>1. SUFFICES ASSUME NEW t \in Group(s), labels[t] # labels[s] PROVE FALSE
  OBVIOUS
<1>2. t \in Samples /\ s \in Group(s)
  BY GroupOfMember
<1>3. labels[t] \in BOOLEAN /\ labels[s] \in BOOLEAN
  BY <1>2
<1>4. TRUE \in {labels[u] : u \in Group(s)} /\ FALSE \in {labels[u] : u \in Group(s)}
  <2>1. labels[t] \in {labels[u] : u \in Group(s)} /\ labels[s] \in {labels[u] : u \in Group(s)}
    BY <1>1, <1>2
  <2>2. (labels[t] = TRUE /\ labels[s] = FALSE) \/ (labels[t] = FALSE /\ labels[s] = TRUE)
    BY <1>1, <1>3, Zenon
  <2> QED
    BY <2>1, <2>2
<1>5. \A u \in Group(s) : u \in Samples
  BY GroupOfMember
<1>6. {labels[u] : u \in Group(s)} = BOOLEAN
  BY <1>4, <1>5
<1> QED
  BY <1>6 DEF Mixed

\* A value the whole group has is no better than the group's mean.
LEMMA NothingAboveTheMean ==
    ASSUME NEW s \in Samples, NEW value, NEW c \in Int,
           \A t \in Group(s) : value[t] = c
    PROVE  Centered(s, value) = 0
<1> DEFINE seq == [t \in 1..GroupSize |-> value[((s - 1) \div GroupSize) * GroupSize + t]]
<1>1. \A t \in 1..GroupSize : seq[t] = c
  BY PlaceInGroup DEF Place
<1>2. seq \in [1..GroupSize -> Int] /\ GroupSize \in Nat
  BY <1>1, Numbers
<1>3. Total(seq) = GroupSize * c
  <2> HIDE DEF seq
  <2> QED
    BY <1>1, <1>2, TotalOfOne
<1>4. value[s] = c
  BY GroupOfMember DEF Group
<1>5. GroupSize * c \in Int
  BY <1>2
<1> QED
  BY <1>3, <1>4, <1>5 DEF Centered

LEMMA FilteredInit ==
    ASSUME Init PROVE FilterInv
BY DEF Init, FilterInv, Filtered, Graded, UnanimousTeachNothing

LEMMA FilteredStep ==
    ASSUME Filtered, [Next]_vars PROVE Filtered'
<1>1. CASE \E length \in UNION {Lengths[s] : s \in Samples},
              natural \in UNION {Naturals[s] : s \in Samples} : Generate(length, natural)
  <2>1. stage' \in {"generate", "reward"} /\ config' = config
    BY <1>1 DEF Generate
  <2> QED
    BY <2>1 DEF Filtered, Graded
<1>2. CASE ComputeRewards
  <2>1. stage' \in {"probe", "adv"} /\ config' = config
    BY <1>2 DEF ComputeRewards
  <2>2. correct' = [s \in Samples |-> NaturalReward(s) > 0]
    BY <1>2 DEF ComputeRewards
  <2>3. correct' \in [Samples -> BOOLEAN]
    BY <2>2
  <2>4. keep' = IF config.filter /\ MixedSamples' # {} THEN MixedSamples' ELSE Samples
    <3>1. MixedSamples' = {s \in Samples : Mixed(s, correct')}
      BY DEF MixedSamples, Mixed, Group, Samples
    <3>2. keep' = IF config.filter /\ {s \in Samples : Mixed(s, correct')} # {}
                  THEN {s \in Samples : Mixed(s, correct')} ELSE Samples
      BY <1>2 DEF ComputeRewards
    <3> QED
      BY <3>1, <3>2
  <2> QED
    BY <2>1, <2>3, <2>4 DEF Filtered
<1>3. CASE (\E conf \in Confidences : AddProbeReward(conf)) \/ ComputeAdvantage
  <2>1. /\ stage' \in {"adv", "done"} /\ stage \in {"probe", "adv"}
        /\ UNCHANGED <<config, correct, keep>>
    BY <1>3 DEF AddProbeReward, ComputeAdvantage
  <2>2. UNCHANGED MixedSamples
    BY <2>1 DEF MixedSamples, Mixed, Group, Samples
  <2> QED
    BY <2>1, <2>2 DEF Filtered, Graded
<1>4. CASE NextBatch
  BY <1>4 DEF NextBatch, Filtered, Graded
<1>5. CASE UNCHANGED vars
  <2>1. UNCHANGED <<config, stage, correct, keep>>
    BY <1>5 DEF vars, step
  <2>2. UNCHANGED MixedSamples
    BY <2>1 DEF MixedSamples, Mixed, Group, Samples
  <2> QED
    BY <2>1, <2>2 DEF Filtered, Graded
<1> QED
  BY <1>1, <1>2, <1>3, <1>4, <1>5 DEF Next

LEMMA NothingTaught ==
    ASSUME Filtered, ComputeAdvantage PROVE UnanimousTeachNothing'
<1>1. UNCHANGED <<config, correct, keep>> /\ stage = "adv"
  BY DEF ComputeAdvantage
<1>2. SUFFICES ASSUME config.filter, ~config.kl,
                      \E u \in Samples : Mixed(u, correct),
                      NEW s \in Samples, ~Mixed(s, correct)
               PROVE  advantages'[s] = 0
  BY <1>1 DEF UnanimousTeachNothing, Mixed, Group, Samples
<1>3. correct \in [Samples -> BOOLEAN] /\ keep = MixedSamples
  BY <1>1, <1>2 DEF Filtered, Graded, MixedSamples
<1> DEFINE score == [t \in Samples |-> TokenLevelScore(t) - Nobody(0)[t]]
           value == IF config.estimator = "c2gspg" THEN Labels ELSE score
<1>4. advantages' = [t \in Samples |-> Centered(t, value)]
  BY <1>2 DEF ComputeAdvantage
<1>5. \A t \in Group(s) : t \in Samples /\ correct[t] = correct[s] /\ ~Mixed(t, correct)
  <2>1. \A t \in Group(s) : correct[t] = correct[s]
    BY <1>2, <1>3, OneLabel
  <2> QED
    BY <1>2, <2>1, GroupOfMember DEF Mixed
<1>6. \A t \in Group(s) : score[t] = 0
  BY <1>3, <1>5 DEF MixedSamples, TokenLevelScore, Nobody
<1>7. \A t \in Group(s) : Labels[t] = IF correct[s] THEN 1 ELSE 0
  BY <1>5 DEF Labels
<1>8. \E c \in Int : \A t \in Group(s) : value[t] = c
  BY <1>6, <1>7
<1> HIDE DEF value
<1> QED
  BY <1>4, <1>8, NothingAboveTheMean

\* filter_natural_corner_groups: without a KL penalty in the reward, and with
\* any configuration, number of prompts and of rollouts per prompt, a group
\* whose traces are all right or all wrong gets no advantage from a step in
\* which some group is mixed: natural_corner_keep_mask follows from the labels
\* the advantage is grouped by, and the rollouts of a prompt are neighbours.
THEOREM UnanimousGroups == Spec => []UnanimousTeachNothing
<1>1. Init => FilterInv
  BY FilteredInit
<1>2. FilterInv /\ [Next]_vars => FilterInv'
  <2>1. SUFFICES ASSUME FilterInv, [Next]_vars PROVE FilterInv'
    OBVIOUS
  <2>2. Filtered'
    BY <2>1, FilteredStep DEF FilterInv
  <2>3. CASE ComputeAdvantage
    BY <2>1, <2>2, <2>3, NothingTaught DEF FilterInv
  <2>4. CASE UNCHANGED vars
    BY <2>1, <2>2, <2>4
       DEF FilterInv, UnanimousTeachNothing, vars, step, Mixed, Group, Samples
  <2>5. CASE ~ComputeAdvantage /\ ~UNCHANGED vars
    <3>1. stage' # "done"
      BY <2>1, <2>5 DEF Next, Generate, ComputeRewards, AddProbeReward, NextBatch
    <3> QED
      BY <2>2, <3>1 DEF FilterInv, UnanimousTeachNothing
  <2> QED
    BY <2>3, <2>4, <2>5
<1>3. FilterInv => UnanimousTeachNothing
  BY DEF FilterInv
<1> QED
  BY <1>1, <1>2, <1>3, PTL DEF Spec

-----------------------------------------------------------------------------
(* Sorting                                                                 *)
SeqOfInts == Seq(Int)
Rising(seq) == \A i, j \in 1..Len(seq) : i < j => seq[i] < seq[j]
NotFalling(seq) == \A i, j \in 1..Len(seq) : i <= j => seq[i] <= seq[j]

\* The place of a number in a sequence in order.
LEMMA PlaceBelow ==
    ASSUME NEW sorted \in SeqOfInts, NotFalling(sorted), NEW x \in Int
    PROVE  /\ Below(sorted, x) \in 0..Len(sorted)
           /\ \A i \in 1..Below(sorted, x) : sorted[i] <= x
           /\ \A i \in (Below(sorted, x) + 1)..Len(sorted) : x < sorted[i]
<1> DEFINE len == Len(sorted)
           P(n) == /\ \A i \in 1..n : sorted[i] <= x
                   /\ \A i \in (n + 1)..len : x < sorted[i]
           T == {n \in 0..len : \E k \in 0..n : /\ \A i \in 1..k : sorted[i] <= x
                                                /\ \A i \in (k + 1)..n : x < sorted[i]}
<1>1. len \in Nat /\ sorted \in [1..len -> Int]
  BY DEF SeqOfInts
<1>2. \A i, j \in 1..len : i <= j => sorted[i] <= sorted[j]
  BY DEF NotFalling
<1> HIDE DEF len
<1>3. 0 \in T
  BY <1>1
<1>4. ASSUME NEW n \in 0..(len - 1), n \in T PROVE n + 1 \in T
  <2>1. PICK k \in 0..n : /\ \A i \in 1..k : sorted[i] <= x
                          /\ \A i \in (k + 1)..n : x < sorted[i]
    BY <1>4
  <2>2. n + 1 \in 1..len /\ sorted[n + 1] \in Int
    BY <1>1
  <2>3. CASE x < sorted[n + 1]
    <3>1. \A i \in (k + 1)..(n + 1) : x < sorted[i]
      BY <2>1, <2>3
    <3>2. k \in 0..(n + 1) /\ n + 1 \in 0..len
      BY <2>2
    <3> QED
      BY <2>1, <3>1, <3>2
  <2>4. CASE sorted[n + 1] <= x
    <3>1. \A i \in 1..(n + 1) : sorted[i] <= x
      <4>1. SUFFICES ASSUME NEW i \in 1..(n + 1) PROVE sorted[i] <= x
        OBVIOUS
      <4>2. i \in 1..len /\ i <= n + 1 /\ sorted[i] \in Int
        BY <1>1, <2>2
      <4>3. sorted[i] <= sorted[n + 1]
        BY <1>2, <2>2, <4>2
      <4> QED
        BY <2>2, <2>4, <4>2, <4>3
    <3> QED
      BY <2>2, <3>1
  <2> QED
    BY <2>2, <2>3, <2>4
<1> HIDE DEF T
<1>5. 0..len \subseteq T
  BY <1>1, <1>3, <1>4, UpTo
<1>6. \E n \in 0..len : P(n)
  <2>1. len \in T
    BY <1>1, <1>5
  <2> QED
    BY <2>1 DEF T
<1>7. Below(sorted, x) = CHOOSE n \in 0..len : P(n)
  BY DEF Below, len
<1>8. Below(sorted, x) \in 0..len /\ P(Below(sorted, x))
  <2> HIDE DEF P
  <2> QED
    BY <1>6, <1>7
<1> QED
  BY <1>8 DEF len

LEMMA InsertFacts ==
    ASSUME NEW sorted \in SeqOfInts, NotFalling(sorted), NEW x \in Int
    PROVE  /\ Insert(sorted, x) \in SeqOfInts /\ NotFalling(Insert(sorted, x))
           /\ ToSet(Insert(sorted, x)) = ToSet(sorted) \cup {x}
           /\ Len(Insert(sorted, x)) = Len(sorted) + 1
           /\ Rising(sorted) /\ x \notin ToSet(sorted) => Rising(Insert(sorted, x))
<1> DEFINE len == Len(sorted)
           n == Below(sorted, x)
           out == Insert(sorted, x)
<1>1. len \in Nat /\ sorted \in [1..len -> Int] /\ sorted \in Seq(Int)
  BY DEF SeqOfInts
<1>2. /\ n \in 0..len
      /\ \A i \in 1..n : sorted[i] <= x
      /\ \A i \in (n + 1)..len : x < sorted[i]
  BY PlaceBelow
<1>3. out = SubSeq(sorted, 1, n) \o <<x>> \o SubSeq(sorted, n + 1, len)
  <2>1. out = SubSeq(sorted, 1, (n + 1) - 1) \o <<x>> \o SubSeq(sorted, n + 1, len)
    BY DEF Insert, InsertAt
  <2>2. (n + 1) - 1 = n
    BY <1>2
  <2> QED
    BY <2>1, <2>2
<1>4. \A i, j \in 1..len : i <= j => sorted[i] <= sorted[j]
  BY DEF NotFalling
<1> HIDE DEF n, out
<1>5. /\ out \in Seq(Int) /\ Len(out) = len + 1
      /\ \A i \in 1..(len + 1) :
            out[i] = IF i <= n THEN sorted[i] ELSE IF i = n + 1 THEN x ELSE sorted[i - 1]
  <2> DEFINE a == SubSeq(sorted, 1, n)
             b == SubSeq(sorted, n + 1, len)
  <2>1. a \in Seq(Int) /\ Len(a) = n /\ \A i \in 1..n : a[i] = sorted[i]
    BY <1>1, <1>2
  <2>2. b \in Seq(Int) /\ Len(b) = len - n /\ \A i \in 1..(len - n) : b[i] = sorted[n + i]
    <3>1. n + 1 \in 1..(len + 1) /\ len <= len
      BY <1>1, <1>2
    <3>2. b \in Seq(Int) /\ Len(b) = IF n + 1 <= len THEN len - (n + 1) + 1 ELSE 0
      BY <1>1, <3>1
    <3>3. Len(b) = len - n
      <4> HIDE DEF b, len
      <4> QED
        BY <1>1, <1>2, <3>2
    <3>4. \A i \in 1..Len(b) : b[i] = sorted[(n + 1) + i - 1]
      BY <1>1, <3>1, <3>3
    <3>5. \A i \in 1..(len - n) : (n + 1) + i - 1 = n + i
      BY <1>1, <1>2
    <3> QED
      BY <3>2, <3>3, <3>4, <3>5
  <2> HIDE DEF a, b, len
  <2> DEFINE c == a \o <<x>>
  <2>3. c \in Seq(Int) /\ Len(c) = n + 1 /\ \A i \in 1..(n + 1) : c[i] = IF i <= n THEN sorted[i] ELSE x
    BY <1>2, <2>1
  <2> HIDE DEF c
  <2>4. out = c \o b
    BY <1>3 DEF a, b, c, len
  <2>5. out \in Seq(Int) /\ Len(out) = len + 1
    BY <1>1, <1>2, <2>2, <2>3, <2>4
  <2>6. ASSUME NEW i \in 1..(len + 1)
        PROVE  out[i] = IF i <= n THEN sorted[i] ELSE IF i = n + 1 THEN x ELSE sorted[i - 1]
    <3>1. CASE i <= n + 1
      <4>1. out[i] = c[i] /\ i \in 1..(n + 1)
        BY <1>1, <1>2, <2>2, <2>3, <2>4, <3>1
      <4> QED
        BY <1>2, <2>3, <3>1, <4>1
    <3>2. CASE i > n + 1
      <4>3. i - (n + 1) \in 1..(len - n) /\ i \in 1..(Len(c) + Len(b)) /\ ~(i <= Len(c))
        BY <1>1, <1>2, <2>2, <2>3, <3>2
      <4>4. out[i] = b[i - Len(c)]
        BY <2>2, <2>3, <2>4, <4>3
      <4>1. out[i] = b[i - (n + 1)] /\ i - (n + 1) \in 1..(len - n)
        BY <2>3, <4>3, <4>4
      <4>2. n + (i - (n + 1)) = i - 1
        BY <1>2
      <4> QED
        BY <1>2, <2>2, <3>2, <4>1, <4>2
    <3> QED
      BY <1>2, <3>1, <3>2
  <2> QED
    BY <2>5, <2>6
<1> HIDE DEF len
<1>6. NotFalling(out)
  <2>1. SUFFICES ASSUME NEW i \in 1..(len + 1), NEW j \in 1..(len + 1), i <= j
                 PROVE  out[i] <= out[j]
    BY <1>5 DEF NotFalling
  <2>2. i \in Int /\ j \in Int /\ n \in Int /\ len \in Int
    BY <1>1, <1>2
  <2>3. CASE j <= n
    <3>1. i \in 1..len /\ j \in 1..len /\ out[i] = sorted[i] /\ out[j] = sorted[j]
      BY <1>2, <1>5, <2>1, <2>2, <2>3
    <3> QED
      BY <1>4, <2>1, <3>1
  <2>4. CASE i > n + 1
    <3>1. i - 1 \in 1..len /\ j - 1 \in 1..len /\ out[i] = sorted[i - 1] /\ out[j] = sorted[j - 1]
      BY <1>2, <1>5, <2>1, <2>2, <2>4
    <3> QED
      BY <1>4, <2>1, <2>2, <3>1
  <2>5. CASE i <= n + 1 /\ j > n
    <3>1. out[i] <= x
      <4>1. CASE i <= n
        <5>1. i \in 1..n /\ out[i] = sorted[i]
          BY <1>5, <2>2, <4>1
        <5> QED
          BY <1>2, <5>1
      <4>2. CASE i = n + 1
        BY <1>2, <1>5, <2>2, <4>2
      <4> QED
        BY <2>2, <2>5, <4>1, <4>2
    <3>2. x <= out[j]
      <4>1. CASE j = n + 1
        BY <1>2, <1>5, <2>2, <4>1
      <4>2. CASE j > n + 1
        <5>1. j - 1 \in (n + 1)..len /\ j - 1 \in 1..len /\ out[j] = sorted[j - 1]
          BY <1>2, <1>5, <2>2, <4>2
        <5>2. x < sorted[j - 1] /\ sorted[j - 1] \in Int
          BY <1>1, <1>2, <5>1
        <5> QED
          BY <5>1, <5>2
      <4> QED
        BY <2>2, <2>5, <4>1, <4>2
    <3>3. out[i] \in Int /\ out[j] \in Int
      BY <1>5
    <3> QED
      BY <3>1, <3>2, <3>3
  <2> QED
    BY <2>2, <2>3, <2>4, <2>5
<1>7. ToSet(out) = ToSet(sorted) \cup {x}
  <2>1. DOMAIN out = 1..(len + 1) /\ DOMAIN sorted = 1..len
    BY <1>1, <1>5
  <2>2. \A i \in 1..(len + 1) : out[i] \in ToSet(sorted) \cup {x}
    <3>1. SUFFICES ASSUME NEW i \in 1..(len + 1) PROVE out[i] \in ToSet(sorted) \cup {x}
      OBVIOUS
    <3>2. i <= n => out[i] = sorted[i] /\ i \in 1..len
      BY <1>1, <1>2, <1>5
    <3>3. i = n + 1 => out[i] = x
      BY <1>2, <1>5
    <3>4. i > n + 1 => out[i] = sorted[i - 1] /\ i - 1 \in 1..len
      BY <1>1, <1>2, <1>5
    <3>5. i <= n \/ i = n + 1 \/ i > n + 1
      BY <1>2
    <3> QED
      BY <2>1, <3>2, <3>3, <3>4, <3>5 DEF ToSet
  <2>3. x \in ToSet(out)
    <3>1. n + 1 \in 1..(len + 1) /\ out[n + 1] = x
      BY <1>1, <1>2, <1>5
    <3> QED
      BY <2>1, <3>1 DEF ToSet
  <2>4. \A i \in 1..len : sorted[i] \in ToSet(out)
    <3>1. SUFFICES ASSUME NEW i \in 1..len PROVE sorted[i] \in ToSet(out)
      OBVIOUS
    <3>2. CASE i <= n
      <4>1. i \in 1..(len + 1) /\ out[i] = sorted[i]
        BY <1>1, <1>2, <1>5, <3>2
      <4> QED
        BY <2>1, <4>1 DEF ToSet
    <3>3. CASE i > n
      <4>1. i + 1 \in 1..(len + 1) /\ out[i + 1] = sorted[(i + 1) - 1] /\ (i + 1) - 1 = i
        BY <1>1, <1>2, <1>5, <3>3
      <4> QED
        BY <2>1, <4>1 DEF ToSet
    <3> QED
      BY <1>2, <3>2, <3>3
  <2> QED
    BY <2>1, <2>2, <2>3, <2>4 DEF ToSet
<1>8. ASSUME Rising(sorted), x \notin ToSet(sorted) PROVE Rising(out)
  <2>1. SUFFICES ASSUME NEW i \in 1..(len + 1), NEW j \in 1..(len + 1), i < j
                 PROVE  out[i] < out[j]
    BY <1>5 DEF Rising
  <2>2. i \in Int /\ j \in Int /\ n \in Int /\ len \in Int
    BY <1>1, <1>2
  <2>3. /\ \A k, l \in 1..len : k < l => sorted[k] < sorted[l]
        /\ \A k \in 1..len : sorted[k] # x
    BY <1>1, <1>8 DEF Rising, ToSet, len
  <2>4. CASE j <= n
    <3>1. i \in 1..len /\ j \in 1..len /\ out[i] = sorted[i] /\ out[j] = sorted[j]
      BY <1>2, <1>5, <2>1, <2>2, <2>4
    <3> QED
      BY <2>1, <2>3, <3>1
  <2>5. CASE i > n + 1
    <3>1. /\ i - 1 \in 1..len /\ j - 1 \in 1..len /\ i - 1 < j - 1
          /\ out[i] = sorted[i - 1] /\ out[j] = sorted[j - 1]
      <4>1. /\ i - 1 \in 1..len /\ j - 1 \in 1..len /\ i - 1 < j - 1
            /\ ~(i <= n) /\ ~(j <= n) /\ i # n + 1 /\ j # n + 1
        BY <1>2, <2>1, <2>2, <2>5
      <4> QED
        BY <1>5, <4>1
    <3> QED
      BY <2>3, <3>1
  <2>6. CASE i <= n /\ j > n
    <3>1. i \in 1..len /\ i \in 1..n /\ out[i] = sorted[i] /\ sorted[i] \in Int
      BY <1>1, <1>2, <1>5, <2>2, <2>6
    <3>2. out[i] < x
      BY <1>2, <2>3, <3>1
    <3>3. x <= out[j]
      <4>1. n + 1 \in 1..(len + 1) /\ n + 1 <= j /\ out[n + 1] = x
        BY <1>2, <1>5, <2>2, <2>6
      <4> QED
        BY <1>5, <1>6, <4>1 DEF NotFalling
    <3>4. out[i] \in Int /\ out[j] \in Int
      BY <1>5
    <3> QED
      BY <3>2, <3>3, <3>4
  <2>7. CASE i = n + 1
    <3>1. out[i] = x
      BY <1>2, <1>5, <2>7
    <3>2. j - 1 \in (n + 1)..len /\ j - 1 \in 1..len /\ out[j] = sorted[j - 1]
      BY <1>2, <1>5, <2>1, <2>2, <2>7
    <3> QED
      BY <1>2, <3>1, <3>2
  <2> QED
    BY <2>2, <2>4, <2>5, <2>6, <2>7
<1> QED
  BY <1>5, <1>6, <1>7, <1>8 DEF SeqOfInts, out, len

InOrder == {seq \in SeqOfInts : NotFalling(seq)}

\* Sorted is the last of the sequences the insertions make.
LEMMA SortedFolds ==
    ASSUME NEW n \in Nat, NEW seq \in [1..n -> Int]
    PROVE  \E F : /\ F[0] = << >> /\ Sorted(seq) = F[n]
                  /\ \A i \in 1..n : F[i] = Insert(F[i - 1], seq[i])
<1> DEFINE S == 1..n
           Step(G) == [s \in SUBSET S |->
                         IF s = {} THEN << >> ELSE Insert(G[s \ {Max(s)}], seq[Max(s)])]
           I == CHOOSE G : G = Step(G)
<1>1. Sorted(seq) = I[S]
  BY DEF Sorted, FoldLeft, MapThenFoldSet
<1>2. I = Step(I)
  <2> DEFINE op == [p \in InOrder \X (1..n) |-> Insert(p[1], seq[p[2]])]
  <2>1. op \in [InOrder \X (1..n) -> InOrder]
    <3>1. ASSUME NEW p \in InOrder \X (1..n) PROVE Insert(p[1], seq[p[2]]) \in InOrder
      <4>1. p[1] \in SeqOfInts /\ NotFalling(p[1]) /\ seq[p[2]] \in Int
        BY DEF InOrder
      <4> QED
        BY <4>1, InsertFacts DEF InOrder
    <3> QED
      BY <3>1
  <2>2. \A a \in InOrder, k \in 1..n : op[<<a, k>>] = Insert(a, seq[k])
    OBVIOUS
  <2> HIDE DEF op
  <2>3. << >> \in InOrder
    BY DEF InOrder, SeqOfInts, NotFalling
  <2>4. PICK G : IsFold(G, n, InOrder, << >>, op)
    BY <2>1, <2>3, FoldExists
  <2>5. ASSUME NEW s \in SUBSET (1..n)
        PROVE  G[s] = IF s = {} THEN << >> ELSE Insert(G[s \ {Max(s)}], seq[Max(s)])
    <3>1. s # {} => Max(s) \in 1..n /\ s \ {Max(s)} \in SUBSET (1..n)
      BY MaxUpTo
    <3>2. s # {} => G[s \ {Max(s)}] \in InOrder
      BY <2>4, <3>1 DEF IsFold
    <3>3. s # {} => op[<<G[s \ {Max(s)}], Max(s)>>] = Insert(G[s \ {Max(s)}], seq[Max(s)])
      BY <2>2, <3>1, <3>2
    <3> QED
      BY <2>4, <3>3 DEF IsFold
  <2>6. G = Step(G)
    BY <2>4, <2>5 DEF IsFold
  <2> HIDE DEF Step
  <2> QED
    BY <2>6
<1> HIDE DEF I
<1> DEFINE F == [i \in 0..n |-> I[1..i]]
<1>3. F[0] = << >>
  <2>1. I[{}] = << >> /\ 1..0 = {}
    BY <1>2
  <2> QED
    BY <2>1
<1>4. ASSUME NEW i \in 1..n PROVE F[i] = Insert(F[i - 1], seq[i])
  <2>1. I[1..i] = Insert(I[1..(i - 1)], seq[i])
    <3>1. \A s \in SUBSET S : I[s] = IF s = {} THEN << >> ELSE Insert(I[s \ {Max(s)}], seq[Max(s)])
      BY <1>2
    <3>2. 1..i \in SUBSET S /\ 1..i # {} /\ Max(1..i) = i /\ (1..i) \ {i} = 1..(i - 1)
      BY Prefix
    <3>3. I[1..i] = Insert(I[(1..i) \ {Max(1..i)}], seq[Max(1..i)])
      BY <3>1, <3>2
    <3> QED
      BY <3>2, <3>3
  <2> QED
    BY <2>1
<1>5. Sorted(seq) = F[n]
  BY <1>1
<1> HIDE DEF F
<1> QED
  BY <1>3, <1>4, <1>5

LEMMA SortedFacts ==
    ASSUME NEW n \in Nat, NEW seq \in [1..n -> Int]
    PROVE  /\ Sorted(seq) \in SeqOfInts /\ NotFalling(Sorted(seq))
           /\ ToSet(Sorted(seq)) = {seq[i] : i \in 1..n}
           /\ Len(Sorted(seq)) = n
           /\ (\A i, j \in 1..n : i # j => seq[i] # seq[j]) => Rising(Sorted(seq))
<1>1. PICK F : /\ F[0] = << >> /\ Sorted(seq) = F[n]
               /\ \A i \in 1..n : F[i] = Insert(F[i - 1], seq[i])
  BY SortedFolds
<1> DEFINE Distinct == \A i, j \in 1..n : i # j => seq[i] # seq[j]
           P(i) == /\ F[i] \in SeqOfInts /\ NotFalling(F[i])
                   /\ ToSet(F[i]) = {seq[k] : k \in 1..i}
                   /\ Len(F[i]) = i
                   /\ Distinct => Rising(F[i])
           T == {i \in 0..n : P(i)}
<1>2. 0 \in T
  <2>1. ToSet(<< >>) = {} /\ {seq[k] : k \in 1..0} = {}
    BY DEF ToSet
  <2>2. << >> \in SeqOfInts /\ NotFalling(<< >>) /\ Rising(<< >>) /\ Len(<< >>) = 0
    BY DEF SeqOfInts, NotFalling, Rising
  <2>3. P(0)
    BY <1>1, <2>1, <2>2
  <2> QED
    BY <2>3
<1>3. ASSUME NEW i \in 0..(n - 1), i \in T PROVE i + 1 \in T
  <2>1. P(i) /\ i + 1 \in 1..n /\ (i + 1) - 1 = i /\ seq[i + 1] \in Int
    BY <1>3
  <2>2. F[i + 1] = Insert(F[i], seq[i + 1])
    BY <1>1, <2>1
  <2>3. {seq[k] : k \in 1..i} \cup {seq[i + 1]} = {seq[k] : k \in 1..(i + 1)}
    OBVIOUS
  <2>4. Distinct => seq[i + 1] \notin {seq[k] : k \in 1..i}
    BY <2>1
  <2> HIDE DEF Distinct
  <2>5. P(i + 1)
    BY <2>1, <2>2, <2>3, <2>4, InsertFacts
  <2> QED
    BY <2>1, <2>5
<1> HIDE DEF T
<1>4. 0..n \subseteq T
  BY <1>2, <1>3, UpTo
<1>5. n \in T
  BY <1>4
<1> QED
  BY <1>1, <1>5 DEF T

-----------------------------------------------------------------------------
(* Removing duplicates                                                     *)
Positive == {k \in Int : k > 0}
RisingPart == {seq \in SeqOfInts : Rising(seq) /\ \A i \in 1..Len(seq) : seq[i] > 0}

LEMMA KeepType ==
    ASSUME NEW kept \in SeqOfInts, NEW l \in Int
    PROVE  Keep(kept, l) \in SeqOfInts
BY DEF Keep, SeqOfInts

LEMMA KeepFacts ==
    ASSUME NEW kept \in RisingPart, NEW l \in Int, \A i \in 1..Len(kept) : kept[i] <= l
    PROVE  /\ Keep(kept, l) \in RisingPart
           /\ ToSet(Keep(kept, l)) = ToSet(kept) \cup ({l} \cap Positive)
<1> DEFINE len == Len(kept)
<1>1. len \in Nat /\ kept \in [1..len -> Int] /\ kept \in Seq(Int) /\ Rising(kept)
      /\ \A i \in 1..len : kept[i] > 0
  BY DEF RisingPart, SeqOfInts
<1>2. CASE l <= 0
  BY <1>2 DEF Keep, Positive
<1>3. CASE l > 0 /\ Contains(kept, l)
  <2>1. l \in ToSet(kept)
    BY <1>1, <1>3 DEF Contains, ToSet
  <2> QED
    BY <1>3, <2>1 DEF Keep, Positive
<1>4. CASE l > 0 /\ ~Contains(kept, l)
  <2> DEFINE out == Append(kept, l)
  <2>1. Keep(kept, l) = out
    BY <1>4 DEF Keep
  <2>2. /\ out \in Seq(Int) /\ Len(out) = len + 1 /\ out[len + 1] = l
        /\ \A i \in 1..len : out[i] = kept[i] /\ kept[i] < l
    <3>1. \A i \in 1..len : kept[i] # l /\ kept[i] <= l /\ kept[i] \in Int
      BY <1>1, <1>4 DEF Contains
    <3>2. \A i \in 1..len : kept[i] < l
      BY <3>1
    <3> QED
      BY <1>1, <3>2
  <2> HIDE DEF out, len
  <2>3. Rising(out)
    <3>1. SUFFICES ASSUME NEW i \in 1..(len + 1), NEW j \in 1..(len + 1), i < j
                   PROVE  out[i] < out[j]
      BY <2>2 DEF Rising
    <3>2. i \in 1..len
      BY <1>1, <3>1
    <3>3. CASE j = len + 1
      BY <2>2, <3>2, <3>3
    <3>4. CASE j \in 1..len
      <4>1. kept[i] < kept[j]
        BY <1>1, <3>1, <3>2, <3>4 DEF Rising, len
      <4> QED
        BY <2>2, <3>2, <3>4, <4>1
    <3> QED
      BY <1>1, <3>3, <3>4
  <2>4. \A i \in 1..Len(out) : out[i] > 0
    <3>1. SUFFICES ASSUME NEW i \in 1..(len + 1) PROVE out[i] > 0
      BY <2>2
    <3> QED
      BY <1>1, <1>4, <2>2
  <2>5. ToSet(out) = ToSet(kept) \cup {l}
    <3>1. DOMAIN out = 1..(len + 1) /\ DOMAIN kept = 1..len
      BY <1>1, <2>2
    <3>2. \A i \in 1..(len + 1) : i = len + 1 \/ i \in 1..len
      BY <1>1
    <3>3. \A i \in 1..len : i \in 1..(len + 1)
      BY <1>1
    <3>4. len + 1 \in 1..(len + 1)
      BY <1>1
    <3> QED
      BY <2>2, <3>1, <3>2, <3>3, <3>4 DEF ToSet
  <2> QED
    BY <1>4, <2>1, <2>2, <2>3, <2>4, <2>5 DEF RisingPart, SeqOfInts, Positive
<1> QED
  BY <1>2, <1>3, <1>4

LEMMA KeptFolds ==
    ASSUME NEW n \in Nat, NEW seq \in [1..n -> Int]
    PROVE  \E F : /\ F[0] = << >>
                  /\ Deduped(seq) = F[n]
                  /\ \A i \in 1..n : F[i] = Keep(F[i - 1], seq[i])
<1> DEFINE S == 1..n
           Step(G) == [s \in SUBSET S |->
                         IF s = {} THEN << >> ELSE Keep(G[s \ {Max(s)}], seq[Max(s)])]
           I == CHOOSE G : G = Step(G)
<1>1. Deduped(seq) = I[S]
  BY DEF Deduped, FoldLeft, MapThenFoldSet
<1>2. I = Step(I)
  <2> DEFINE op == [p \in SeqOfInts \X (1..n) |-> Keep(p[1], seq[p[2]])]
  <2>1. op \in [SeqOfInts \X (1..n) -> SeqOfInts]
    <3>1. ASSUME NEW p \in SeqOfInts \X (1..n) PROVE Keep(p[1], seq[p[2]]) \in SeqOfInts
      <4>1. p[1] \in SeqOfInts /\ seq[p[2]] \in Int
        OBVIOUS
      <4> QED
        BY <4>1, KeepType
    <3> QED
      BY <3>1
  <2>2. \A a \in SeqOfInts, k \in 1..n : op[<<a, k>>] = Keep(a, seq[k])
    OBVIOUS
  <2> HIDE DEF op
  <2>3. << >> \in SeqOfInts
    BY DEF SeqOfInts
  <2>4. PICK G : IsFold(G, n, SeqOfInts, << >>, op)
    BY <2>1, <2>3, FoldExists
  <2>5. ASSUME NEW s \in SUBSET (1..n)
        PROVE  G[s] = IF s = {} THEN << >> ELSE Keep(G[s \ {Max(s)}], seq[Max(s)])
    <3>1. s # {} => Max(s) \in 1..n /\ s \ {Max(s)} \in SUBSET (1..n)
      BY MaxUpTo
    <3>2. s # {} => G[s \ {Max(s)}] \in SeqOfInts
      BY <2>4, <3>1 DEF IsFold
    <3>3. s # {} => op[<<G[s \ {Max(s)}], Max(s)>>] = Keep(G[s \ {Max(s)}], seq[Max(s)])
      BY <2>2, <3>1, <3>2
    <3> QED
      BY <2>4, <3>3 DEF IsFold
  <2>6. G = Step(G)
    BY <2>4, <2>5 DEF IsFold
  <2> HIDE DEF Step
  <2> QED
    BY <2>6
<1> HIDE DEF I
<1> DEFINE F == [i \in 0..n |-> I[1..i]]
<1>3. F[0] = << >>
  <2>1. I[{}] = << >> /\ 1..0 = {}
    BY <1>2
  <2> QED
    BY <2>1
<1>4. ASSUME NEW i \in 1..n PROVE F[i] = Keep(F[i - 1], seq[i])
  <2>1. I[1..i] = Keep(I[1..(i - 1)], seq[i])
    <3>1. \A s \in SUBSET S : I[s] = IF s = {} THEN << >> ELSE Keep(I[s \ {Max(s)}], seq[Max(s)])
      BY <1>2
    <3>2. 1..i \in SUBSET S /\ 1..i # {} /\ Max(1..i) = i /\ (1..i) \ {i} = 1..(i - 1)
      BY Prefix
    <3>3. I[1..i] = Keep(I[(1..i) \ {Max(1..i)}], seq[Max(1..i)])
      BY <3>1, <3>2
    <3> QED
      BY <3>2, <3>3
  <2> QED
    BY <2>1
<1>5. Deduped(seq) = F[n]
  BY <1>1
<1> HIDE DEF F
<1> QED
  BY <1>3, <1>4, <1>5

LEMMA KeptFacts ==
    ASSUME NEW n \in Nat, NEW seq \in [1..n -> Int],
           \A i, j \in 1..n : i <= j => seq[i] <= seq[j],
           NEW out, out = Deduped(seq)
    PROVE  out \in RisingPart /\ ToSet(out) = {seq[i] : i \in 1..n} \cap Positive
<1>1. PICK F : /\ F[0] = << >> /\ out = F[n]
               /\ \A i \in 1..n : F[i] = Keep(F[i - 1], seq[i])
  BY KeptFolds
<1> DEFINE P(i) == F[i] \in RisingPart /\ ToSet(F[i]) = {seq[k] : k \in 1..i} \cap Positive
           T == {i \in 0..n : P(i)}
<1>2. 0 \in T
  <2>1. ToSet(<< >>) = {} /\ {seq[k] : k \in 1..0} = {}
    BY DEF ToSet
  <2>2. << >> \in RisingPart
    BY DEF SeqOfInts, RisingPart, Rising
  <2>3. P(0)
    BY <1>1, <2>1, <2>2
  <2> QED
    BY <2>3
<1>3. ASSUME NEW i \in 0..(n - 1), i \in T PROVE i + 1 \in T
  <2>1. P(i) /\ i + 1 \in 1..n /\ (i + 1) - 1 = i /\ seq[i + 1] \in Int
    BY <1>3
  <2>2. F[i + 1] = Keep(F[i], seq[i + 1])
    BY <1>1, <2>1
  <2>3. {seq[k] : k \in 1..i} \cup {seq[i + 1]} = {seq[k] : k \in 1..(i + 1)}
    OBVIOUS
  <2>4. \A k \in 1..Len(F[i]) : F[i][k] <= seq[i + 1]
    <3>1. SUFFICES ASSUME NEW k \in 1..Len(F[i]) PROVE F[i][k] <= seq[i + 1]
      OBVIOUS
    <3>2. F[i][k] \in ToSet(F[i])
      BY <2>1 DEF ToSet, RisingPart, SeqOfInts
    <3>3. PICK m \in 1..i : F[i][k] = seq[m]
      BY <2>1, <3>2
    <3>4. m \in 1..n /\ m <= i + 1
      OBVIOUS
    <3> QED
      BY <2>1, <3>3, <3>4
  <2>5. P(i + 1)
    <3>1. /\ Keep(F[i], seq[i + 1]) \in RisingPart
          /\ ToSet(Keep(F[i], seq[i + 1])) = ToSet(F[i]) \cup ({seq[i + 1]} \cap Positive)
      BY <2>1, <2>4, KeepFacts
    <3> QED
      BY <2>1, <2>2, <2>3, <3>1
  <2> QED
    BY <2>1, <2>5
<1> HIDE DEF T
<1>4. 0..n \subseteq T
  BY <1>2, <1>3, UpTo
<1>5. n \in T
  BY <1>4
<1> QED
  BY <1>1, <1>5 DEF T

-----------------------------------------------------------------------------
(* Truncation lengths                                                      *)
Budget == [relative : BOOLEAN, num : Nat \ {0}, den : Nat \ {0}]

LEMMA RoundedType ==
    ASSUME NEW n \in Nat, NEW d \in Nat \ {0}
    PROVE  Rounded(n, d) \in Nat
<1> DEFINE q == n \div d
           r == n % d
           Near(p) == LET twice == 2 * (n - p * d)
                      IN -d <= twice /\ twice <= d /\ (twice \in {-d, d} => p % 2 = 0)
<1>1. q \in Nat /\ r \in 0..(d - 1) /\ n = d * q + r
  OBVIOUS
<1>2. \E p \in {q, q + 1} : Near(p)
  <2> DEFINE a == 2 * (n - q * d)
             b == 2 * (n - (q + 1) * d)
  <2>1. a = 2 * r /\ b = 2 * r - 2 * d
    <3>1. (q + 1) * d = q * d + d /\ q * d = d * q /\ q * d \in Nat
      BY <1>1
    <3> HIDE DEF q, r
    <3> QED
      BY <1>1, <3>1
  <2>2. q % 2 = 0 \/ (q + 1) % 2 = 0
    BY <1>1
  <2> HIDE DEF q, r, a, b
  <2>3. CASE 2 * r < d \/ (2 * r = d /\ q % 2 = 0)
    <3>1. -d <= a /\ a <= d /\ (a \in {-d, d} => q % 2 = 0)
      BY <1>1, <2>1, <2>3
    <3> QED
      BY <3>1 DEF a
  <2>4. CASE 2 * r > d \/ (2 * r = d /\ q % 2 # 0)
    <3>1. -d <= b /\ b <= d /\ (b \in {-d, d} => (q + 1) % 2 = 0)
      BY <1>1, <2>1, <2>2, <2>4
    <3> QED
      BY <3>1 DEF b
  <2> QED
    BY <1>1, <2>3, <2>4
<1>3. Rounded(n, d) = CHOOSE p \in {q, q + 1} : Near(p)
  BY DEF Rounded
<1> HIDE DEF Near
<1>4. Rounded(n, d) \in {q, q + 1}
  BY <1>2, <1>3
<1> QED
  BY <1>1, <1>4

LEMMA ResolvedType ==
    ASSUME NEW length \in Nat, NEW budget \in Budget
    PROVE  Resolved(length, budget) \in Nat
<1>1. budget.num \in Nat /\ budget.den \in Nat \ {0} /\ length * budget.num \in Nat
  BY DEF Budget
<1>2. Rounded(length * budget.num, budget.den) \in Nat
  BY <1>1, RoundedType
<1> QED
  BY <1>1, <1>2 DEF Resolved, Target, Least

LEMMA BudgetLengthsFacts ==
    ASSUME NEW length \in Nat, NEW budgets \in Seq(Budget)
    PROVE  /\ BudgetLengths(length, budgets) \in RisingPart
           /\ ToSet(BudgetLengths(length, budgets))
                = {Resolved(length, b) : b \in ToSet(budgets)} \ {0}
<1> DEFINE n == Len(budgets)
           resolved == ResolvedLengths(length, budgets)
           sorted == Sorted(resolved)
<1>1. n \in Nat /\ DOMAIN budgets = 1..n /\ \A i \in 1..n : budgets[i] \in Budget
  OBVIOUS
<1>2. resolved \in [1..n -> Int] /\ \A i \in 1..n : resolved[i] \in Nat
  <2>1. resolved = [i \in 1..n |-> Resolved(length, budgets[i])]
    BY <1>1 DEF ResolvedLengths
  <2>2. \A i \in 1..n : Resolved(length, budgets[i]) \in Nat
    BY <1>1, ResolvedType
  <2> HIDE DEF resolved, n
  <2> QED
    BY <2>1, <2>2
<1>3. \A i \in 1..n : resolved[i] = Resolved(length, budgets[i])
  BY <1>1 DEF ResolvedLengths
<1> HIDE DEF resolved, n
<1>4. /\ sorted \in SeqOfInts /\ NotFalling(sorted) /\ Len(sorted) = n
      /\ ToSet(sorted) = {resolved[i] : i \in 1..n}
  BY <1>1, <1>2, SortedFacts
<1> HIDE DEF sorted
<1>5. sorted \in [1..n -> Int] /\ \A i, j \in 1..n : i <= j => sorted[i] <= sorted[j]
  BY <1>4 DEF SeqOfInts, NotFalling
<1>6. BudgetLengths(length, budgets)
        = Deduped(sorted)
  BY DEF BudgetLengths, sorted, resolved
<1>7. /\ BudgetLengths(length, budgets) \in RisingPart
      /\ ToSet(BudgetLengths(length, budgets)) = {sorted[i] : i \in 1..n} \cap Positive
  BY <1>1, <1>5, <1>6, KeptFacts
<1>8. {sorted[i] : i \in 1..n} = {resolved[i] : i \in 1..n}
  BY <1>4, <1>5 DEF ToSet
<1>9. {resolved[i] : i \in 1..n} \cap Positive = {resolved[i] : i \in 1..n} \ {0}
  BY <1>2 DEF Positive
<1>10. {resolved[i] : i \in 1..n} = {Resolved(length, b) : b \in ToSet(budgets)}
  BY <1>1, <1>3 DEF ToSet
<1> QED
  BY <1>7, <1>8, <1>9, <1>10

Asked(length) == {Resolved(length, b) : b \in ToSet(config.budgets)} \ {0}

LEMMA TruncationLengthsFacts ==
    ASSUME config \in Configs, NEW length \in Nat
    PROVE  /\ TruncationLengths(length) \in SeqOfInts /\ Rising(TruncationLengths(length))
           /\ ToSet(TruncationLengths(length))
                = Asked(length) \cup (IF config.full_trace THEN {length} ELSE {})
<1> DEFINE lengths == BudgetLengths(length, config.budgets)
           full == Append(lengths, length)
           n == Len(lengths)
<1>1. config.budgets \in Seq(Budget)
  BY ConfigsAssumption DEF Budget
<1>2. lengths \in RisingPart /\ ToSet(lengths) = Asked(length)
  BY <1>1, BudgetLengthsFacts DEF Asked
<1>3. TruncationLengths(length)
        = IF config.full_trace /\ ~Contains(lengths, length) THEN Sorted(full) ELSE lengths
  BY DEF TruncationLengths
<1> HIDE DEF lengths
<1>4. n \in Nat /\ lengths \in [1..n -> Int] /\ lengths \in Seq(Int) /\ Rising(lengths)
  BY <1>2 DEF RisingPart, SeqOfInts
<1>5. CASE config.full_trace /\ ~Contains(lengths, length)
  <2>1. /\ full \in [1..(n + 1) -> Int] /\ full[n + 1] = length
        /\ \A i \in 1..n : full[i] = lengths[i] /\ full[i] # length
    <3>1. \A i \in 1..n : lengths[i] # length
      BY <1>5 DEF Contains
    <3>2. length \in Int
      OBVIOUS
    <3> HIDE DEF n
    <3>3. /\ full \in Seq(Int) /\ Len(full) = n + 1 /\ full[n + 1] = length
          /\ \A i \in 1..n : full[i] = lengths[i]
      BY <1>4, <3>2, AppendProperties DEF n
    <3> HIDE DEF full
    <3> QED
      BY <3>1, <3>3
  <2> HIDE DEF full
  <2>2. \A i, j \in 1..(n + 1) : i # j => full[i] # full[j]
    <3>1. SUFFICES ASSUME NEW i \in 1..(n + 1), NEW j \in 1..(n + 1), i < j
                   PROVE  full[i] # full[j]
      <4>1. \A i, j \in 1..(n + 1) : i # j => i < j \/ j < i
        BY <1>4
      <4> QED
        BY <3>1, <4>1
    <3>2. i \in 1..n
      BY <1>4, <3>1
    <3>3. CASE j = n + 1
      BY <2>1, <3>2, <3>3
    <3>4. CASE j \in 1..n
      <4>1. lengths[i] < lengths[j] /\ lengths[i] \in Int /\ lengths[j] \in Int
        BY <1>4, <3>1, <3>2, <3>4 DEF Rising, n
      <4> QED
        BY <2>1, <3>2, <3>4, <4>1
    <3> QED
      BY <1>4, <3>3, <3>4
  <2>3. {full[i] : i \in 1..(n + 1)} = Asked(length) \cup {length}
    <3>1. {lengths[i] : i \in 1..n} = Asked(length)
      BY <1>2, <1>4 DEF ToSet
    <3>2. \A i \in 1..(n + 1) : i = n + 1 \/ i \in 1..n
      BY <1>4
    <3>3. n + 1 \in 1..(n + 1) /\ \A i \in 1..n : i \in 1..(n + 1)
      BY <1>4
    <3> QED
      BY <2>1, <3>1, <3>2, <3>3
  <2>4. n + 1 \in Nat
    BY <1>4
  <2>5. /\ Sorted(full) \in SeqOfInts /\ Rising(Sorted(full))
        /\ ToSet(Sorted(full)) = {full[i] : i \in 1..(n + 1)}
    BY <2>1, <2>2, <2>4, SortedFacts
  <2> QED
    BY <1>3, <1>5, <2>3, <2>5
<1>6. CASE ~(config.full_trace /\ ~Contains(lengths, length))
  <2>1. config.full_trace => length \in Asked(length)
    BY <1>2, <1>4, <1>6 DEF Contains, ToSet
  <2> QED
    BY <1>2, <1>3, <1>6, <2>1 DEF RisingPart
<1> QED
  BY <1>5, <1>6

-----------------------------------------------------------------------------
(* The batch                                                               *)
Trace == [length : Nat, natural : UNION {Naturals[s] : s \in Samples},
          answers : UNION {[1..n -> Answers[s]] : n \in Nat, s \in Samples}]
SeqOfTraces == Seq(Trace)

\* A batch is graded when it is complete; each budget of a trace has answers.
BatchInv ==
    /\ config \in Configs /\ traces \in SeqOfTraces
    /\ stage = "generate" => Len(traces) < Cardinality(Samples)
    /\ stage # "generate" => Len(traces) = Cardinality(Samples)
    /\ \A s \in 1..Len(traces) :
           DOMAIN traces[s].answers = 1..Len(TruncationLengths(traces[s].length))

LEMMA SamplesCount == Cardinality(Samples) \in Nat /\ Samples = 1..Cardinality(Samples)
<1>1. Cardinality(1..(Prompts * GroupSize)) = Prompts * GroupSize
  <2> DEFINE x == Prompts * GroupSize
  <2>1. x \in Nat
    BY Numbers
  <2> HIDE DEF x
  <2>2. Cardinality(1..x) = IF 1 > x THEN 0 ELSE x - 1 + 1
    BY <2>1, FS_Interval
  <2>3. Cardinality(1..x) = x
    BY <2>1, <2>2
  <2> QED
    BY <2>3 DEF x
<1> QED
  BY <1>1, Numbers DEF Samples

LEMMA BatchStep ==
    ASSUME BatchInv, [Next]_vars PROVE BatchInv'
<1>1. ASSUME NEW length, NEW natural, Generate(length, natural) PROVE BatchInv'
  <2> DEFINE n == Len(traces) + 1
  <2>1. n \in Samples /\ n \in Nat /\ Len(traces) \in Nat
    BY <1>1, SamplesCount DEF Generate, BatchInv, SeqOfTraces
  <2>2. PICK answers \in [1..Len(TruncationLengths(length)) -> Answers[n]] :
          traces' = Append(traces, [length |-> length, natural |-> natural, answers |-> answers])
    BY <1>1 DEF Generate
  <2>3. length \in Nat /\ natural \in UNION {Naturals[s] : s \in Samples} /\ config \in Configs
    BY <1>1, <2>1, ConfigsAssumption DEF Generate, BatchInv
  <2> DEFINE trace == [length |-> length, natural |-> natural, answers |-> answers]
  <2>4. Len(TruncationLengths(length)) \in Nat
    BY <2>3, TruncationLengthsFacts DEF SeqOfInts
  <2>5. trace \in Trace
    <3> DEFINE k == Len(TruncationLengths(length))
               Families == {[1..m -> Answers[t]] : m \in Nat, t \in Samples}
               Forced == UNION Families
    <3>1. \A m \in Nat, t \in Samples : [1..m -> Answers[t]] \in Families
      OBVIOUS
    <3>2. answers \in Forced
      <4>1. k \in Nat /\ n \in Samples /\ answers \in [1..k -> Answers[n]]
        BY <2>1, <2>2, <2>4
      <4> HIDE DEF k, n, Families
      <4>2. [1..k -> Answers[n]] \in Families
        BY <3>1, <4>1
      <4> QED
        BY <4>1, <4>2
    <3> HIDE DEF Forced
    <3>3. trace \in [length : Nat, natural : UNION {Naturals[t] : t \in Samples}, answers : Forced]
      BY <2>3, <3>2
    <3> QED
      BY <3>3 DEF Trace, Forced, Families
  <2>6. /\ traces' \in Seq(Trace) /\ Len(traces') = n /\ traces'[n] = trace
        /\ \A s \in 1..Len(traces) : traces'[s] = traces[s]
    <3> HIDE DEF trace
    <3>1. traces' = Append(traces, trace) /\ traces \in Seq(Trace)
      BY <2>2 DEF trace, BatchInv, SeqOfTraces
    <3> QED
      BY <2>5, <3>1
  <2>7. config' = config
    BY <1>1 DEF Generate
  <2>8. \A s \in 1..n : DOMAIN traces'[s].answers = 1..Len(TruncationLengths(traces'[s].length))
    <3>1. DOMAIN traces'[n].answers = 1..Len(TruncationLengths(traces'[n].length))
      BY <2>2, <2>6
    <3>2. \A s \in 1..n : s = n \/ s \in 1..Len(traces)
      BY <2>1
    <3> HIDE DEF n
    <3> QED
      BY <2>6, <3>1, <3>2 DEF BatchInv
  <2>9. \A s \in 1..n : (TruncationLengths(traces[s].length))' = TruncationLengths(traces'[s].length)
    BY <2>7 DEF TruncationLengths
  <2>10. /\ stage' = IF Len(traces') = Cardinality(Samples) THEN "reward" ELSE "generate"
         /\ Len(traces) < Cardinality(Samples)
    BY <1>1 DEF Generate
  <2>11. Len(traces') <= Cardinality(Samples)
    BY <2>1, <2>6, <2>10, SamplesCount
  <2>12. Cardinality(Samples)' = Cardinality(Samples)
    BY DEF Samples
  <2>13. /\ stage' = "generate" => Len(traces') < Cardinality(Samples)
         /\ stage' # "generate" => Len(traces') = Cardinality(Samples)
    BY <2>1, <2>6, <2>10, <2>11, SamplesCount
  <2>14. config' \in Configs /\ traces' \in SeqOfTraces /\ Len(traces') = n
    BY <2>3, <2>6, <2>7 DEF SeqOfTraces
  <2> HIDE DEF n
  <2>15. \A s \in 1..Len(traces') :
           DOMAIN traces'[s].answers = 1..Len((TruncationLengths(traces[s].length))')
    BY <2>8, <2>9, <2>14
  <2> QED
    BY <2>13, <2>14, <2>15 DEF BatchInv, SeqOfTraces, Trace, Samples
<1>2. CASE ComputeRewards \/ (\E conf \in Confidences : AddProbeReward(conf)) \/ ComputeAdvantage
           \/ UNCHANGED vars
  <2>1. UNCHANGED <<config, traces>>
    BY <1>2 DEF ComputeRewards, AddProbeReward, ComputeAdvantage, vars
  <2>2. (stage' # "generate" /\ stage # "generate") \/ stage' = stage
    BY <1>2 DEF ComputeRewards, AddProbeReward, ComputeAdvantage, vars
  <2>3. \A s : (TruncationLengths(traces[s].length))' = TruncationLengths(traces[s].length)
    BY <2>1 DEF TruncationLengths
  <2>4. \A s \in 1..Len(traces') :
           DOMAIN traces'[s].answers = 1..Len((TruncationLengths(traces[s].length))')
    BY <2>1, <2>3 DEF BatchInv
  <2>5. /\ stage' = "generate" => Len(traces') < Cardinality(Samples)
        /\ stage' # "generate" => Len(traces') = Cardinality(Samples)
    BY <2>1, <2>2 DEF BatchInv
  <2>6. config' \in Configs /\ traces' \in SeqOfTraces
    BY <2>1 DEF BatchInv
  <2> QED
    BY <2>4, <2>5, <2>6 DEF BatchInv, SeqOfTraces, Trace, Samples
<1>3. CASE NextBatch
  <2>1. config' = config /\ traces' = << >> /\ stage' = "generate"
    BY <1>3 DEF NextBatch
  <2>2. 0 < Cardinality(Samples)
    BY SamplesCount, Numbers, ConfigsAssumption DEF Samples
  <2> QED
    BY <2>1, <2>2 DEF BatchInv, SeqOfTraces, Samples
<1> QED
  BY <1>1, <1>2, <1>3 DEF Next

LEMMA Truncated ==
    ASSUME BatchInv, ComputeRewards PROVE TruncationsSound'
<1>1. UNCHANGED <<config, traces>> /\ stage # "generate"
  BY DEF ComputeRewards
<1>2. SUFFICES ASSUME NEW s \in Samples
               PROVE  /\ ToSet(positions'[s])
                           = Asked(traces[s].length)
                               \cup (IF config.full_trace THEN {traces[s].length} ELSE {})
                      /\ \A k \in 2..Len(positions'[s]) : positions'[s][k - 1] < positions'[s][k]
                      /\ Len(mc'[s]) = Len(positions'[s])
  BY <1>1 DEF TruncationsSound, Asked, Samples, Resolved, Target
<1> DEFINE lengths == TruncationLengths(traces[s].length)
<1>3. s \in 1..Len(traces) /\ traces[s].length \in Nat /\ config \in Configs
  <2>1. s \in 1..Len(traces) /\ config \in Configs /\ traces \in Seq(Trace)
    BY <1>1, SamplesCount DEF BatchInv, SeqOfTraces
  <2>2. traces[s] \in Trace
    BY <2>1
  <2> QED
    BY <2>1, <2>2 DEF Trace
<1>4. positions'[s] = lengths
  BY DEF ComputeRewards
<1>5. /\ lengths \in SeqOfInts /\ Rising(lengths)
      /\ ToSet(lengths) = Asked(traces[s].length)
                            \cup (IF config.full_trace THEN {traces[s].length} ELSE {})
  BY <1>3, TruncationLengthsFacts
<1>6. DOMAIN traces[s].answers = 1..Len(lengths)
  BY <1>3 DEF BatchInv
<1>7. mc'[s] = [k \in DOMAIN traces[s].answers |-> RightAnswers(traces[s].answers[k])]
  BY DEF ComputeRewards
<1> HIDE DEF lengths
<1>8. Len(lengths) \in Nat
  BY <1>5 DEF SeqOfInts
<1>9. Len(mc'[s]) = Len(lengths)
  BY <1>6, <1>7, <1>8
<1>10. \A k \in 2..Len(lengths) : lengths[k - 1] < lengths[k]
  <2>1. \A k \in 2..Len(lengths) : k - 1 \in 1..Len(lengths) /\ k \in 1..Len(lengths) /\ k - 1 < k
    BY <1>8
  <2> QED
    BY <1>5, <2>1 DEF Rising
<1> QED
  BY <1>4, <1>5, <1>9, <1>10

\* compute_budget_truncation_lengths and the full trace: with any budgets,
\* relative or absolute, and traces of any length, the lengths increase
\* strictly and are those some budget, or the whole trace, asks for, each with
\* its own accuracy.  The sort and the removal of duplicates are proved by
\* induction over the folds that define them.
THEOREM TruncationsAsked == Spec => []TruncationsSound
<1> DEFINE Inv == BatchInv /\ TruncationsSound
<1>1. Init => Inv
  <2>1. SUFFICES ASSUME Init PROVE Inv
    OBVIOUS
  <2>2. config \in Configs /\ stage = "generate" /\ traces = << >>
    BY <2>1 DEF Init
  <2>3. 0 < Cardinality(Samples)
    BY SamplesCount, Numbers, ConfigsAssumption DEF Samples
  <2> QED
    BY <2>2, <2>3 DEF BatchInv, SeqOfTraces, TruncationsSound, Graded
<1>2. Inv /\ [Next]_vars => Inv'
  <2>1. SUFFICES ASSUME Inv, [Next]_vars PROVE Inv'
    OBVIOUS
  <2>2. BatchInv'
    BY <2>1, BatchStep
  <2>3. CASE ComputeRewards
    BY <2>1, <2>2, <2>3, Truncated
  <2>4. CASE (\E conf \in Confidences : AddProbeReward(conf)) \/ ComputeAdvantage \/ UNCHANGED vars
    <3>1. UNCHANGED <<config, traces, positions, mc>> /\ (Graded' => Graded)
      BY <2>4 DEF AddProbeReward, ComputeAdvantage, vars, step, Graded
    <3> QED
      BY <2>1, <2>2, <3>1 DEF TruncationsSound, Resolved, Target, Samples
  <2>5. CASE NextBatch \/ \E length, natural : Generate(length, natural)
    <3>1. ~Graded'
      BY <2>5 DEF NextBatch, Generate, Graded
    <3> QED
      BY <2>2, <3>1 DEF TruncationsSound
  <2> QED
    BY <2>1, <2>3, <2>4, <2>5 DEF Next
<1>3. Inv => TruncationsSound
  OBVIOUS
<1> QED
  BY <1>1, <1>2, <1>3, PTL DEF Spec

-----------------------------------------------------------------------------
(* The predictions of a batch: joined in one sequence and split again      *)

\* Any running sum is the one Total ends with.
LEMMA TotalIs ==
    ASSUME NEW n \in Nat, NEW seq \in [1..n -> Int], NEW L, L[0] = 0,
           \A i \in 1..n : L[i] = L[i - 1] + seq[i]
    PROVE  Total(seq) = L[n]
<1>1. PICK F : /\ F[0] = 0 /\ Total(seq) = F[n]
               /\ \A i \in 1..n : F[i] = F[i - 1] + seq[i]
  BY TotalFacts
<1> DEFINE T == {i \in 0..n : F[i] = L[i]}
<1>2. 0 \in T
  BY <1>1
<1>3. ASSUME NEW i \in 0..(n - 1), i \in T PROVE i + 1 \in T
  <2>1. i + 1 \in 1..n /\ (i + 1) - 1 = i
    OBVIOUS
  <2>2. F[i + 1] = F[i] + seq[i + 1] /\ L[i + 1] = L[i] + seq[i + 1]
    BY <1>1, <2>1
  <2> QED
    BY <1>3, <2>1, <2>2
<1> HIDE DEF T
<1>4. 0..n \subseteq T
  BY <1>2, <1>3, UpTo
<1>5. n \in T
  BY <1>4
<1> QED
  BY <1>1, <1>5 DEF T

\* FlattenSeq joins one sequence after the other.
LEMMA Joins ==
    ASSUME NEW n \in Nat \ {0}, NEW seqs \in [1..n -> SeqOfInts]
    PROVE  \E F : /\ F[0] = << >> /\ FlattenSeq(seqs) = F[n]
                  /\ \A i \in 1..n : F[i] = F[i - 1] \o seqs[i]
<1> DEFINE Step(f) == [i \in 1..n |-> IF i = 1 THEN seqs[i] ELSE f[i - 1] \o seqs[i]]
           I == CHOOSE f : f = Step(f)
<1>1. FlattenSeq(seqs) = I[n]
  <2>1. Len(seqs) = n
    OBVIOUS
  <2> QED
    BY <2>1 DEF FlattenSeq
<1>2. I = Step(I)
  <2> DEFINE op == [p \in SeqOfInts \X (1..n) |-> p[1] \o seqs[p[2]]]
  <2>1. op \in [SeqOfInts \X (1..n) -> SeqOfInts]
    BY DEF SeqOfInts
  <2>2. \A a \in SeqOfInts, k \in 1..n : op[<<a, k>>] = a \o seqs[k]
    OBVIOUS
  <2> HIDE DEF op
  <2>3. << >> \in SeqOfInts /\ n \in Nat
    BY DEF SeqOfInts
  <2>4. PICK G : IsFold(G, n, SeqOfInts, << >>, op)
    BY <2>1, <2>3, FoldExists
  <2> DEFINE f == [i \in 1..n |-> G[1..i]]
  <2>5. ASSUME NEW i \in 1..n
        PROVE  G[1..i] = IF i = 1 THEN seqs[i] ELSE G[1..(i - 1)] \o seqs[i]
    <3>1. /\ 1..i \in SUBSET (1..n) /\ 1..i # {} /\ Max(1..i) = i
          /\ (1..i) \ {i} = 1..(i - 1) /\ 1..(i - 1) \in SUBSET (1..n)
      BY Prefix
    <3>2. G[1..i] = op[<<G[(1..i) \ {Max(1..i)}], Max(1..i)>>] /\ G[1..(i - 1)] \in SeqOfInts
      BY <2>4, <3>1 DEF IsFold
    <3>3. G[1..i] = G[1..(i - 1)] \o seqs[i]
      BY <2>2, <3>1, <3>2
    <3>4. i = 1 => G[1..(i - 1)] = << >>
      <4>1. i = 1 => 1..(i - 1) = {}
        OBVIOUS
      <4> QED
        BY <2>4, <3>1, <4>1 DEF IsFold
    <3>5. i = 1 => G[1..(i - 1)] \o seqs[i] = seqs[i]
      BY <3>4 DEF SeqOfInts
    <3> QED
      BY <3>3, <3>5
  <2>6. f = Step(f)
    <3>1. \A i \in 1..n : i # 1 => i - 1 \in 1..n
      OBVIOUS
    <3>2. \A i \in 1..n : f[i] = IF i = 1 THEN seqs[i] ELSE f[i - 1] \o seqs[i]
      BY <2>5, <3>1
    <3> HIDE DEF f
    <3>3. f = [i \in 1..n |-> f[i]]
      BY DEF f
    <3> QED
      BY <3>2, <3>3
  <2> HIDE DEF Step, f
  <2> QED
    BY <2>6
<1> HIDE DEF I
<1> DEFINE F == [i \in 0..n |-> IF i = 0 THEN << >> ELSE I[i]]
<1>3. F[0] = << >> /\ I[n] = F[n]
  OBVIOUS
<1>4. ASSUME NEW i \in 1..n PROVE F[i] = F[i - 1] \o seqs[i]
  <2>1. I[i] = IF i = 1 THEN seqs[i] ELSE I[i - 1] \o seqs[i]
    BY <1>2
  <2>2. CASE i = 1
    <3>1. F[i - 1] = << >> /\ F[i] = seqs[i]
      BY <2>1, <2>2
    <3>2. << >> \o seqs[i] = seqs[i]
      BY DEF SeqOfInts
    <3> QED
      BY <3>1, <3>2
  <2>3. CASE i # 1
    <3>1. i - 1 \in 1..n /\ i - 1 # 0 /\ i # 0 /\ i - 1 \in 0..n /\ i \in 0..n
      BY <2>3
    <3> QED
      BY <2>1, <2>3, <3>1
  <2> QED
    BY <2>2, <2>3
<1> HIDE DEF F
<1> QED
  BY <1>1, <1>3, <1>4

LEMMA OneAfterTheOther ==
    ASSUME NEW a \in Seq(Int), NEW b \in Seq(Int)
    PROVE  /\ a \o b \in Seq(Int) /\ Len(a \o b) = Len(a) + Len(b)
           /\ \A k \in 1..(Len(a) + Len(b)) :
                 (a \o b)[k] = IF k <= Len(a) THEN a[k] ELSE b[k - Len(a)]
BY ConcatProperties

\* Whoever knows how much lies before it finds its own again.
LEMMA Splits ==
    ASSUME NEW n \in Nat \ {0}, NEW seqs \in [1..n -> SeqOfInts],
           NEW L, L[0] = 0, \A i \in 1..n : L[i] = L[i - 1] + Len(seqs[i]),
           NEW s \in 1..n
    PROVE  SubSeq(FlattenSeq(seqs), L[s - 1] + 1, L[s - 1] + Len(seqs[s])) = seqs[s]
<1>1. PICK F : /\ F[0] = << >> /\ FlattenSeq(seqs) = F[n]
               /\ \A i \in 1..n : F[i] = F[i - 1] \o seqs[i]
  BY Joins
<1> DEFINE P(i) == /\ F[i] \in Seq(Int) /\ L[i] \in Nat /\ Len(F[i]) = L[i]
                   /\ \A j \in 1..i : /\ L[j - 1] \in Nat /\ L[j - 1] + Len(seqs[j]) <= L[i]
                                      /\ \A k \in 1..Len(seqs[j]) : F[i][L[j - 1] + k] = seqs[j][k]
           T == {i \in 0..n : P(i)}
<1>2. 0 \in T
  <2>1. P(0)
    BY <1>1
  <2> QED
    BY <2>1
<1>3. ASSUME NEW i \in 0..(n - 1), i \in T PROVE i + 1 \in T
  <2>1. P(i) /\ i + 1 \in 1..n /\ (i + 1) - 1 = i
    BY <1>3
  <2> DEFINE a == F[i]
             b == seqs[i + 1]
             c == F[i + 1]
  <2>2. a \in Seq(Int) /\ b \in Seq(Int) /\ Len(a) = L[i] /\ L[i] \in Nat /\ Len(b) \in Nat
    BY <2>1 DEF SeqOfInts
  <2>3. c = a \o b /\ L[i + 1] = L[i] + Len(b)
    BY <1>1, <2>1
  <2> HIDE DEF a, b, c
  <2>4. /\ c \in Seq(Int) /\ Len(c) = L[i + 1]
        /\ \A k \in 1..(Len(a) + Len(b)) : c[k] = IF k <= Len(a) THEN a[k] ELSE b[k - Len(a)]
    BY <2>2, <2>3, OneAfterTheOther
  <2>5. ASSUME NEW j \in 1..(i + 1)
        PROVE  /\ L[j - 1] \in Nat /\ L[j - 1] + Len(seqs[j]) <= L[i + 1]
               /\ \A k \in 1..Len(seqs[j]) : c[L[j - 1] + k] = seqs[j][k]
    <3>1. CASE j \in 1..i
      <4> DEFINE d == seqs[j]
                 o == L[j - 1]
      <4>1. o \in Nat /\ o + Len(d) <= L[i] /\ \A k \in 1..Len(d) : a[o + k] = d[k]
        BY <2>1, <3>1 DEF a
      <4>2. Len(d) \in Nat
        <5>1. j \in 1..n
          BY <2>1
        <5> QED
          BY <5>1 DEF SeqOfInts
      <4> HIDE DEF d, o
      <4>3. \A k \in 1..Len(d) : o + k \in 1..(Len(a) + Len(b)) /\ o + k <= Len(a)
        <5>1. Len(a) \in Nat /\ o + Len(d) <= Len(a) /\ o \in Nat /\ Len(d) \in Nat /\ Len(b) \in Nat
          BY <2>2, <4>1, <4>2
        <5> QED
          BY <5>1
      <4>4. \A k \in 1..Len(d) : c[o + k] = d[k]
        BY <2>4, <4>1, <4>3
      <4>5. o + Len(d) <= L[i + 1]
        BY <2>2, <2>3, <4>1, <4>2
      <4> QED
        BY <4>1, <4>4, <4>5 DEF d, o
    <3>2. CASE j = i + 1
      <4>1. L[j - 1] = L[i] /\ seqs[j] = b
        BY <2>1, <3>2 DEF b
      <4>2. \A k \in 1..Len(b) : /\ L[i] + k \in 1..(Len(a) + Len(b)) /\ ~(L[i] + k <= Len(a))
                                 /\ (L[i] + k) - Len(a) = k
        BY <2>2
      <4>3. \A k \in 1..Len(b) : c[L[i] + k] = b[k]
        BY <2>4, <4>2
      <4>4. L[i] + Len(b) <= L[i + 1] /\ L[i] \in Nat
        BY <2>2, <2>3
      <4> QED
        BY <4>1, <4>3, <4>4
    <3> QED
      BY <2>1, <3>1, <3>2
  <2>6. L[i + 1] \in Nat
    BY <2>2, <2>3
  <2>7. P(i + 1)
    BY <2>4, <2>5, <2>6 DEF c
  <2> HIDE DEF P
  <2> QED
    BY <2>1, <2>7
<1> HIDE DEF T
<1>4. 0..n \subseteq T
  BY <1>2, <1>3, UpTo
<1>5. n \in T
  BY <1>4
<1>6. P(n)
  BY <1>5 DEF T
<1> DEFINE m == L[s - 1]
           own == seqs[s]
           all == F[n]
<1>7. /\ all \in Seq(Int) /\ m \in Nat /\ m + Len(own) <= Len(all)
      /\ \A k \in 1..Len(own) : all[m + k] = own[k]
  BY <1>6
<1>8. own \in Seq(Int) /\ Len(own) \in Nat
  BY DEF SeqOfInts
<1> HIDE DEF P, m, own, all
<1> DEFINE part == SubSeq(all, m + 1, m + Len(own))
<1>9. part \in Seq(Int) /\ Len(part) = Len(own) /\ \A k \in 1..Len(own) : part[k] = all[m + k]
  <2>1. \A i \in (m + 1)..(m + Len(own)) : all[i] \in Int
    BY <1>7, <1>8
  <2>2. /\ part \in Seq(Int)
        /\ Len(part) = IF m + 1 <= m + Len(own) THEN (m + Len(own)) - (m + 1) + 1 ELSE 0
        /\ \A i \in 1..((m + Len(own)) - (m + 1) + 1) : part[i] = all[(m + 1) + i - 1]
    BY <1>7, <1>8, <2>1, SubSeqProperties
  <2>3. (m + Len(own)) - (m + 1) + 1 = Len(own) /\ \A k \in 1..Len(own) : (m + 1) + k - 1 = m + k
    BY <1>7, <1>8
  <2> HIDE DEF part
  <2>4. Len(part) = Len(own)
    BY <1>7, <1>8, <2>2
  <2> QED
    BY <2>2, <2>3, <2>4
<1> HIDE DEF part
<1>10. part = own
  <2>1. \A k \in 1..Len(own) : part[k] = own[k]
    BY <1>7, <1>9
  <2>2. part \in [1..Len(own) -> Int] /\ own \in [1..Len(own) -> Int]
    BY <1>8, <1>9
  <2> QED
    BY <2>1, <2>2
<1> QED
  BY <1>1, <1>10 DEF part, m, own, all

\* What the probe predicts for a sample of the batch, budget by budget.
Predicted(s, conf) ==
    [k \in DOMAIN positions[s] |-> conf[s][Least(positions[s][k], ResponseLength)]]

ActualLengths == {seq \in SeqOfInts : \A k \in 1..Len(seq) : seq[k] \in Nat}

LEMMA PredictedType ==
    ASSUME NEW conf \in Confidences, positions \in [Samples -> ActualLengths], NEW s \in Samples
    PROVE  /\ Len(positions[s]) \in Nat /\ DOMAIN positions[s] = 1..Len(positions[s])
           /\ Predicted(s, conf) \in SeqOfInts /\ Len(Predicted(s, conf)) = Len(positions[s])
           /\ \A k \in 1..Len(positions[s]) :
                 Least(positions[s][k], ResponseLength) \in 0..ResponseLength
<1> DEFINE own == positions[s]
           n == Len(own)
<1>1. own \in SeqOfInts /\ \A k \in 1..n : own[k] \in Nat
  BY DEF ActualLengths
<1>2. n \in Nat /\ DOMAIN own = 1..n
  BY <1>1 DEF SeqOfInts
<1>3. conf[s] \in [0..ResponseLength -> Int] /\ ResponseLength \in Nat
  BY ConfigsAssumption
<1> HIDE DEF own, n
<1>4. \A k \in 1..n : Least(own[k], ResponseLength) \in 0..ResponseLength
  BY <1>1, <1>3 DEF Least
<1> DEFINE seq == [k \in 1..n |-> conf[s][Least(own[k], ResponseLength)]]
<1>5. seq \in Seq(Int) /\ Len(seq) = n
  BY <1>2, <1>3, <1>4
<1>6. Predicted(s, conf) = seq
  BY <1>2 DEF Predicted, own
<1> HIDE DEF seq
<1> QED
  BY <1>2, <1>4, <1>5, <1>6 DEF SeqOfInts, own, n

LEMMA OwnPart ==
    ASSUME NEW conf \in Confidences, positions \in [Samples -> ActualLengths], NEW s \in Samples
    PROVE  OwnPredictions(s, Predictions(conf)) = Predicted(s, conf)
<1> DEFINE n == Prompts * GroupSize
           seqs == [t \in Samples |-> Predicted(t, conf)]
           lens == [t \in 1..n |-> Len(positions[t])]
<1>1. Samples = 1..n /\ n \in Nat
  BY Numbers DEF Samples
<1> HIDE DEF n
<1>2. n \in Nat \ {0} /\ s \in 1..n
  BY <1>1
<1>3. \A t \in 1..n : /\ Len(positions[t]) \in Nat
                      /\ Predicted(t, conf) \in SeqOfInts
                      /\ Len(Predicted(t, conf)) = Len(positions[t])
  BY <1>1, PredictedType
<1>4. seqs \in [1..n -> SeqOfInts] /\ \A t \in 1..n : seqs[t] = Predicted(t, conf)
  BY <1>1, <1>3
<1>5. lens \in [1..n -> Int] /\ \A t \in 1..n : lens[t] = Len(positions[t])
  BY <1>3
<1>6. Predictions(conf) = FlattenSeq(seqs)
  BY DEF Predictions, Predicted
<1> HIDE DEF seqs, lens
<1>7. PICK L : /\ L[0] = 0 /\ Total(lens) = L[n]
               /\ \A i \in 1..n : L[i] = L[i - 1] + lens[i]
  BY <1>2, <1>5, TotalFacts
<1>8. Offset(s) = L[s - 1]
  <2> DEFINE before == [t \in 1..(s - 1) |-> Len(positions[t])]
  <2>1. s - 1 \in Nat /\ \A t \in 1..(s - 1) : t \in 1..n
    BY <1>2
  <2>2. before \in [1..(s - 1) -> Int]
    BY <1>3, <2>1
  <2>3. \A i \in 1..(s - 1) : L[i] = L[i - 1] + before[i]
    BY <1>5, <1>7, <2>1
  <2>4. Offset(s) = Total(before)
    BY DEF Offset
  <2> HIDE DEF before
  <2> QED
    BY <1>7, <2>1, <2>2, <2>3, <2>4, TotalIs
<1>9. \A i \in 1..n : L[i] = L[i - 1] + Len(seqs[i])
  BY <1>3, <1>4, <1>5, <1>7
<1>10. SubSeq(FlattenSeq(seqs), L[s - 1] + 1, L[s - 1] + Len(seqs[s])) = seqs[s]
  BY <1>2, <1>4, <1>7, <1>9, Splits
<1>11. seqs[s] = Predicted(s, conf) /\ Len(seqs[s]) = Len(positions[s])
  BY <1>2, <1>3, <1>4
<1> QED
  BY <1>6, <1>8, <1>10, <1>11 DEF OwnPredictions

-----------------------------------------------------------------------------
(* Sums: whole, bounded and divisible                                      *)
LEMMA Multiples ==
    ASSUME NEW d \in Nat \ {0}, NEW x \in Int
    PROVE  (d * x) % d = 0
<1> DEFINE y == d * x
           q == y \div d
           r == y % d
<1>1. y \in Int /\ q \in Int /\ r \in 0..(d - 1) /\ y = d * q + r
  OBVIOUS
<1>2. d * (x - q) = y - d * q
  OBVIOUS
<1>3. d * (x - q) = r /\ x - q \in Int
  BY <1>1, <1>2
<1> HIDE DEF y, q, r
<1>4. CASE x - q >= 1
  <2>1. d * (x - q) >= d * 1
    BY <1>1, <1>4
  <2> QED
    BY <1>1, <1>3, <2>1
<1>5. CASE x - q <= -1
  <2>1. d * (x - q) <= d * (-1)
    BY <1>1, <1>5
  <2> QED
    BY <1>1, <1>3, <2>1
<1>6. CASE x - q = 0
  BY <1>1, <1>3, <1>6 DEF r, y
<1> QED
  BY <1>3, <1>4, <1>5, <1>6

LEMMA SumOfMultiples ==
    ASSUME NEW d \in Nat \ {0}, NEW a \in Int, NEW b \in Int, a % d = 0, b % d = 0
    PROVE  (a + b) % d = 0
<1> DEFINE q == a \div d
           r == b \div d
<1>1. q \in Int /\ r \in Int /\ a = d * q /\ b = d * r
  OBVIOUS
<1> HIDE DEF q, r
<1>2. a + b = d * (q + r) /\ q + r \in Int
  BY <1>1
<1> QED
  BY <1>2, Multiples

LEMMA TotalWhole ==
    ASSUME NEW n \in Nat, NEW seq \in [1..n -> Int], NEW d \in Nat \ {0}
    PROVE  /\ Total(seq) \in Int
           /\ (\A i \in 1..n : seq[i] % d = 0) => Total(seq) % d = 0
<1>1. PICK F : /\ F[0] = 0 /\ Total(seq) = F[n]
               /\ \A i \in 1..n : F[i] = F[i - 1] + seq[i]
  BY TotalFacts
<1> DEFINE Divides == \A i \in 1..n : seq[i] % d = 0
           T == {i \in 0..n : F[i] \in Int /\ (Divides => F[i] % d = 0)}
<1>2. 0 \in T
  <2>1. 0 % d = 0
    OBVIOUS
  <2> QED
    BY <1>1, <2>1
<1>3. ASSUME NEW i \in 0..(n - 1), i \in T PROVE i + 1 \in T
  <2>1. i + 1 \in 1..n /\ (i + 1) - 1 = i /\ seq[i + 1] \in Int /\ F[i] \in Int
    BY <1>3
  <2>2. F[i + 1] = F[i] + seq[i + 1]
    BY <1>1, <2>1
  <2>3. Divides => F[i] % d = 0 /\ seq[i + 1] % d = 0
    BY <1>3, <2>1
  <2> HIDE DEF Divides
  <2>4. Divides => F[i + 1] % d = 0
    BY <2>1, <2>2, <2>3, SumOfMultiples
  <2> QED
    BY <2>1, <2>2, <2>4
<1> HIDE DEF T, Divides
<1>4. 0..n \subseteq T
  BY <1>2, <1>3, UpTo
<1>5. n \in T
  BY <1>4
<1> QED
  BY <1>1, <1>5 DEF T, Divides

\* Entries between two bounds have their sum between as many times these.
LEMMA TotalBetween ==
    ASSUME NEW n \in Nat, NEW seq \in [1..n -> Int], NEW C \in SUBSET (1..n),
           NEW lo \in Int, NEW hi \in Int,
           \A i \in C : lo <= seq[i] /\ seq[i] <= hi,
           \A i \in (1..n) \ C : seq[i] = 0
    PROVE  /\ Cardinality(C) \in Nat
           /\ Cardinality(C) * lo <= Total(seq) /\ Total(seq) <= Cardinality(C) * hi
<1>1. PICK F : /\ F[0] = 0 /\ Total(seq) = F[n]
               /\ \A i \in 1..n : F[i] = F[i - 1] + seq[i]
  BY TotalFacts
<1> DEFINE D(i) == C \cap (1..i)
           c(i) == Cardinality(D(i))
           P(i) == /\ IsFiniteSet(D(i)) /\ c(i) \in Nat /\ F[i] \in Int
                   /\ c(i) * lo <= F[i] /\ F[i] <= c(i) * hi
           T == {i \in 0..n : P(i)}
<1>2. 0 \in T
  <2>1. D(0) = {}
    OBVIOUS
  <2>2. IsFiniteSet(D(0)) /\ c(0) = 0
    BY <2>1, FS_EmptySet
  <2> HIDE DEF D
  <2>3. P(0)
    BY <1>1, <2>2
  <2> QED
    BY <2>3
<1>3. ASSUME NEW i \in 0..(n - 1), i \in T PROVE i + 1 \in T
  <2>1. P(i) /\ i + 1 \in 1..n /\ (i + 1) - 1 = i /\ seq[i + 1] \in Int
    BY <1>3
  <2>2. F[i + 1] = F[i] + seq[i + 1]
    BY <1>1, <2>1
  <2>3. CASE i + 1 \in C
    <3>1. D(i + 1) = D(i) \cup {i + 1} /\ i + 1 \notin D(i)
      BY <2>3
    <3>2. lo <= seq[i + 1] /\ seq[i + 1] <= hi
      BY <2>3
    <3> HIDE DEF D
    <3>3. IsFiniteSet(D(i + 1)) /\ c(i + 1) = c(i) + 1
      BY <2>1, <3>1, FS_AddElement
    <3> HIDE DEF c
    <3>4. (c(i) + 1) * lo = c(i) * lo + lo /\ (c(i) + 1) * hi = c(i) * hi + hi
      BY <2>1
    <3> DEFINE x == c(i) * lo
               y == c(i) * hi
    <3>5. /\ x \in Int /\ y \in Int /\ x <= F[i] /\ F[i] <= y
          /\ c(i + 1) * lo = x + lo /\ c(i + 1) * hi = y + hi
          /\ F[i] \in Int /\ seq[i + 1] \in Int
      BY <2>1, <3>3, <3>4
    <3> HIDE DEF x, y
    <3>6. x + lo <= F[i + 1] /\ F[i + 1] <= y + hi /\ F[i + 1] \in Int
      BY <2>2, <3>2, <3>5
    <3>7. c(i + 1) * lo <= F[i + 1] /\ F[i + 1] <= c(i + 1) * hi
      BY <3>5, <3>6
    <3>8. c(i + 1) \in Nat
      BY <2>1, <3>3
    <3>9. P(i + 1)
      BY <3>3, <3>6, <3>7, <3>8
    <3> QED
      BY <2>1, <3>9
  <2>4. CASE i + 1 \notin C
    <3>1. D(i + 1) = D(i)
      BY <2>4
    <3>2. F[i + 1] = F[i]
      BY <2>1, <2>2, <2>4
    <3> HIDE DEF D
    <3>3. P(i + 1)
      BY <2>1, <3>1, <3>2
    <3> QED
      BY <2>1, <3>3
  <2> QED
    BY <2>3, <2>4
<1> HIDE DEF T
<1>4. 0..n \subseteq T
  BY <1>2, <1>3, UpTo
<1>5. n \in T
  BY <1>4
<1>6. P(n) /\ D(n) = C
  BY <1>5 DEF T
<1> HIDE DEF D
<1> QED
  BY <1>1, <1>6

\* A quotient lies where the dividend lies.
LEMMA QuotientBetween ==
    ASSUME NEW g \in Nat \ {0}, NEW y \in Int, NEW lo \in Int, NEW hi \in Int,
           g * lo <= y, y <= g * hi
    PROVE  y \div g \in Int /\ lo <= y \div g /\ y \div g <= hi
<1> DEFINE q == y \div g
           r == y % g
<1>1. q \in Int /\ r \in 0..(g - 1) /\ y = g * q + r
  OBVIOUS
<1> HIDE DEF q, r
<1>2. lo <= q
  <2>1. SUFFICES ASSUME q <= lo - 1 PROVE FALSE
    BY <1>1
  <2>2. g * q <= g * (lo - 1) /\ g * (lo - 1) = g * lo - g /\ g * lo \in Int /\ g * q \in Int
    BY <1>1, <2>1
  <2> QED
    BY <1>1, <2>2
<1>3. q <= hi
  <2>1. SUFFICES ASSUME q >= hi + 1 PROVE FALSE
    BY <1>1
  <2>2. g * q >= g * (hi + 1) /\ g * (hi + 1) = g * hi + g /\ g * hi \in Int /\ g * q \in Int
    BY <1>1, <2>1
  <2> QED
    BY <1>1, <2>2
<1> QED
  BY <1>1, <1>2, <1>3 DEF q

\* What lies at chosen indices, summed.
LEMMA SumAtFacts ==
    ASSUME NEW n \in Nat, NEW own \in [1..n -> Int], NEW C \in SUBSET (1..n), C # {},
           NEW lo \in Int, NEW hi \in Int,
           \A i \in C : lo <= own[i] /\ own[i] <= hi
    PROVE  /\ SumAt(own, C) \in Int /\ Cardinality(C) \in Nat \ {0}
           /\ lo <= MeanAt(own, C) /\ MeanAt(own, C) <= hi /\ MeanAt(own, C) \in Int
           /\ (\A i \in C : own[i] % Cardinality(C) = 0) =>
                 MeanAt(own, C) * Cardinality(C) = SumAt(own, C)
<1> DEFINE seq == [k \in 1..n |-> IF k \in C THEN own[k] ELSE 0]
           sum == Total(seq)
           c == Cardinality(C)
<1>1. SumAt(own, C) = sum /\ DOMAIN own = 1..n
  BY DEF SumAt
<1>2. /\ seq \in [1..n -> Int] /\ \A i \in C : seq[i] = own[i]
      /\ \A i \in (1..n) \ C : seq[i] = 0
  OBVIOUS
<1> HIDE DEF seq
<1>3. c \in Nat /\ c * lo <= sum /\ sum <= c * hi
  BY <1>2, TotalBetween
<1>4. c # 0
  <2>1. IsFiniteSet(1..n)
    BY FS_Interval
  <2>2. IsFiniteSet(C)
    BY <2>1, FS_Subset
  <2> QED
    BY <2>2, FS_EmptySet
<1>5. c \in Nat \ {0}
  BY <1>3, <1>4
<1>6. sum \in Int /\ ((\A i \in C : own[i] % c = 0) => sum % c = 0)
  <2> HIDE DEF c, sum
  <2>1. 0 % c = 0
    BY <1>5
  <2>2. (\A i \in C : own[i] % c = 0) => \A i \in 1..n : seq[i] % c = 0
    BY <1>2, <2>1
  <2> QED
    BY <1>2, <1>5, <2>2, TotalWhole DEF sum
<1> DEFINE q == sum \div c
           r == sum % c
<1>7. MeanAt(own, C) = q
  BY <1>1 DEF MeanAt
<1> HIDE DEF c, sum
<1>8. q \in Int /\ r \in 0..(c - 1) /\ sum = c * q + r
  BY <1>5, <1>6
<1> HIDE DEF q, r
<1>9. lo <= q /\ q <= hi
  <2>1. c * lo <= sum /\ sum <= c * hi
    BY <1>3
  <2> QED
    BY <1>5, <1>6, <2>1, QuotientBetween DEF q
<1>10. r = 0 => q * c = sum
  BY <1>5, <1>8
<1> QED
  BY <1>1, <1>5, <1>6, <1>7, <1>8, <1>9, <1>10 DEF r, c

-----------------------------------------------------------------------------
(* What the grading leaves behind                                          *)
GradedInv ==
    Graded =>
        /\ positions = [s \in Samples |-> TruncationLengths(traces[s].length)]
        /\ mc = [s \in Samples |->
                   [k \in DOMAIN traces[s].answers |-> RightAnswers(traces[s].answers[k])]]
        /\ correct = [s \in Samples |-> NaturalReward(s) > 0]

LEMMA GradedStep ==
    ASSUME GradedInv, [Next]_vars PROVE GradedInv'
<1>1. CASE ComputeRewards
  <2>1. UNCHANGED <<config, traces>>
    BY <1>1 DEF ComputeRewards
  <2>2. \A l : (TruncationLengths(l))' = TruncationLengths(l)
    BY <2>1 DEF TruncationLengths
  <2>3. \A s : (NaturalReward(s))' = NaturalReward(s)
    BY <2>1 DEF NaturalReward, ValidLength
  <2>4. /\ positions' = [s \in Samples |-> TruncationLengths(traces'[s].length)]
        /\ mc' = [s \in Samples |->
                    [k \in DOMAIN traces'[s].answers |-> RightAnswers(traces'[s].answers[k])]]
        /\ correct' = [s \in Samples |-> NaturalReward(s) > 0]
    BY <1>1, <2>1 DEF ComputeRewards
  <2>5. /\ positions' = [s \in Samples |-> (TruncationLengths(traces[s].length))']
        /\ correct' = [s \in Samples |-> (NaturalReward(s))' > 0]
    BY <2>1, <2>2, <2>3, <2>4
  <2> QED
    BY <2>4, <2>5 DEF GradedInv, Samples, RightAnswers, Score
<1>2. CASE (\E conf \in Confidences : AddProbeReward(conf)) \/ ComputeAdvantage \/ UNCHANGED vars
  <2>1. UNCHANGED <<config, traces, positions, mc, correct>> /\ (Graded' => Graded)
    BY <1>2 DEF AddProbeReward, ComputeAdvantage, vars, step, Graded
  <2>2. \A l : (TruncationLengths(l))' = TruncationLengths(l)
    BY <2>1 DEF TruncationLengths
  <2>3. \A s : (NaturalReward(s))' = NaturalReward(s)
    BY <2>1 DEF NaturalReward, ValidLength
  <2>4. SUFFICES ASSUME Graded
                 PROVE  /\ positions' = [s \in Samples |-> (TruncationLengths(traces[s].length))']
                        /\ mc' = [s \in Samples |-> [k \in DOMAIN traces'[s].answers |->
                                    RightAnswers(traces'[s].answers[k])]]
                        /\ correct' = [s \in Samples |-> (NaturalReward(s))' > 0]
    BY <2>1 DEF GradedInv, Samples, RightAnswers, Score
  <2>5. /\ positions = [s \in Samples |-> TruncationLengths(traces[s].length)]
        /\ mc = [s \in Samples |->
                   [k \in DOMAIN traces[s].answers |-> RightAnswers(traces[s].answers[k])]]
        /\ correct = [s \in Samples |-> NaturalReward(s) > 0]
    BY <2>4 DEF GradedInv
  <2> QED
    BY <2>1, <2>2, <2>3, <2>5
<1>3. CASE NextBatch \/ \E length, natural : Generate(length, natural)
  <2>1. ~Graded'
    BY <1>3 DEF NextBatch, Generate, Graded
  <2> QED
    BY <2>1 DEF GradedInv
<1> QED
  BY <1>1, <1>2, <1>3 DEF Next

\* A graded trace, and the lengths it was truncated at.
LEMMA GradedFacts ==
    ASSUME BatchInv, GradedInv, Graded
    PROVE  /\ config \in Configs /\ positions \in [Samples -> ActualLengths]
           /\ \A s \in Samples :
                 /\ traces[s] \in Trace /\ traces[s].length \in Nat
                 /\ positions[s] = TruncationLengths(traces[s].length)
                 /\ DOMAIN traces[s].answers = 1..Len(positions[s])
<1>1. config \in Configs /\ positions = [s \in Samples |-> TruncationLengths(traces[s].length)]
  BY DEF GradedInv, BatchInv
<1>2. ASSUME NEW s \in Samples
      PROVE  /\ traces[s] \in Trace /\ traces[s].length \in Nat
             /\ positions[s] = TruncationLengths(traces[s].length)
             /\ positions[s] \in ActualLengths
             /\ DOMAIN traces[s].answers = 1..Len(positions[s])
  <2>1. s \in 1..Len(traces) /\ traces \in Seq(Trace)
    BY SamplesCount DEF BatchInv, SeqOfTraces, Graded
  <2>2. traces[s] \in Trace
    BY <2>1
  <2>3. traces[s].length \in Nat
    BY <2>2 DEF Trace
  <2> DEFINE length == traces[s].length
             lengths == TruncationLengths(length)
  <2>4. /\ lengths \in SeqOfInts
        /\ ToSet(lengths) = Asked(length) \cup (IF config.full_trace THEN {length} ELSE {})
    BY <1>1, <2>3, TruncationLengthsFacts
  <2>5. Asked(length) \subseteq Nat
    <3>1. config.budgets \in Seq(Budget)
      BY <1>1, ConfigsAssumption DEF Budget
    <3>2. \A b \in ToSet(config.budgets) : b \in Budget
      BY <3>1 DEF ToSet
    <3>3. \A b \in ToSet(config.budgets) : Resolved(length, b) \in Nat
      BY <2>3, <3>2, ResolvedType
    <3> QED
      BY <3>3 DEF Asked
  <2>6. DOMAIN traces[s].answers = 1..Len(lengths)
    BY <2>1 DEF BatchInv
  <2> HIDE DEF lengths
  <2>7. \A k \in 1..Len(lengths) : lengths[k] \in Nat
    BY <2>3, <2>4, <2>5 DEF ToSet, SeqOfInts
  <2>8. lengths \in ActualLengths
    BY <2>4, <2>7 DEF ActualLengths
  <2>9. positions[s] = lengths
    BY <1>1 DEF lengths
  <2> QED
    BY <2>2, <2>3, <2>6, <2>8, <2>9 DEF lengths
<1> QED
  BY <1>1, <1>2

LEMMA NoTwoAlike ==
    ASSUME NEW S, NEW U, IsFiniteSet(S), IsFiniteSet(U), NEW f \in [S -> U],
           \A x, y \in S : f[x] = f[y] => x = y
    PROVE  Cardinality(S) <= Cardinality(U)
<1>1. Cardinality(S) \in Nat /\ Cardinality(U) \in Nat
  BY FS_CardinalityType
<1>2. ~(Cardinality(U) < Cardinality(S))
  BY FS_PigeonHole
<1> QED
  BY <1>1, <1>2

\* A trace is not truncated at more lengths than there are budgets, and its own.
LEMMA FewPositions ==
    ASSUME config \in Configs, NEW length \in Nat,
           NEW C \in SUBSET (1..Len(TruncationLengths(length)))
    PROVE  Cardinality(C) <= Len(config.budgets) + 1
<1> DEFINE lengths == TruncationLengths(length)
           n == Len(config.budgets)
           At(i) == IF i = 0 THEN length ELSE Resolved(length, config.budgets[i])
<1>1. n \in Nat /\ DOMAIN config.budgets = 1..n
  BY ConfigsAssumption
<1>2. /\ lengths \in SeqOfInts /\ Rising(lengths)
      /\ ToSet(lengths) = Asked(length) \cup (IF config.full_trace THEN {length} ELSE {})
  BY TruncationLengthsFacts
<1>3. C \subseteq 1..Len(lengths) /\ Len(lengths) \in Nat /\ DOMAIN lengths = 1..Len(lengths)
  BY <1>2 DEF SeqOfInts
<1> HIDE DEF lengths
<1>4. ASSUME NEW k \in C PROVE \E i \in 0..n : lengths[k] = At(i)
  <2>1. lengths[k] \in ToSet(lengths)
    BY <1>3 DEF ToSet
  <2>2. CASE lengths[k] = length
    BY <1>1, <2>2
  <2>3. CASE lengths[k] \in Asked(length)
    <3>1. PICK i \in 1..n : lengths[k] = Resolved(length, config.budgets[i])
      BY <1>1, <2>3 DEF Asked, ToSet
    <3>2. i \in 0..n /\ i # 0
      BY <1>1
    <3> QED
      BY <3>1, <3>2
  <2> QED
    BY <1>2, <2>1, <2>2, <2>3
<1> HIDE DEF At, n
<1> DEFINE f == [k \in C |-> CHOOSE i \in 0..n : lengths[k] = At(i)]
<1>5. f \in [C -> 0..n] /\ \A k \in C : lengths[k] = At(f[k])
  BY <1>4
<1> HIDE DEF f
<1>6. \A k, l \in C : k # l => lengths[k] # lengths[l]
  <2>1. SUFFICES ASSUME NEW k \in C, NEW l \in C, k < l PROVE lengths[k] # lengths[l]
    <3>1. \A k, l \in C : k # l => k < l \/ l < k
      BY <1>3
    <3> QED
      BY <2>1, <3>1
  <2>2. lengths[k] < lengths[l] /\ lengths[k] \in Int /\ lengths[l] \in Int
    BY <1>2, <1>3, <2>1 DEF Rising, SeqOfInts
  <2> QED
    BY <2>2
<1>7. /\ IsFiniteSet(C) /\ Cardinality(C) \in Nat
      /\ IsFiniteSet(0..n) /\ Cardinality(0..n) = n + 1
  <2>1. IsFiniteSet(1..Len(lengths))
    BY <1>3, FS_Interval
  <2>2. IsFiniteSet(C)
    BY <1>3, <2>1, FS_Subset
  <2>3. Cardinality(C) \in Nat
    BY <2>2, FS_CardinalityType
  <2>4. IsFiniteSet(0..n) /\ Cardinality(0..n) = n + 1
    BY <1>1, FS_Interval
  <2> QED
    BY <2>2, <2>3, <2>4
<1>8. \A k, l \in C : f[k] = f[l] => k = l
  BY <1>5, <1>6
<1>9. Cardinality(C) <= Cardinality(0..n)
  BY <1>5, <1>7, <1>8, NoTwoAlike
<1> QED
  BY <1>1, <1>7, <1>9 DEF n

-----------------------------------------------------------------------------
(* The probe reads the predictions of its own trace                        *)

Difference(margin, own, all, none) ==
    margin * Cardinality(all) * Cardinality(none)
    = SumAt(own, all) * Cardinality(none) - SumAt(own, none) * Cardinality(all)

\* A margin is the difference of two means, none of them rounded.
LEMMA ExactMargin ==
    ASSUME ~config.corner, NEW n \in Nat, NEW own \in [1..n -> 0..Unit], NEW right,
           NEW most \in Nat, \A C \in SUBSET (1..n) : Cardinality(C) <= most,
           \A k \in 1..n, d \in 1..most : own[k] % d = 0,
           NEW all, all = {k \in 1..n : right[k] = NumAnswers},
           NEW none, none = {k \in 1..n : right[k] = 0}
    PROVE  /\ all = {} \/ none = {} => Margin(own, right) = 0
           /\ ~(all = {} \/ none = {}) => Difference(Margin(own, right), own, all, none)
<1>1. DOMAIN own = 1..n
  OBVIOUS
<1>2. CASE all = {} \/ none = {}
  <2>1. CASE all = {} /\ none = {}
    BY <1>1, <2>1 DEF Margin
  <2>2. CASE (all = {}) # (none = {})
    BY <1>1, <1>2, <2>2 DEF Margin
  <2>3. (all = {} /\ none = {}) \/ ((all = {}) # (none = {}))
    BY <1>2, Zenon
  <2>4. Margin(own, right) = 0
    BY <2>1, <2>2, <2>3, Zenon
  <2> QED
    BY <1>2, <2>4, Zenon
<1>3. CASE ~(all = {} \/ none = {})
  <2>1. Margin(own, right) = MeanAt(own, all) - MeanAt(own, none)
    BY <1>1, <1>3 DEF Margin
  <2>2. ASSUME NEW C \in SUBSET (1..n), C # {}
        PROVE  /\ SumAt(own, C) \in Int /\ Cardinality(C) \in Nat \ {0} /\ MeanAt(own, C) \in Int
               /\ MeanAt(own, C) * Cardinality(C) = SumAt(own, C)
    <3>1. Unit \in Int /\ own \in [1..n -> Int]
      BY ConfigsAssumption
    <3>2. \A i \in C : 0 <= own[i] /\ own[i] <= Unit
      BY <3>1
    <3>3. /\ SumAt(own, C) \in Int /\ Cardinality(C) \in Nat \ {0} /\ MeanAt(own, C) \in Int
          /\ (\A i \in C : own[i] % Cardinality(C) = 0) =>
                MeanAt(own, C) * Cardinality(C) = SumAt(own, C)
      <4>1. 0 \in Int
        OBVIOUS
      <4> QED
        BY <2>2, <3>1, <3>2, <4>1, SumAtFacts
    <3>4. Cardinality(C) \in 1..most
      BY <3>3
    <3>5. \A i \in C : own[i] % Cardinality(C) = 0
      BY <3>4
    <3> QED
      BY <3>3, <3>5
  <2> DEFINE a == Cardinality(all)
             b == Cardinality(none)
             p == MeanAt(own, all)
             q == MeanAt(own, none)
  <2>3. all \in SUBSET (1..n) /\ none \in SUBSET (1..n)
    OBVIOUS
  <2>4. a \in Int /\ p \in Int /\ p * a = SumAt(own, all)
    <3>1. all # {}
      BY <1>3
    <3>2. a \in Nat \ {0} /\ p \in Int /\ p * a = SumAt(own, all)
      BY <2>2, <2>3, <3>1
    <3> HIDE DEF a, p
    <3> QED
      BY <3>2
  <2>5. b \in Int /\ q \in Int /\ q * b = SumAt(own, none)
    <3>1. none # {}
      BY <1>3
    <3>2. b \in Nat \ {0} /\ q \in Int /\ q * b = SumAt(own, none)
      BY <2>2, <2>3, <3>1
    <3> HIDE DEF b, q
    <3> QED
      BY <3>2
  <2> HIDE DEF a, b, p, q
  <2>6. (p - q) * a * b = (p * a) * b - (q * b) * a
    BY <2>4, <2>5
  <2>7. Margin(own, right) * a * b = SumAt(own, all) * b - SumAt(own, none) * a
    BY <2>1, <2>4, <2>5, <2>6 DEF p, q
  <2> QED
    BY <1>3, <2>7 DEF Difference, a, b
<1> QED
  BY <1>2, <1>3

\* The property, taken apart.
At(s, n) == {k \in DOMAIN traces[s].answers : RightAnswers(traces[s].answers[k]) = n}
Own(s) ==
    [k \in DOMAIN traces[s].answers |->
        confidence[s][Least(TruncationLengths(traces[s].length)[k], ResponseLength)]]
OwnRead(s) ==
    IF At(s, NumAnswers) = {} \/ At(s, 0) = {} THEN margins[s] = 0
    ELSE Difference(margins[s], Own(s), At(s, NumAnswers), At(s, 0))

ReadsOwn ==
    stage \in {"adv", "done"} /\ config.mode = "conf_diff" /\ ~config.corner =>
        \A s \in keep : OwnRead(s)

LEMMA ReadsApart == ReadsOwn => ProbeReadsOwnTrace
BY DEF ReadsOwn, ProbeReadsOwnTrace, OwnRead, At, Own, Difference

LEMMA OwnTraceRead ==
    ASSUME Filtered, BatchInv, GradedInv, NEW conf \in Confidences, AddProbeReward(conf),
           config.mode = "conf_diff", ~config.corner, NEW s \in keep
    PROVE  OwnRead(s)'
<1>1. /\ UNCHANGED <<config, traces, positions, mc, keep>> /\ Graded
      /\ confidence' = conf
  BY DEF AddProbeReward, Graded
<1>2. s \in Samples
  BY <1>1 DEF Filtered, MixedSamples
<1> DEFINE n == Len(positions[s])
           answers == traces[s].answers
           own == Predicted(s, conf)
           most == Len(config.budgets) + 1
           all == At(s, NumAnswers)
           none == At(s, 0)
<1>3. /\ config \in Configs /\ positions \in [Samples -> ActualLengths]
      /\ traces[s].length \in Nat /\ positions[s] = TruncationLengths(traces[s].length)
      /\ DOMAIN answers = 1..n
  BY <1>1, <1>2, GradedFacts
<1>4. mc[s] = [k \in DOMAIN answers |-> RightAnswers(answers[k])]
  BY <1>1, <1>2 DEF GradedInv
<1>5. /\ n \in Nat /\ DOMAIN positions[s] = 1..n /\ own \in SeqOfInts /\ Len(own) = n
      /\ \A k \in 1..n : Least(positions[s][k], ResponseLength) \in 0..ResponseLength
  BY <1>2, <1>3, PredictedType
<1>6. OwnPredictions(s, Predictions(conf)) = own
  BY <1>2, <1>3, OwnPart
<1>7. margins'[s] = ProbeReward(s, own)
  BY <1>2, <1>6 DEF AddProbeReward
<1>8. At(s, NumAnswers)' = all /\ At(s, 0)' = none /\ Own(s)' = own
  <2>1. \A l : (TruncationLengths(l))' = TruncationLengths(l)
    BY <1>1 DEF TruncationLengths
  <2>2. Own(s)' = [k \in DOMAIN traces'[s].answers |->
                     confidence'[s][Least((TruncationLengths(traces[s].length))'[k], ResponseLength)]]
    BY DEF Own, Least
  <2>3. (TruncationLengths(traces[s].length))' = positions[s]
    BY <1>1, <1>3, <2>1
  <2>4. Own(s)' = own
    BY <1>1, <1>3, <1>5, <2>2, <2>3 DEF Predicted
  <2>5. At(s, NumAnswers)' = all /\ At(s, 0)' = none
    BY <1>1 DEF At, RightAnswers, Score
  <2> QED
    BY <2>4, <2>5
<1>9. all = {k \in 1..n : mc[s][k] = NumAnswers} /\ none = {k \in 1..n : mc[s][k] = 0}
  BY <1>3, <1>4 DEF At
<1> HIDE DEF all, none, own
<1>10. IF all = {} \/ none = {} THEN margins'[s] = 0
       ELSE Difference(margins'[s], own, all, none)
  <2>1. CASE own = << >>
    <3>1. n = 0 /\ all = {}
      BY <1>5, <1>9, <2>1
    <3>2. margins'[s] = 0
      BY <1>7, <2>1 DEF ProbeReward
    <3> QED
      BY <3>1, <3>2
  <2>2. CASE own # << >>
    <3>1. margins'[s] = Margin(own, mc[s])
      BY <1>7, <2>2 DEF ProbeReward
    <3>2. most \in Nat /\ \A C \in SUBSET (1..n) : Cardinality(C) <= most
      <4>1. most \in Nat
        BY <1>3, ConfigsAssumption
      <4> QED
        BY <1>3, <4>1, FewPositions
    <3>3. own \in [1..n -> 0..Unit] /\ \A k \in 1..n, d \in 1..most : own[k] % d = 0
      <4>1. own = [k \in 1..n |-> conf[s][Least(positions[s][k], ResponseLength)]]
        BY <1>5 DEF own, Predicted
      <4>2. conf[s] \in [0..ResponseLength -> 0..Unit]
        BY <1>2, ConfigsAssumption
      <4>3. \A p \in 0..ResponseLength, d \in 1..most : conf[s][p] % d = 0
        BY <1>2, <1>3, UnitAssumption
      <4>4. \A k \in 1..n : Least(positions[s][k], ResponseLength) \in 0..ResponseLength
        BY <1>5
      <4> HIDE DEF n
      <4>5. ASSUME NEW k \in 1..n PROVE own[k] \in 0..Unit /\ \A d \in 1..most : own[k] % d = 0
        <5>1. own[k] = conf[s][Least(positions[s][k], ResponseLength)]
          BY <4>1
        <5> QED
          BY <4>2, <4>3, <4>4, <5>1
      <4>6. own \in [1..n -> 0..Unit]
        BY <4>1, <4>5
      <4> QED
        BY <4>5, <4>6
    <3> HIDE DEF most, n
    <3>4. n \in Nat
      BY <1>5
    <3> DEFINE right == mc[s]
    <3>5. all = {k \in 1..n : right[k] = NumAnswers} /\ none = {k \in 1..n : right[k] = 0}
      BY <1>9
    <3> HIDE DEF right
    <3>6. /\ all = {} \/ none = {} => Margin(own, right) = 0
          /\ ~(all = {} \/ none = {}) => Difference(Margin(own, right), own, all, none)
      BY <3>2, <3>3, <3>4, <3>5, ExactMargin
    <3> QED
      BY <3>1, <3>6 DEF right
  <2> QED
    BY <2>1, <2>2
<1> QED
  BY <1>8, <1>10 DEF OwnRead

LEMMA SameRead ==
    ASSUME UNCHANGED <<config, traces, confidence, margins, keep>>,
           stage' \in {"adv", "done"} => stage \in {"adv", "done"}, ReadsOwn
    PROVE  ReadsOwn'
<1>1. \A l : (TruncationLengths(l))' = TruncationLengths(l)
  BY DEF TruncationLengths
<1>2. ASSUME NEW s PROVE OwnRead(s)' = OwnRead(s)
  <2>1. (TruncationLengths(traces[s].length))' = TruncationLengths(traces[s].length)
    BY <1>1
  <2>2. Own(s)' = [k \in DOMAIN traces'[s].answers |->
                     confidence'[s][Least((TruncationLengths(traces[s].length))'[k], ResponseLength)]]
    BY DEF Own, Least
  <2>3. Own(s)' = Own(s)
    BY <2>1, <2>2 DEF Own
  <2>4. At(s, NumAnswers)' = At(s, NumAnswers) /\ At(s, 0)' = At(s, 0)
    BY DEF At, RightAnswers, Score
  <2> QED
    BY <2>3, <2>4 DEF OwnRead
<1> QED
  BY <1>2 DEF ReadsOwn

\* compute_conf_diff_rewards: with any budgets, full trace or not, and any
\* lengths, the reward a kept sample gets from the probe is the mean of its
\* own predictions where all its answers are right less the mean where none
\* is.  The predictions of the batch lie in one sequence, and what precedes a
\* sample's is as long as the truncations of the samples before it.
THEOREM ProbeReadsOwn == Spec => []ProbeReadsOwnTrace
<1> DEFINE Inv == Filtered /\ BatchInv /\ GradedInv /\ ReadsOwn
<1>1. Init => Inv
  <2>1. SUFFICES ASSUME Init PROVE Inv
    OBVIOUS
  <2>2. config \in Configs /\ stage = "generate" /\ traces = << >>
    BY <2>1 DEF Init
  <2>3. 0 < Cardinality(Samples)
    BY SamplesCount, Numbers, ConfigsAssumption DEF Samples
  <2>4. BatchInv
    BY <2>2, <2>3 DEF BatchInv, SeqOfTraces
  <2> QED
    BY <2>2, <2>4 DEF Filtered, Graded, GradedInv, ReadsOwn
<1>2. Inv /\ [Next]_vars => Inv'
  <2>1. SUFFICES ASSUME Inv, [Next]_vars PROVE Inv'
    OBVIOUS
  <2>2. Filtered' /\ BatchInv' /\ GradedInv'
    BY <2>1, FilteredStep, BatchStep, GradedStep
  <2>3. ASSUME NEW conf \in Confidences, AddProbeReward(conf) PROVE ReadsOwn'
    <3>1. config' = config /\ keep' = keep
      BY <2>3 DEF AddProbeReward
    <3>2. config.mode = "conf_diff" /\ ~config.corner => \A s \in keep : OwnRead(s)'
      BY <2>1, <2>3, OwnTraceRead
    <3> QED
      BY <3>1, <3>2 DEF ReadsOwn
  <2>4. CASE ComputeAdvantage \/ UNCHANGED vars
    <3>1. /\ UNCHANGED <<config, traces, confidence, margins, keep>>
          /\ stage' \in {"adv", "done"} => stage \in {"adv", "done"}
      BY <2>4 DEF ComputeAdvantage, vars, step
    <3> QED
      BY <2>1, <2>2, <3>1, SameRead
  <2>5. CASE ComputeRewards
    <3>1. stage' \in {"adv", "done"} => ~(config'.mode = "conf_diff")
      BY <2>5 DEF ComputeRewards
    <3> QED
      BY <2>2, <3>1, Zenon DEF ReadsOwn
  <2>6. CASE NextBatch \/ \E length, natural : Generate(length, natural)
    <3>1. ~(stage' \in {"adv", "done"})
      BY <2>6 DEF NextBatch, Generate
    <3> QED
      BY <2>2, <3>1, Zenon DEF ReadsOwn
  <2> QED
    BY <2>1, <2>2, <2>3, <2>4, <2>5, <2>6 DEF Next
<1>3. Inv => ProbeReadsOwnTrace
  BY ReadsApart
<1> QED
  BY <1>1, <1>2, <1>3, PTL DEF Spec

-----------------------------------------------------------------------------
(* How much the rewards can be                                             *)
\* A share of a value lies where the value does.
LEMMA ShareBetween ==
    ASSUME NEW g \in Nat \ {0}, NEW c \in 0..g, NEW b \in Nat, NEW m \in Int, -b <= m, m <= b
    PROVE  (m * c) \div g \in Int /\ -b <= (m * c) \div g /\ (m * c) \div g <= b
<1> DEFINE y == m * c
<1>1. c \in Int /\ 0 <= c /\ c <= g /\ y \in Int /\ -b \in Int
  OBVIOUS
<1>2. y <= b * c /\ b * c <= b * g /\ b * g = g * b /\ b * c \in Int /\ g * b \in Int
  BY <1>1
<1>3. (-b) * c <= y /\ (-b) * g <= (-b) * c /\ (-b) * g = g * (-b) /\ (-b) * c \in Int /\ g * (-b) \in Int
  BY <1>1
<1> HIDE DEF y
<1>4. g * (-b) <= y /\ y <= g * b
  BY <1>1, <1>2, <1>3
<1>5. y \div g \in Int /\ -b <= y \div g /\ y \div g <= b
  BY <1>1, <1>4, QuotientBetween
<1> QED
  BY <1>5 DEF y

LEMMA MeanBetween ==
    ASSUME NEW n \in Nat \ {0}, NEW seq \in [1..n -> Int], NEW lo \in Int, NEW hi \in Int,
           \A i \in 1..n : lo <= seq[i] /\ seq[i] <= hi
    PROVE  Mean(seq) \in Int /\ lo <= Mean(seq) /\ Mean(seq) <= hi
<1> DEFINE C == 1..n
           sum == Total(seq)
<1>1. Cardinality(C) = n
  BY FS_Interval
<1>2. C \in SUBSET (1..n) /\ (\A i \in C : lo <= seq[i] /\ seq[i] <= hi)
      /\ \A i \in (1..n) \ C : seq[i] = 0
  OBVIOUS
<1> HIDE DEF C, sum
<1>3. n * lo <= sum /\ sum <= n * hi
  <2>1. n \in Nat
    OBVIOUS
  <2>2. Cardinality(C) * lo <= sum /\ sum <= Cardinality(C) * hi
    BY <1>2, <2>1, TotalBetween DEF sum
  <2> QED
    BY <1>1, <2>2
<1>4. sum \in Int
  <2>1. n \in Nat /\ 1 \in Nat \ {0}
    OBVIOUS
  <2> QED
    BY <2>1, TotalWhole DEF sum
<1>5. Len(seq) = n
  OBVIOUS
<1>6. sum \div n \in Int /\ lo <= sum \div n /\ sum \div n <= hi
  BY <1>3, <1>4, QuotientBetween
<1> QED
  BY <1>5, <1>6 DEF Mean, sum

\* No margin of the confidences of a trace is as large as Unit.
LEMMA MarginBetween ==
    ASSUME config \in Configs, NEW n \in Nat, NEW own \in [1..n -> 1..(Unit - 1)], NEW right
    PROVE  /\ Margin(own, right) \in Int
           /\ -(Unit - 1) <= Margin(own, right) /\ Margin(own, right) <= Unit - 1
<1> DEFINE all == {k \in 1..n : right[k] = NumAnswers}
           none == {k \in 1..n : right[k] = 0}
           p == MeanAt(own, all)
           q == MeanAt(own, none)
<1>1. DOMAIN own = 1..n /\ Unit \in Nat \ {0} /\ config.corner \in BOOLEAN
  BY ConfigsAssumption
<1>2. ASSUME NEW C \in SUBSET (1..n), C # {}
      PROVE  MeanAt(own, C) \in Int /\ 1 <= MeanAt(own, C) /\ MeanAt(own, C) <= Unit - 1
  <2>1. /\ own \in [1..n -> Int] /\ 1 \in Int /\ Unit - 1 \in Int
        /\ \A i \in C : 1 <= own[i] /\ own[i] <= Unit - 1
    BY <1>1
  <2> QED
    BY <1>2, <2>1, SumAtFacts
<1>3. all \in SUBSET (1..n) /\ none \in SUBSET (1..n)
  OBVIOUS
<1>4. Margin(own, right) =
        CASE all # {} /\ none # {} -> p - q
          [] all = {} /\ none = {} -> 0
          [] ~config.corner /\ (all = {}) # (none = {}) -> 0
          [] config.corner /\ all # {} /\ none = {} -> p
          [] config.corner /\ all = {} /\ none # {} ->
                (IF config.mode = "conf_diff" THEN Unit ELSE 0) - q
  BY <1>1 DEF Margin
<1> HIDE DEF all, none
<1>5. all # {} => p \in Int /\ 1 <= p /\ p <= Unit - 1
  BY <1>2, <1>3
<1>6. none # {} => q \in Int /\ 1 <= q /\ q <= Unit - 1
  BY <1>2, <1>3
<1> HIDE DEF p, q
<1> DEFINE m == Margin(own, right)
<1> HIDE DEF m
<1>7. CASE all # {} /\ none # {}
  <2>1. m = p - q
    BY <1>4, <1>7 DEF m
  <2> QED
    BY <1>1, <1>5, <1>6, <1>7, <2>1 DEF m
<1>8. CASE all = {} /\ none = {}
  <2>1. m = 0
    BY <1>4, <1>8 DEF m
  <2> QED
    BY <1>1, <2>1 DEF m
<1>9. CASE ~config.corner /\ ((all # {} /\ none = {}) \/ (all = {} /\ none # {}))
  <2>1. m = 0
    BY <1>4, <1>9 DEF m
  <2> QED
    BY <1>1, <2>1 DEF m
<1>10. CASE config.corner /\ all # {} /\ none = {}
  <2>1. m = p
    BY <1>4, <1>10 DEF m
  <2> QED
    BY <1>1, <1>5, <1>10, <2>1 DEF m
<1>11. CASE config.corner /\ all = {} /\ none # {}
  <2>1. m = Unit - q \/ m = 0 - q
    BY <1>4, <1>11 DEF m
  <2> QED
    BY <1>1, <1>6, <1>11, <2>1 DEF m
<1> QED
  BY <1>1, <1>7, <1>8, <1>9, <1>10, <1>11

\* A group's covariance is no more than its size squared.
LEMMA CovarianceBetween ==
    ASSUME correct \in [Samples -> BOOLEAN], NEW s \in Samples
    PROVE  GroupCovariance(s) \in 0..(GroupSize * GroupSize)
<1> DEFINE g == GroupSize
           q == (s - 1) \div g
           right == {t \in Group(s) : correct[t]}
           p == Cardinality(right)
<1>1. g \in Nat /\ g > 1 /\ s \in Int
  BY Numbers DEF Samples
<1>2. q \in Int
  BY <1>1
<1>3. Group(s) \subseteq (q * g + 1)..(q * g + g)
  <2>1. SUFFICES ASSUME NEW t \in Group(s) PROVE t \in (q * g + 1)..(q * g + g)
    OBVIOUS
  <2>2. t \in Int /\ (t - 1) \div g = q
    BY Numbers DEF Group, Samples
  <2> DEFINE e == (t - 1) % g
  <2>3. e \in 0..(g - 1) /\ t - 1 = g * q + e
    BY <1>1, <2>2
  <2> HIDE DEF e, g, q
  <2>4. g * q = q * g /\ q * g \in Int
    BY <1>1, <1>2
  <2> QED
    BY <1>1, <2>2, <2>3, <2>4
<1> HIDE DEF g, q
<1>4. IsFiniteSet((q * g + 1)..(q * g + g)) /\ Cardinality((q * g + 1)..(q * g + g)) = g
  <2> DEFINE x == q * g
  <2>1. x \in Int
    BY <1>1, <1>2
  <2> HIDE DEF x
  <2>2. /\ IsFiniteSet((x + 1)..(x + g))
        /\ Cardinality((x + 1)..(x + g)) = IF x + 1 > x + g THEN 0 ELSE (x + g) - (x + 1) + 1
    BY <1>1, <2>1, FS_Interval
  <2>3. Cardinality((x + 1)..(x + g)) = g
    BY <1>1, <2>1, <2>2
  <2> QED
    BY <2>2, <2>3 DEF x
<1>5. IsFiniteSet(right) /\ p <= g
  <2>1. right \in SUBSET ((q * g + 1)..(q * g + g))
    BY <1>3
  <2> HIDE DEF right
  <2> QED
    BY <1>4, <2>1, FS_Subset
<1>6. p \in Nat
  BY <1>5, FS_CardinalityType
<1>7. GroupCovariance(s) = p * (g - p)
  BY DEF GroupCovariance, g
<1> HIDE DEF p
<1>8. p * (g - p) \in Int /\ 0 <= p * (g - p)
  BY <1>1, <1>5, <1>6
<1>9. p * (g - p) <= g * g
  <2>1. p * (g - p) <= g * (g - p) /\ g * (g - p) <= g * g
    BY <1>1, <1>5, <1>6
  <2>2. g * (g - p) \in Int /\ g * g \in Int
    BY <1>1, <1>6
  <2> QED
    BY <1>8, <2>1, <2>2
<1> QED
  BY <1>1, <1>7, <1>8, <1>9 DEF g

-----------------------------------------------------------------------------
(* Budgets of no weight                                                    *)
LEMMA AnswersRewardType ==
    ASSUME config \in Configs, NEW answers \in [1..NumAnswers -> Outcomes]
    PROVE  AnswersReward(answers) \in Int
<1> DEFINE scores == AnswerScores(answers)
           n == NumAnswers
           Top(r) == \A other \in ToSet(scores) : other <= r
<1>1. n \in Nat \ {0} /\ Unit \in Nat \ {0} /\ config.best \in BOOLEAN
  BY ConfigsAssumption
<1>2. /\ scores \in [1..n -> Int] /\ \A i \in 1..n : scores[i] \in {Unit, 0, -Unit}
  BY <1>1 DEF AnswerScores, Score, Outcomes
<1> HIDE DEF scores
<1>3. ToSet(scores) = {scores[i] : i \in 1..n} /\ scores[1] \in ToSet(scores)
  BY <1>1, <1>2 DEF ToSet
<1>4. ToSet(scores) \subseteq {Unit, 0, -Unit} /\ ToSet(scores) # {}
  BY <1>2, <1>3
<1>5. \E r \in ToSet(scores) : Top(r)
  <2>1. CASE Unit \in ToSet(scores)
    BY <1>1, <1>4, <2>1
  <2>2. CASE Unit \notin ToSet(scores) /\ 0 \in ToSet(scores)
    BY <1>1, <1>4, <2>2
  <2>3. CASE Unit \notin ToSet(scores) /\ 0 \notin ToSet(scores)
    BY <1>1, <1>4, <2>3
  <2> QED
    BY <2>1, <2>2, <2>3
<1>6. AnswersReward(answers) =
        IF config.best THEN CHOOSE r \in ToSet(scores) : Top(r) ELSE Mean(scores)
  BY DEF AnswersReward, scores
<1> HIDE DEF Top
<1>7. CASE config.best
  <2>1. AnswersReward(answers) \in ToSet(scores)
    BY <1>5, <1>6, <1>7
  <2> QED
    BY <1>1, <1>4, <2>1
<1>8. CASE ~config.best
  <2>1. \A i \in 1..n : -Unit <= scores[i] /\ scores[i] <= Unit
    BY <1>1, <1>2
  <2>2. -Unit \in Int /\ Unit \in Int
    BY <1>1
  <2>3. Mean(scores) \in Int
    BY <1>1, <1>2, <2>1, <2>2, MeanBetween
  <2> QED
    BY <1>6, <1>8, <2>3
<1> QED
  BY <1>7, <1>8

LEMMA NothingAggregated ==
    ASSUME config \in Configs, NEW n \in Nat, NEW rs \in [1..n -> Int], \A k \in 1..n : rs[k] = 0
    PROVE  Aggregated(rs) = 0
<1>1. Len(rs) = n /\ config.linear \in BOOLEAN
  BY ConfigsAssumption
<1>2. CASE n = 0
  BY <1>1, <1>2 DEF Aggregated
<1>3. CASE n # 0 /\ config.linear
  <2> DEFINE weighted == [k \in 1..n |-> k * rs[k]]
             d == (n * (n + 1)) \div 2
  <2>1. Aggregated(rs) = Total(weighted) \div d
    BY <1>1, <1>3 DEF Aggregated
  <2>2. weighted \in [1..n -> Int] /\ \A k \in 1..n : weighted[k] = 0
    OBVIOUS
  <2>3. d \in Nat \ {0}
    <3>1. n * (n + 1) >= 2 /\ n * (n + 1) \in Int
      <4>1. n * (n + 1) >= 1 * (n + 1) /\ n >= 1
        BY <1>3
      <4> QED
        BY <4>1
    <3> DEFINE y == n * (n + 1)
    <3>2. y \in Int /\ y >= 2
      BY <3>1
    <3> HIDE DEF y
    <3>3. y \div 2 \in Nat \ {0}
      BY <3>2
    <3> QED
      BY <3>3 DEF y
  <2> HIDE DEF weighted, d
  <2>4. Total(weighted) = n * 0
    <3>1. n \in Nat /\ 0 \in Int
      OBVIOUS
    <3> QED
      BY <2>2, <3>1, TotalOfOne
  <2> QED
    BY <2>1, <2>3, <2>4
<1>4. CASE n # 0 /\ ~config.linear
  <2>1. Total(rs) = n * 0
    <3>1. n \in Nat /\ 0 \in Int
      OBVIOUS
    <3> QED
      BY <3>1, TotalOfOne
  <2>2. Aggregated(rs) = Total(rs) \div n
    BY <1>1, <1>4 DEF Aggregated, Mean
  <2> QED
    BY <1>4, <2>1, <2>2
<1> QED
  BY <1>1, <1>2, <1>3, <1>4

\* When the budgets have no weight, the reward is the natural trace's.
LEMMA OnlyNatural ==
    ASSUME BatchInv, stage # "generate", config.budget_weight = 0, NEW s \in Samples
    PROVE  SequenceReward(s) = NaturalReward(s) /\ NaturalReward(s) \in {Unit, 0, -Unit}
<1> DEFINE answers == traces[s].answers
           n == Len(TruncationLengths(traces[s].length))
           rs == BudgetRewards(s)
<1>1. s \in 1..Len(traces) /\ config \in Configs /\ traces \in Seq(Trace)
  BY SamplesCount DEF BatchInv, SeqOfTraces
<1>2. traces[s] \in Trace
  BY <1>1
<1>3. traces[s].length \in Nat /\ traces[s].natural \in Outcomes
  <2>1. traces[s].length \in Nat /\ traces[s].natural \in UNION {Naturals[t] : t \in Samples}
    BY <1>2 DEF Trace
  <2> QED
    BY <2>1, ConfigsAssumption
<1>4. DOMAIN answers = 1..n /\ n \in Nat
  <2>1. DOMAIN answers = 1..n
    BY <1>1 DEF BatchInv
  <2>2. n \in Nat
    BY <1>1, <1>3, TruncationLengthsFacts DEF SeqOfInts
  <2> QED
    BY <2>1, <2>2
<1>5. \A k \in 1..n : answers[k] \in [1..NumAnswers -> Outcomes]
  <2>1. answers \in UNION {[1..m -> Answers[t]] : m \in Nat, t \in Samples}
    <3> DEFINE Forced == UNION {[1..m -> Answers[t]] : m \in Nat, t \in Samples}
    <3>1. Trace = [length : Nat, natural : UNION {Naturals[t] : t \in Samples}, answers : Forced]
      BY DEF Trace
    <3> HIDE DEF Forced
    <3>2. answers \in Forced
      BY <1>2, <3>1
    <3> QED
      BY <3>2 DEF Forced
  <2>2. PICK m \in Nat, t \in Samples : answers \in [1..m -> Answers[t]]
    BY <2>1
  <2>3. Answers[t] \subseteq [1..NumAnswers -> Outcomes]
    BY <2>2, ConfigsAssumption
  <2> HIDE DEF answers, n
  <2> QED
    BY <1>4, <2>2, <2>3
<1>6. rs \in [1..n -> Int] /\ \A k \in 1..n : rs[k] = 0
  <2>1. \A k \in 1..n : AnswersReward(answers[k]) \in Int
    BY <1>1, <1>5, AnswersRewardType
  <2>2. rs = [k \in 1..n |-> (AnswersReward(answers[k]) * 0) \div 2]
    BY <1>4 DEF BudgetRewards
  <2>3. \A k \in 1..n : (AnswersReward(answers[k]) * 0) \div 2 = 0
    BY <2>1
  <2> HIDE DEF rs, n, answers
  <2> QED
    BY <2>2, <2>3
<1> HIDE DEF rs, n
<1>7. Aggregated(rs) = 0
  BY <1>1, <1>4, <1>6, NothingAggregated
<1>8. NaturalReward(s) \in {Unit, 0, -Unit}
  BY <1>3 DEF NaturalReward, Score, Outcomes
<1>9. ValidLength(s) \in Nat
  BY <1>3, ConfigsAssumption DEF ValidLength, Least
<1>10. CASE ValidLength(s) = 0
  BY <1>10 DEF SequenceReward, NaturalReward
<1>11. CASE ValidLength(s) # 0
  <2>1. SequenceReward(s) = 0 + NaturalReward(s)
    BY <1>7, <1>11 DEF SequenceReward, rs
  <2>2. NaturalReward(s) \in Int
    BY <1>8, ConfigsAssumption
  <2> QED
    BY <1>8, <2>1, <2>2
<1> QED
  BY <1>8, <1>10, <1>11

-----------------------------------------------------------------------------
(* A right trace is rewarded more than a wrong one                         *)

\* The probe's weight is at most one half, the outcome's being one, where its
\* reward counts and is no ranking.
Moderate ==
    \A c \in Configs :
        c.estimator = "c2gspg" \/ c.mode \in {"off", "ranking_reward"} \/ c.probe_weight <= 1
\* A confidence is a sigmoid: it is neither 0 nor 1.
Unsaturated ==
    \A conf \in Confidences, s \in Samples, p \in 0..ResponseLength : conf[s][p] \in 1..(Unit - 1)

Conf == {"conf_diff", "conf_diff_v1", "conf_margin_covar"}

\* How far the probe's reward goes, in each mode.
Bounded(s, m) ==
    /\ m \in Int
    /\ config.mode = "accuracy" => 0 <= m /\ m <= Unit
    /\ config.mode \in Conf => -(Unit - 1) <= m /\ m <= Unit - 1
    /\ config.mode = "ranking_reward" => IF correct[s] THEN 0 <= m ELSE m <= 0

LEMMA RewardBounded ==
    ASSUME Unsaturated, config \in Configs, config.mode # "off", correct \in [Samples -> BOOLEAN],
           positions \in [Samples -> ActualLengths],
           NEW conf \in Confidences, NEW s \in Samples
    PROVE  Bounded(s, ProbeReward(s, Predicted(s, conf)))
<1> DEFINE own == Predicted(s, conf)
           n == Len(positions[s])
           m == ProbeReward(s, own)
<1>1. /\ n \in Nat /\ DOMAIN positions[s] = 1..n /\ own \in SeqOfInts /\ Len(own) = n
      /\ \A k \in 1..n : Least(positions[s][k], ResponseLength) \in 0..ResponseLength
  BY PredictedType
<1>2. config.mode \in Modes /\ Unit \in Nat \ {0} /\ correct[s] \in BOOLEAN
  BY ConfigsAssumption
<1>3. own \in [1..n -> 1..(Unit - 1)]
  <2>1. own = [k \in 1..n |-> conf[s][Least(positions[s][k], ResponseLength)]]
    BY <1>1 DEF Predicted
  <2>2. \A p \in 0..ResponseLength : conf[s][p] \in 1..(Unit - 1)
    BY DEF Unsaturated
  <2> HIDE DEF own, n
  <2> QED
    BY <1>1, <2>1, <2>2
<1> HIDE DEF own, n
<1>4. CASE own = << >>
  <2>1. m = 0
    BY <1>4 DEF ProbeReward
  <2> HIDE DEF m
  <2>2. Bounded(s, m)
    BY <1>2, <2>1 DEF Bounded
  <2> QED
    BY <2>2 DEF m, own
<1>5. CASE own # << >> /\ config.mode = "accuracy"
  <2> DEFINE hits == [k \in 1..n |->
                        IF (2 * own[k] > Unit) = (2 * mc[s][k] > NumAnswers) THEN Unit ELSE 0]
  <2>1. m = Mean(hits)
    BY <1>1, <1>3, <1>5 DEF ProbeReward, AccuracyReward
  <2>2. hits \in [1..n -> Int] /\ \A k \in 1..n : 0 <= hits[k] /\ hits[k] <= Unit
    BY <1>2
  <2>3. n \in Nat \ {0}
    BY <1>1, <1>5 DEF SeqOfInts
  <2> HIDE DEF hits, m
  <2>4. 0 \in Int /\ Unit \in Int
    BY <1>2
  <2>5. m \in Int /\ 0 <= m /\ m <= Unit
    BY <2>1, <2>2, <2>3, <2>4, MeanBetween
  <2>6. Bounded(s, m)
    BY <1>5, <2>5 DEF Bounded, Conf
  <2> QED
    BY <2>6 DEF m, own
<1>6. CASE own # << >> /\ config.mode = "ranking_reward"
  <2> DEFINE half == Unit \div 2
  <2>1. half \in Nat /\ half <= Unit
    BY <1>2
  <2>2. m = RankingReward(s, own)
    BY <1>6 DEF ProbeReward
  <2>3. m = IF correct[s] THEN (IF Mean(own) > half THEN Unit ELSE half)
                          ELSE (IF Mean(own) > half THEN -Unit ELSE -half)
    BY <2>2 DEF RankingReward
  <2> HIDE DEF half, m
  <2>4. m \in Int /\ (correct[s] => 0 <= m) /\ (~correct[s] => m <= 0)
    BY <1>2, <2>1, <2>3
  <2>5. Bounded(s, m)
    BY <1>2, <1>6, <2>4 DEF Bounded, Conf
  <2> QED
    BY <2>5 DEF m, own
<1> DEFINE margin == Margin(own, mc[s])
<1>7. margin \in Int /\ -(Unit - 1) <= margin /\ margin <= Unit - 1
  BY <1>1, <1>3, MarginBetween
<1>8. CASE own # << >> /\ config.mode \in {"conf_diff", "conf_diff_v1"}
  <2>1. m = margin
    BY <1>8 DEF ProbeReward
  <2> HIDE DEF m, margin
  <2>2. Bounded(s, m)
    BY <1>7, <1>8, <2>1 DEF Bounded, Conf
  <2> QED
    BY <2>2 DEF m, own
<1>9. CASE own # << >> /\ config.mode = "conf_margin_covar"
  <2> DEFINE g == GroupSize * GroupSize
             c == GroupCovariance(s)
             b == Unit - 1
  <2>1. m = (margin * c) \div g
    BY <1>9 DEF ProbeReward
  <2>2. g \in Nat \ {0}
    BY Numbers
  <2>3. c \in 0..g
    BY CovarianceBetween
  <2>4. b \in Nat
    BY <1>2
  <2>5. margin \in Int /\ -b <= margin /\ margin <= b
    BY <1>7
  <2> HIDE DEF g, c, b, margin, m
  <2>6. m \in Int /\ -b <= m /\ m <= b
    BY <2>1, <2>2, <2>3, <2>4, <2>5, ShareBetween
  <2>7. Bounded(s, m)
    BY <1>9, <2>6 DEF Bounded, Conf, b
  <2> QED
    BY <2>7 DEF m, own
<1> QED
  BY <1>2, <1>4, <1>5, <1>6, <1>8, <1>9 DEF Modes, own

\* Before the probe's reward comes in, and after.
Bare ==
    stage = "probe" /\ config.budget_weight = 0 =>
        /\ config.mode # "off"
        /\ \A s \in Samples : rewards[s] = NaturalReward(s)
Ranked ==
    stage \in {"adv", "done"} /\ config.budget_weight = 0 =>
        /\ \A s \in Samples : rewards[s] \in Int
        /\ config.estimator # "c2gspg" =>
              \A s, t \in Samples : correct[s] /\ ~correct[t] => rewards[s] > rewards[t]

LEMMA RankedByGrading ==
    ASSUME BatchInv, ComputeRewards PROVE Bare' /\ Ranked'
<1>1. UNCHANGED <<config, traces>> /\ stage = "reward" /\ stage' \in {"probe", "adv"}
      /\ (stage' = "probe" => config.mode # "off")
  BY DEF ComputeRewards
<1>2. \A s : (NaturalReward(s))' = NaturalReward(s)
  BY <1>1 DEF NaturalReward, ValidLength
<1>3. SUFFICES ASSUME config.budget_weight = 0
               PROVE  /\ \A s \in Samples : rewards'[s] = NaturalReward(s) /\ rewards'[s] \in Int
                      /\ \A s, t \in Samples :
                            correct'[s] /\ ~correct'[t] => rewards'[s] > rewards'[t]
  BY <1>1, <1>2 DEF Bare, Ranked, Samples
<1>4. ASSUME NEW s \in Samples
      PROVE  /\ rewards'[s] = NaturalReward(s) /\ rewards'[s] \in Int
             /\ correct'[s] = (NaturalReward(s) > 0)
  <2>1. SequenceReward(s) = NaturalReward(s) /\ NaturalReward(s) \in {Unit, 0, -Unit}
    BY <1>1, <1>3, OnlyNatural
  <2>2. rewards'[s] = SequenceReward(s) /\ correct'[s] = (NaturalReward(s) > 0)
    BY DEF ComputeRewards
  <2>3. Unit \in Int
    BY ConfigsAssumption
  <2> QED
    BY <2>1, <2>2, <2>3
<1>5. ASSUME NEW s \in Samples, NEW t \in Samples, correct'[s], ~correct'[t]
      PROVE  rewards'[s] > rewards'[t]
  <2>1. /\ rewards'[s] = NaturalReward(s) /\ rewards'[s] \in Int /\ NaturalReward(s) > 0
        /\ rewards'[t] = NaturalReward(t) /\ rewards'[t] \in Int /\ ~(NaturalReward(t) > 0)
    BY <1>4, <1>5
  <2> QED
    BY <2>1
<1> QED
  BY <1>4, <1>5

\* What the probe adds does not bridge the distance between two outcomes.
LEMMA ProbeKeepsOrder ==
    ASSUME config \in Configs, config.mode # "off",
           config.mode # "ranking_reward" => config.probe_weight <= 1,
           NEW s \in Samples, NEW t \in Samples, correct[s] = TRUE, correct[t] = FALSE,
           NEW a \in Int, NEW b \in Int, Bounded(s, a), Bounded(t, b)
    PROVE  LET x == (a * config.probe_weight) \div 2
               y == (b * config.probe_weight) \div 2
           IN x \in Int /\ y \in Int /\ Unit + x > y
<1> DEFINE w == config.probe_weight
           x == (a * w) \div 2
           y == (b * w) \div 2
<1>1. w \in Nat /\ config.mode \in Modes /\ Unit \in Nat \ {0}
  BY ConfigsAssumption
<1>2. x \in Int /\ y \in Int
  BY <1>1
<1>3. CASE config.mode = "ranking_reward"
  <2>1. 0 <= a /\ b <= 0
    BY <1>3 DEF Bounded
  <2>2. a * w >= 0 /\ b * w <= 0 /\ a * w \in Int /\ b * w \in Int
    BY <1>1, <2>1
  <2> DEFINE p == a * w
             q == b * w
  <2>3. p >= 0 /\ q <= 0 /\ p \in Int /\ q \in Int
    BY <2>2
  <2> HIDE DEF p, q
  <2>4. p \div 2 >= 0 /\ q \div 2 <= 0 /\ p \div 2 \in Int /\ q \div 2 \in Int
    BY <2>3
  <2>5. Unit + (p \div 2) > q \div 2
    BY <1>1, <2>4
  <2> QED
    BY <1>2, <2>5 DEF p, q
<1>4. CASE config.mode # "ranking_reward"
  <2>1. w = 0 \/ w = 1
    BY <1>1, <1>4
  <2>2. \/ 0 <= a /\ b <= Unit
        \/ -(Unit - 1) <= a /\ b <= Unit - 1
    BY <1>1, <1>4 DEF Bounded, Conf, Modes
  <2>3. CASE w = 0
    <3>1. x = 0 /\ y = 0
      BY <2>3
    <3> QED
      BY <1>1, <1>2, <3>1
  <2>4. CASE w = 1
    <3>1. x = a \div 2 /\ y = b \div 2
      BY <2>4
    <3> HIDE DEF x, y
    <3>2. Unit + x > y
      BY <1>1, <2>2, <3>1
    <3> QED
      BY <1>2, <3>2 DEF x, y
  <2> QED
    BY <2>1, <2>3, <2>4
<1> QED
  BY <1>3, <1>4

LEMMA RankedByProbe ==
    ASSUME Moderate, Unsaturated, Filtered, BatchInv, GradedInv, Bare,
           NEW conf \in Confidences, AddProbeReward(conf)
    PROVE  Ranked'
<1>1. /\ UNCHANGED <<config, correct, keep>> /\ Graded /\ stage = "probe"
      /\ margins' = [s \in Samples |->
                        IF s \in keep \/ config.mode = "accuracy"
                        THEN ProbeReward(s, OwnPredictions(s, Predictions(conf))) ELSE 0]
      /\ rewards' = [s \in Samples |-> rewards[s] + (margins'[s] * config.probe_weight) \div 2]
  BY DEF AddProbeReward, Graded
<1>2. SUFFICES ASSUME config.budget_weight = 0
               PROVE  /\ \A s \in Samples : rewards'[s] \in Int
                      /\ \A s, t \in Samples :
                            config.estimator # "c2gspg" /\ correct[s] /\ ~correct[t]
                                => rewards'[s] > rewards'[t]
  BY <1>1 DEF Ranked, Samples
<1>3. /\ config \in Configs /\ positions \in [Samples -> ActualLengths]
      /\ correct \in [Samples -> BOOLEAN] /\ config.mode # "off"
      /\ Unit \in Nat \ {0} /\ config.probe_weight \in Nat /\ config.mode \in Modes
  BY <1>1, <1>2, GradedFacts, ConfigsAssumption DEF Filtered, Bare
<1>4. ASSUME NEW s \in Samples
      PROVE  margins'[s] \in Int /\ Bounded(s, margins'[s])
  <2> DEFINE m == ProbeReward(s, Predicted(s, conf))
  <2>1. Bounded(s, m)
    BY <1>3, RewardBounded
  <2>2. margins'[s] = m \/ (margins'[s] = 0 /\ config.mode # "accuracy")
    <3>1. OwnPredictions(s, Predictions(conf)) = Predicted(s, conf)
      BY <1>3, OwnPart
    <3>2. margins'[s] = IF s \in keep \/ config.mode = "accuracy" THEN m ELSE 0
      BY <1>1, <3>1
    <3> QED
      BY <3>2
  <2> HIDE DEF m
  <2>3. Bounded(s, 0)
    <3>1. correct[s] \in BOOLEAN
      BY <1>3
    <3> QED
      BY <1>3, <3>1 DEF Bounded
  <2>4. Bounded(s, margins'[s])
    BY <2>1, <2>2, <2>3
  <2> QED
    BY <2>4 DEF Bounded
<1>5. ASSUME NEW s \in Samples
      PROVE  /\ rewards[s] \in {Unit, 0, -Unit} /\ (correct[s] <=> rewards[s] = Unit)
             /\ correct[s] \in BOOLEAN
  <2>1. NaturalReward(s) \in {Unit, 0, -Unit}
    BY <1>1, <1>2, OnlyNatural
  <2>2. rewards[s] = NaturalReward(s) /\ correct[s] = (NaturalReward(s) > 0)
    BY <1>1, <1>2 DEF Bare, GradedInv
  <2> QED
    BY <1>3, <2>1, <2>2
<1> DEFINE x(s) == (margins'[s] * config.probe_weight) \div 2
<1>6. \A s \in Samples : x(s) \in Int /\ rewards'[s] = rewards[s] + x(s)
  BY <1>1, <1>3, <1>4
<1>7. \A s \in Samples : rewards'[s] \in Int
  <2>1. \A s \in Samples : rewards[s] \in Int
    BY <1>3, <1>5
  <2> HIDE DEF x
  <2> QED
    BY <1>6, <2>1
<1>8. ASSUME NEW s \in Samples, NEW t \in Samples, config.estimator # "c2gspg",
             correct[s], ~correct[t]
      PROVE  rewards'[s] > rewards'[t]
  <2>1. rewards[s] = Unit /\ rewards[t] \in Int /\ rewards[t] <= 0
    BY <1>3, <1>5, <1>8
  <2>2. correct[s] = TRUE /\ correct[t] = FALSE
    BY <1>5, <1>8
  <2>3. config.mode # "ranking_reward" => config.probe_weight <= 1
    BY <1>3, <1>8 DEF Moderate
  <2>4. x(s) \in Int /\ x(t) \in Int /\ Unit + x(s) > x(t)
    BY <1>3, <1>4, <2>2, <2>3, ProbeKeepsOrder
  <2> HIDE DEF x
  <2> QED
    BY <1>3, <1>6, <2>1, <2>4
<1> QED
  BY <1>7, <1>8

-----------------------------------------------------------------------------
(* A right trace has the higher advantage                                  *)

\* The members of a group are compared with the same sum.
LEMMA CenteredKeepsOrder ==
    ASSUME NEW s \in Samples, NEW t \in Group(s), NEW value \in [Samples -> Int],
           ValidLength(s) # 0, ValidLength(t) # 0, value[s] > value[t]
    PROVE  Centered(s, value) > Centered(t, value)
<1> DEFINE seq == [i \in 1..GroupSize |-> value[((s - 1) \div GroupSize) * GroupSize + i]]
           all == Total(seq)
           g == GroupSize
<1>1. t \in Samples /\ (t - 1) \div GroupSize = (s - 1) \div GroupSize
  BY DEF Group
<1>2. g \in Nat \ {0}
  BY Numbers
<1>3. \A i \in 1..GroupSize : seq[i] \in Int
  <2>1. \A i \in 1..GroupSize : Place(s, i) \in Samples
    BY PlaceInGroup, GroupOfMember
  <2> QED
    BY <2>1 DEF Place
<1>4. seq \in [1..GroupSize -> Int]
  BY <1>3
<1>5. Centered(s, value) = g * value[s] - all /\ Centered(t, value) = g * value[t] - all
  BY <1>1 DEF Centered
<1> HIDE DEF seq
<1>6. all \in Int
  <2>1. GroupSize \in Nat /\ 1 \in Nat \ {0}
    BY Numbers
  <2> QED
    BY <1>4, <2>1, TotalWhole
<1>7. value[s] \in Int /\ value[t] \in Int
  BY <1>1
<1> DEFINE p == value[s]
           q == value[t]
<1> HIDE DEF g, all, p, q
<1>8. p \in Int /\ q \in Int /\ p > q
  BY <1>7 DEF p, q
<1>9. g * p > g * q /\ g * p \in Int /\ g * q \in Int
  <2>1. g * p >= g * (q + 1) /\ g * (q + 1) = g * q + g
    BY <1>2, <1>8
  <2>2. g * p \in Int /\ g * q \in Int
    BY <1>2, <1>8
  <2> QED
    BY <1>2, <2>1, <2>2
<1>10. g * p - all > g * q - all
  BY <1>6, <1>9
<1> QED
  BY <1>5, <1>10 DEF p, q

LEMMA RightAhead ==
    ASSUME Filtered, BatchInv, GradedInv, Ranked, ComputeAdvantage
    PROVE  RightBeatsWrong'
<1>1. UNCHANGED <<config, traces, correct, keep>> /\ stage = "adv" /\ Graded
  BY DEF ComputeAdvantage, Graded
<1>2. \A s : (ValidLength(s))' = ValidLength(s)
  BY <1>1 DEF ValidLength
<1>3. SUFFICES ASSUME config.natural, config.budget_weight = 0, ~config.kl,
                      NEW s \in Samples, NEW t \in Group(s), correct[s], ~correct[t],
                      ValidLength(t) > 0
               PROVE  advantages'[s] > advantages'[t]
  BY <1>1, <1>2 DEF RightBeatsWrong, Group, Samples
<1>4. t \in Samples /\ s \in Group(s) /\ Group(t) = Group(s)
  BY GroupOfMember DEF Group
<1>5. correct \in [Samples -> BOOLEAN] /\ correct[s] = TRUE /\ correct[t] = FALSE
  BY <1>1, <1>3, <1>4 DEF Filtered
<1>6. s \in keep /\ t \in keep
  <2>1. {correct[u] : u \in Group(s)} = BOOLEAN
    <3>1. \A u \in Group(s) : u \in Samples /\ correct[u] \in BOOLEAN
      BY <1>5, GroupOfMember
    <3>2. TRUE \in {correct[u] : u \in Group(s)} /\ FALSE \in {correct[u] : u \in Group(s)}
      BY <1>4, <1>5
    <3> QED
      BY <3>1, <3>2
  <2>2. Mixed(s, correct) /\ Mixed(t, correct)
    BY <1>4, <2>1 DEF Mixed
  <2>3. s \in MixedSamples /\ t \in MixedSamples
    BY <1>4, <2>2 DEF MixedSamples
  <2> QED
    BY <1>1, <1>4, <2>3 DEF Filtered
<1>7. ValidLength(s) # 0 /\ ValidLength(t) # 0
  <2>1. NaturalReward(s) > 0
    BY <1>1, <1>5 DEF GradedInv
  <2>2. ValidLength(s) > 0
    BY <2>1 DEF NaturalReward
  <2>3. \A u \in Samples : ValidLength(u) \in Int
    BY <1>1, GradedFacts, ConfigsAssumption DEF ValidLength, Least
  <2> QED
    BY <1>3, <1>4, <2>2, <2>3
<1>8. /\ \A u \in Samples : rewards[u] \in Int
      /\ config.estimator # "c2gspg" => rewards[s] > rewards[t]
  BY <1>1, <1>3, <1>4 DEF Ranked
<1> DEFINE score == [u \in Samples |-> TokenLevelScore(u) - Nobody(0)[u]]
           value == IF config.estimator = "c2gspg" THEN Labels ELSE score
<1>9. advantages' = [u \in Samples |-> Centered(u, value)]
  BY <1>3 DEF ComputeAdvantage
<1>10. score \in [Samples -> Int] /\ (config.estimator # "c2gspg" => score[s] > score[t])
  <2>1. \A u \in Samples : score[u] = IF u \in keep THEN rewards[u] ELSE 0
    BY <1>8 DEF TokenLevelScore, Nobody
  <2>2. \A u \in Samples : score[u] \in Int
    BY <1>8, <2>1
  <2>3. score \in [Samples -> Int]
    BY <2>2
  <2> HIDE DEF score
  <2> QED
    BY <1>4, <1>6, <1>8, <2>1, <2>3
<1>11. Labels \in [Samples -> Int] /\ Labels[s] > Labels[t]
  BY <1>4, <1>5 DEF Labels
<1> HIDE DEF score
<1>12. value \in [Samples -> Int] /\ value[s] > value[t]
  BY <1>10, <1>11
<1> HIDE DEF value
<1>13. Centered(s, value) > Centered(t, value)
  BY <1>7, <1>12, CenteredKeepsOrder
<1> QED
  BY <1>4, <1>9, <1>13

\* The auxiliary rewards never turn the outcome round: with any number of
\* prompts and rollouts, any budgets, filter and estimator, a right trace has
\* a higher advantage than a wrong one of its prompt, when the budgets have no
\* weight of their own, the probe's weight is at most one half (or its reward
\* a ranking, or the labels alone count) and its confidences lie strictly
\* between 0 and 1.  A margin is then less than one, and the filter keeps the
\* two of them or all.
THEOREM RightWins ==
    ASSUME Moderate, Unsaturated
    PROVE  Spec => []RightBeatsWrong
<1> DEFINE Inv == Filtered /\ BatchInv /\ GradedInv /\ Bare /\ Ranked /\ RightBeatsWrong
<1>1. Init => Inv
  <2>1. SUFFICES ASSUME Init PROVE Inv
    OBVIOUS
  <2>2. config \in Configs /\ stage = "generate" /\ traces = << >>
    BY <2>1 DEF Init
  <2>3. 0 < Cardinality(Samples)
    BY SamplesCount, Numbers, ConfigsAssumption DEF Samples
  <2>4. BatchInv
    BY <2>2, <2>3 DEF BatchInv, SeqOfTraces
  <2> QED
    BY <2>2, <2>4 DEF Filtered, Graded, GradedInv, Bare, Ranked, RightBeatsWrong
<1>2. Inv /\ [Next]_vars => Inv'
  <2>1. SUFFICES ASSUME Inv, [Next]_vars PROVE Inv'
    OBVIOUS
  <2>2. Filtered' /\ BatchInv' /\ GradedInv'
    BY <2>1, FilteredStep, BatchStep, GradedStep
  <2>3. CASE ComputeRewards
    <3>1. Bare' /\ Ranked'
      BY <2>1, <2>3, RankedByGrading
    <3>2. stage' # "done"
      BY <2>3 DEF ComputeRewards
    <3> QED
      BY <2>2, <3>1, <3>2 DEF RightBeatsWrong
  <2>4. CASE \E conf \in Confidences : AddProbeReward(conf)
    <3>1. stage' = "adv"
      BY <2>4 DEF AddProbeReward
    <3>2. Ranked'
      BY <2>1, <2>4, RankedByProbe
    <3> QED
      BY <2>2, <3>1, <3>2 DEF Bare, RightBeatsWrong
  <2>5. CASE ComputeAdvantage
    <3>1. UNCHANGED <<config, correct, rewards>> /\ stage = "adv" /\ stage' = "done"
      BY <2>5 DEF ComputeAdvantage
    <3>2. Bare' /\ Ranked'
      BY <2>1, <3>1 DEF Bare, Ranked, Samples
    <3>3. RightBeatsWrong'
      BY <2>1, <2>5, RightAhead
    <3> QED
      BY <2>2, <3>2, <3>3
  <2>6. CASE NextBatch \/ \E length, natural : Generate(length, natural)
    <3>1. stage' \in {"generate", "reward"}
      BY <2>6 DEF NextBatch, Generate
    <3> QED
      BY <2>2, <3>1 DEF Bare, Ranked, RightBeatsWrong
  <2>7. CASE UNCHANGED vars
    <3>1. UNCHANGED <<config, stage, traces, correct, rewards, advantages>>
      BY <2>7 DEF vars, step
    <3>2. \A s : (NaturalReward(s))' = NaturalReward(s) /\ (ValidLength(s))' = ValidLength(s)
      BY <3>1 DEF NaturalReward, ValidLength
    <3>3. Bare' /\ Ranked'
      BY <2>1, <3>1, <3>2 DEF Bare, Ranked, Samples
    <3>4. RightBeatsWrong'
      BY <2>1, <3>1, <3>2 DEF RightBeatsWrong, Group, Samples
    <3> QED
      BY <2>2, <3>3, <3>4
  <2> QED
    BY <2>1, <2>3, <2>4, <2>5, <2>6, <2>7 DEF Next
<1>3. Inv => RightBeatsWrong
  OBVIOUS
<1> QED
  BY <1>1, <1>2, <1>3, PTL DEF Spec
=============================================================================
