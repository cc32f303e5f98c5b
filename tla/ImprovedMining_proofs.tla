------------------------ MODULE ImprovedMining_proofs ------------------------
(***************************************************************************)
(* Proofs that the improved gas price grows with the content length and    *)
(* the improved reward with the validation score, for every set of         *)
(* lengths, difficulties and scores the constants allow.                   *)
(***************************************************************************)
EXTENDS ImprovedMining, TLAPS

\* Every call has arguments of the caller's sets.
LEMMA RequestsInvariant == Spec => [](call \in Requests)
<1>1. Init => call \in Requests
  BY DEF Init
<1>2. call \in Requests /\ [Next]_call => (call \in Requests)'
  BY DEF Next, Call, Requests, Inputs
<1>. QED
  BY <1>1, <1>2, PTL DEF Spec

\* The tiers of ContentCost join up: it never falls as the length grows.
LEMMA ContentCostMonotone ==
  ASSUME NEW a \in Nat, NEW b \in Nat, a <= b
  PROVE  ContentCost(a) <= ContentCost(b)
BY DEF ContentCost

\* The difficulty multiplier is positive.
LEMMA GasMultiplierPositive ==
  ASSUME NEW d
  PROVE  GasMultiplier(d) \in {10, 15, 20, 30}
BY DEF GasMultiplier, GasMultipliers

\* Gas is monotone in the length at a fixed difficulty.
LEMMA GasMonotone ==
  ASSUME NEW a \in Nat, NEW b \in Nat, a <= b, NEW d
  PROVE  calculate_improved_gas_pricing(a, d).total_gas
           <= calculate_improved_gas_pricing(b, d).total_gas
<1>1. ContentCost(a) \in Nat /\ ContentCost(b) \in Nat
  BY DEF ContentCost
<1>2. ContentCost(a) \div 10 <= ContentCost(b) \div 10
  BY <1>1, ContentCostMonotone
<1>3. GasMultiplier(d) \in {10, 15, 20, 30}
  BY GasMultiplierPositive
<1>4. (ContentCost(a) \div 10) * GasMultiplier(d) <= (ContentCost(b) \div 10) * GasMultiplier(d)
  BY <1>1, <1>2, <1>3
<1>. QED
  BY <1>1, <1>3, <1>4 DEF calculate_improved_gas_pricing, base_fee

\* A longer content at the same difficulty never costs less gas, for
\* every set of lengths, difficulties and scores (GasNeverFallsWithLength).
THEOREM GasNeverFallsWithLengthThm == Spec => GasNeverFallsWithLength
<1>1. call \in Requests /\ [Next]_call
        => [call' = [call EXCEPT !.length = call'.length] /\ call'.length >= call.length
            => Gas(call') >= Gas(call)]_call
  <2> SUFFICES ASSUME call \in Requests, [Next]_call,
                      call' = [call EXCEPT !.length = call'.length],
                      call'.length >= call.length
               PROVE  Gas(call') >= Gas(call)
    OBVIOUS
  <2>1. call.length \in Nat /\ call'.length \in Nat
    BY ArgumentsAssumption DEF Next, Call, Requests, Inputs
  <2>2. call'.difficulty = call.difficulty
    BY DEF Requests
  <2>. QED
    BY <2>1, <2>2, GasMonotone DEF Gas
<1>. QED
  BY <1>1, RequestsInvariant, PTL DEF Spec, GasNeverFallsWithLength

\* The scarcity bonus never falls as the score grows.
LEMMA ScarcityBonusMonotone ==
  ASSUME NEW a \in Int, NEW b \in Int, a <= b
  PROVE  /\ ScarcityBonus(a) \in {10, 12, 15}
         /\ ScarcityBonus(a) <= ScarcityBonus(b)
BY DEF ScarcityBonus

\* The base reward of a difficulty is positive.
LEMMA BaseRewardPositive ==
  ASSUME NEW d
  PROVE  BaseReward(d) \in Nat \ {0}
BY DEF BaseReward, BaseRewards

\* The reward is monotone in the score at a fixed difficulty.
LEMMA RewardMonotone ==
  ASSUME NEW a \in Nat, NEW b \in Nat, a <= b, NEW d
  PROVE  calculate_improved_rewards(d, a).actual_reward
           <= calculate_improved_rewards(d, b).actual_reward
<1> DEFINE r == BaseReward(d)
           ba == ScarcityBonus(a)
           bb == ScarcityBonus(b)
<1>1. r \in Nat \ {0} /\ ba \in Nat /\ bb \in Nat /\ ba <= bb
  BY BaseRewardPositive, ScarcityBonusMonotone
<1>2. r * a \in Nat /\ r * a <= r * b
  BY <1>1
<1>3. (r * a) * ba <= (r * b) * ba
  BY <1>1, <1>2
<1>4. (r * b) * ba <= (r * b) * bb
  BY <1>1, <1>2
<1>. QED
  BY <1>3, <1>4, <1>1, <1>2 DEF calculate_improved_rewards

\* A higher validation score at the same difficulty never earns a smaller
\* reward, across the bonus steps at 80 and 90 (RewardNeverFallsWithScore).
THEOREM RewardNeverFallsWithScoreThm == Spec => RewardNeverFallsWithScore
<1>1. call \in Requests /\ [Next]_call
        => [call' = [call EXCEPT !.score = call'.score] /\ call'.score >= call.score
            => Reward(call') >= Reward(call)]_call
  <2> SUFFICES ASSUME call \in Requests, [Next]_call,
                      call' = [call EXCEPT !.score = call'.score],
                      call'.score >= call.score
               PROVE  Reward(call') >= Reward(call)
    OBVIOUS
  <2>1. call.score \in Nat /\ call'.score \in Nat
    BY ArgumentsAssumption DEF Next, Call, Requests, Inputs
  <2>2. call'.difficulty = call.difficulty
    BY DEF Requests
  <2>. QED
    BY <2>1, <2>2, RewardMonotone DEF Reward
<1>. QED
  BY <1>1, RequestsInvariant, PTL DEF Spec, RewardNeverFallsWithScore

\* Every call returns a gas and a reward that are natural numbers, for
\* every length, difficulty and score.
THEOREM TypeCorrect == Spec => []TypeOK
<1>1. ASSUME NEW req \in Requests PROVE Gas(req) \in Nat /\ Reward(req) \in Nat
  <2>0. req.length \in Lengths /\ req.score \in Scores
    BY Zenon DEF Requests
  <2>1. req.length \in Nat
    BY <2>0, ArgumentsAssumption, Zenon
  <2>6. req.score \in 0..100
    BY <2>0, ArgumentsAssumption, Zenon
  <2>2. ContentCost(req.length) \in Nat
    BY <2>1 DEF ContentCost
  <2>3. Gas(req) \in Nat
    BY <2>2, GasMultiplierPositive DEF Gas, calculate_improved_gas_pricing, base_fee
  <2>4. ScarcityBonus(req.score) \in {10, 12, 15}
    BY <2>6, ScarcityBonusMonotone
  <2>5. Reward(req) \in Nat
    BY <2>6, <2>4, BaseRewardPositive DEF Reward, calculate_improved_rewards
  <2>. QED
    BY <2>3, <2>5
<1>2. call \in Requests => TypeOK
  BY <1>1 DEF TypeOK
<1>. QED
  BY <1>2, RequestsInvariant, PTL
====
