--------------------------- MODULE ImprovedMining ---------------------------
(***************************************************************************)
(* ImprovedTOSAIMiningDemo of ai_miner/improved_ai_mining_demo.py: the     *)
(* tiered gas pricing and the reward model, in nanoTOS.  Multipliers are   *)
(* held in tenths.  The gas is exact (every content cost is a multiple of  *)
(* 50_000, so content_cost * 1.5 is exact in binary floating point); the   *)
(* reward is base_reward * score * bonus / 1000, which the code's float    *)
(* product (score / 100.0 is inexact) may miss by one nanoTOS, far less    *)
(* than any difference the properties compare.                             *)
(*                                                                         *)
(* The caller is a sequence of calls on arguments that differ from the     *)
(* previous call's in one argument.                                        *)
(***************************************************************************)
EXTENDS Integers

CONSTANTS
  Lengths,       \* content_length
  Difficulties,  \* difficulty names, the four known and unknown ones
  Scores         \* validation_score

ASSUME ArgumentsAssumption ==
  /\ Lengths \subseteq Nat
  /\ Scores \subseteq 0..100

VARIABLE call    \* the arguments of the current call

base_fee == 2500

\* difficulty_multipliers, in tenths, and .get(difficulty, 1.0).
GasMultipliers == [Basic |-> 10, Intermediate |-> 15, Advanced |-> 20, Expert |-> 30]
GasMultiplier(d) == IF d \in DOMAIN GasMultipliers THEN GasMultipliers[d] ELSE 10

\* Mutant: the free tier's guard dropped.
ContentCostNoFreeTier(len) ==
  IF len <= 500 THEN (len - 100) * 100000
  ELSE 400 * 100000 + (len - 500) * 50000

\* Mutant: the long tier starts from 400 bytes at the long rate.
ContentCostLongRate(len) ==
  IF len <= 100 THEN 0
  ELSE IF len <= 500 THEN (len - 100) * 100000
  ELSE 400 * 50000 + (len - 500) * 50000

\* Free up to 100 bytes, then 100_000 per byte, then 50_000 per byte after 500.
ContentCost(len) ==
  IF len <= 100 THEN 0
  ELSE IF len <= 500 THEN (len - 100) * 100000
  ELSE 400 * 100000 + (len - 500) * 50000

\* A content cost is a multiple of ten, so the tenth is taken first.
calculate_improved_gas_pricing(len, d) ==
  [content_cost |-> ContentCost(len),
   total_gas    |-> base_fee + (ContentCost(len) \div 10) * GasMultiplier(d)]

\* base_rewards and .get(difficulty, 50_000_000), in thousands of nanoTOS.
BaseRewards == [Basic |-> 50000, Intermediate |-> 200000, Advanced |-> 500000, Expert |-> 1000000]
BaseReward(d) == IF d \in DOMAIN BaseRewards THEN BaseRewards[d] ELSE 50000

\* Mutant: the two scarcity bonuses swapped.
ScarcityBonusSwapped(score) ==
  IF score >= 90 THEN 12 ELSE IF score >= 80 THEN 15 ELSE 10

\* scarcity_bonus, in tenths.
ScarcityBonus(score) ==
  IF score >= 90 THEN 15 ELSE IF score >= 80 THEN 12 ELSE 10

\* int(base_reward * (score / 100.0) * scarcity_bonus)
calculate_improved_rewards(d, score) ==
  [actual_reward |-> BaseReward(d) * score * ScarcityBonus(score)]

Inputs == [length |-> Lengths, difficulty |-> Difficulties, score |-> Scores]

Requests == [length : Lengths, difficulty : Difficulties, score : Scores]

Init == call \in Requests

\* The next call: the same arguments but for one.
Call ==
  \E f \in DOMAIN Inputs : \E v \in Inputs[f] :
    /\ v # call[f]
    /\ call' = [call EXCEPT ![f] = v]

Next == Call

Spec == Init /\ [][Next]_call

Gas(c) == calculate_improved_gas_pricing(c.length, c.difficulty).total_gas
Reward(c) == calculate_improved_rewards(c.difficulty, c.score).actual_reward

-----------------------------------------------------------------------------
(***************************************************************************)
(* Properties.                                                             *)
(***************************************************************************)

\* Every call returns a gas and a reward that are natural numbers.
TypeOK ==
  /\ call \in Requests
  /\ Gas(call) \in Nat
  /\ Reward(call) \in Nat

\* "Tiered content storage pricing": at the same difficulty a longer
\* content never costs less gas, across the free, the 100-500 and the 500+
\* tiers.
GasNeverFallsWithLength ==
  [][call' = [call EXCEPT !.length = call'.length] /\ call'.length >= call.length
     => Gas(call') >= Gas(call)]_call

\* "Quality reward multiplier" and "scarcity bonus": at the same difficulty
\* a higher validation score never earns a smaller reward, also where the
\* bonus steps at 80 and 90.
RewardNeverFallsWithScore ==
  [][call' = [call EXCEPT !.score = call'.score] /\ call'.score >= call.score
     => Reward(call') >= Reward(call)]_call

=============================================================================
