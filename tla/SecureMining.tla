---------------------------- MODULE SecureMining ----------------------------
(***************************************************************************)
(* SecureTOSAIMiningDemo of ai_miner/secure_ai_mining_demo.py: the secure *)
(* gas pricing, the anti-Sybil reputation, the rate limiter, and the body *)
(* of run_security_analysis's loop, which feeds the reputation of an       *)
(* account into the other two.                                             *)
(*                                                                         *)
(* The code's floats are held as exact integers: a multiplier in tenths    *)
(* and a reputation in units of 10^-7, the smallest step its three         *)
(* weighted scores can take.  Every step of the float computation          *)
(* (division by a constant, min, multiplication by a positive constant,    *)
(* addition, int()) is monotone, so the comparisons of two calls that the  *)
(* properties make come out the same way in both.                          *)
(*                                                                         *)
(* The caller is a sequence of calls of the loop body, each on an account  *)
(* that differs from the previous call's in one argument.                  *)
(***************************************************************************)
EXTENDS Integers

CONSTANTS
  Ages,          \* account_age_days
  Histories,     \* tx_history_count
  Stakes,        \* stake_amount
  Lengths,       \* content_length
  Difficulties,  \* difficulty names, the four known and unknown ones
  Elapsed        \* seconds between the two int(time.time()) reads

ASSUME InputsAssumption ==
  /\ Ages \subseteq Nat /\ Histories \subseteq Nat /\ Stakes \subseteq Nat
  /\ Lengths \subseteq Nat /\ Elapsed \subseteq Nat

VARIABLE call    \* the arguments of the current iteration

Cap(x, c) == IF x < c THEN x ELSE c
Larger(x, m) == IF x > m THEN x ELSE m

-----------------------------------------------------------------------------
(***************************************************************************)
(* calculate_anti_sybil_measures                                           *)
(***************************************************************************)

\* age_score * 0.3 + history_score * 0.4 + stake_score * 0.3, in 10^-7.
Reputation(age, hist, stake) ==
  Cap(age, 30) * 100000 + Cap(hist, 100) * 40000 + Cap(stake, 1000000) * 3

\* reputation >= tenths / 10
RepAtLeast(rep, tenths) == rep >= tenths * 1000000

\* MIN_REPUTATION_FOR_*, in tenths.
AccessThresholds == [Basic |-> 1, Intermediate |-> 3, Advanced |-> 5, Expert |-> 7]

calculate_anti_sybil_measures(age, hist, stake) ==
  LET rep == Reputation(age, hist, stake) IN
  [reputation         |-> rep,
   access_levels      |-> {l \in DOMAIN AccessThresholds :
                             RepAtLeast(rep, AccessThresholds[l])},
   min_stake_required |-> IF RepAtLeast(rep, 5) THEN 50000 ELSE 100000]

-----------------------------------------------------------------------------
(***************************************************************************)
(* calculate_secure_gas_pricing                                            *)
(***************************************************************************)
base_fee == 2500
MIN_COST_PER_TX == 50000

StakeMultiplier(stake) ==
  IF stake < 10000 THEN 50 ELSE IF stake < 100000 THEN 20 ELSE 10

\* Mutant: the two discounts of high reputation swapped.
ReputationDiscountSwapped(rep) ==
  IF RepAtLeast(rep, 9) THEN 7
  ELSE IF RepAtLeast(rep, 7) THEN 5
  ELSE IF ~RepAtLeast(rep, 3) THEN 20 ELSE 10

ReputationDiscount(rep) ==
  IF RepAtLeast(rep, 9) THEN 5
  ELSE IF RepAtLeast(rep, 7) THEN 7
  ELSE IF ~RepAtLeast(rep, 3) THEN 20 ELSE 10

\* The four tiers of content_cost, in nanoTOS.
ContentCost(len) ==
  IF len <= 50 THEN MIN_COST_PER_TX
  ELSE IF len <= 200 THEN len * 500
  ELSE IF len <= 1000 THEN 200 * 500 + (len - 200) * 1000
  ELSE 200 * 500 + 800 * 1000 + (len - 1000) * 2000

DifficultyMultipliers == [Basic |-> 10, Intermediate |-> 12, Advanced |-> 15, Expert |-> 20]

\* difficulty_multipliers.get(difficulty, 1.0)
DifficultyMultiplier(d) ==
  IF d \in DOMAIN DifficultyMultipliers THEN DifficultyMultipliers[d] ELSE 10

\* (x * r) \div den for x, r in Nat, without the large product.
MulDiv(x, r, den) == (x \div den) * r + ((x % den) * r) \div den

\* raw_cost * 10 is a whole number; the three factors in tenths give the
\* divisor 1000 of int(raw_cost * stake_multiplier * reputation_discount).
calculate_secure_gas_pricing(len, d, rep, stake) ==
  LET raw10 == 10 * base_fee + ContentCost(len) * DifficultyMultiplier(d)
      adjusted == MulDiv(raw10 * StakeMultiplier(stake), ReputationDiscount(rep), 1000)
  IN [content_cost |-> ContentCost(len), final_cost |-> Larger(adjusted, MIN_COST_PER_TX)]

-----------------------------------------------------------------------------
(***************************************************************************)
(* calculate_rate_limiting, given time_since_last.                         *)
(***************************************************************************)
CooldownPeriod(rep) ==
  IF RepAtLeast(rep, 8) THEN 300
  ELSE IF RepAtLeast(rep, 5) THEN 900
  ELSE IF RepAtLeast(rep, 3) THEN 1800 ELSE 3600

\* Mutant: max(0, ...) dropped from remaining_cooldown.
calculate_rate_limiting_NoClamp(rep, since) ==
  [can_submit         |-> since >= CooldownPeriod(rep),
   cooldown_period    |-> CooldownPeriod(rep),
   remaining_cooldown |-> CooldownPeriod(rep) - since]

calculate_rate_limiting(rep, since) ==
  [can_submit         |-> since >= CooldownPeriod(rep),
   cooldown_period    |-> CooldownPeriod(rep),
   remaining_cooldown |-> Larger(CooldownPeriod(rep) - since, 0)]

-----------------------------------------------------------------------------
(***************************************************************************)
(* One iteration of run_security_analysis's loop.                          *)
(***************************************************************************)
ProtectionLevel(rep) ==
  IF ~RepAtLeast(rep, 1) THEN "denied"
  ELSE IF ~RepAtLeast(rep, 3) THEN "strict"
  ELSE IF ~RepAtLeast(rep, 7) THEN "basic" ELSE "trusted"

\* The row printed for an attacker, with the limiter's other answers.  The
\* last submission is int(time.time()) - 3600 read before the call, and the
\* limiter reads the clock again.
AnalyseAttacker(c) ==
  LET sybil == calculate_anti_sybil_measures(c.age, c.history, c.stake)
      gas   == calculate_secure_gas_pricing(c.length, c.difficulty, sybil.reputation, c.stake)
      rate  == calculate_rate_limiting(sybil.reputation, 3600 + c.elapsed)
  IN [reputation |-> sybil.reputation, access |-> sybil.access_levels,
      fee |-> gas.final_cost, cooldown |-> rate.cooldown_period,
      can_submit |-> rate.can_submit, remaining |-> rate.remaining_cooldown,
      protection |-> ProtectionLevel(sybil.reputation)]

Inputs == [age |-> Ages, history |-> Histories, stake |-> Stakes,
           length |-> Lengths, difficulty |-> Difficulties, elapsed |-> Elapsed]

Requests == [age : Ages, history : Histories, stake : Stakes,
             length : Lengths, difficulty : Difficulties, elapsed : Elapsed]

Init == call \in Requests

\* The loop moves to the next attacker: an account like the last one but
\* for one argument.
Analyse ==
  \E f \in DOMAIN Inputs : \E v \in Inputs[f] :
    /\ v # call[f]
    /\ call' = [call EXCEPT ![f] = v]

Next == Analyse

Spec == Init /\ [][Next]_call

-----------------------------------------------------------------------------
(***************************************************************************)
(* Properties.                                                             *)
(***************************************************************************)

\* Every answer has its type: fees, cooldowns and waits are natural numbers
\* (a wait is never negative, even when the last submission is long past).
TypeOK ==
  /\ call \in Requests
  /\ LET r == AnalyseAttacker(call) IN
     /\ r.fee \in Nat /\ r.cooldown \in Nat /\ r.remaining \in Nat
     /\ r.access \subseteq DOMAIN AccessThresholds

\* The account of the next call is at least as old, has at least as many
\* transactions and at least as much stake.
Standing(c, d) ==
  /\ d.age >= c.age /\ d.history >= c.history /\ d.stake >= c.stake
  /\ d.length = c.length /\ d.difficulty = c.difficulty

\* Security model: building standing (age, history, stake) never raises the
\* fee, never lengthens the cooldown and never takes an access level away,
\* through the reputation, the stake multiplier and the discount together.
StandingNeverHurts ==
  [][Standing(call, call') =>
       LET r == AnalyseAttacker(call)
           s == AnalyseAttacker(call') IN
       /\ s.fee <= r.fee
       /\ s.cooldown <= r.cooldown
       /\ r.access \subseteq s.access]_call

\* "Content storage cost - progressive pricing": with everything else the
\* same, a longer content never costs less.
LongerContentNeverCheaper ==
  [][/\ call'.length >= call.length
     /\ call' = [call EXCEPT !.length = call'.length]
     => AnalyseAttacker(call').fee >= AnalyseAttacker(call).fee]_call

=============================================================================
