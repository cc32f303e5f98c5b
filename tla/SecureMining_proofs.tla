------------------------- MODULE SecureMining_proofs -------------------------
(***************************************************************************)
(* Proof that building standing never hurts an account in the secure       *)
(* economic model, for every set of ages, histories, stakes, lengths,      *)
(* difficulties and clock readings the constants allow.                    *)
(***************************************************************************)
EXTENDS SecureMining, TLAPS

\* Every call has arguments of the caller's sets.
LEMMA RequestsInvariant == Spec => [](call \in Requests)
<1>1. Init => call \in Requests
  BY DEF Init
<1>2. call \in Requests /\ [Next]_call => (call \in Requests)'
  BY DEF Next, Analyse, Requests, Inputs
<1>. QED
  BY <1>1, <1>2, PTL DEF Spec

\* The reputation is a natural number that never falls as age, history or
\* stake grow.
LEMMA ReputationMonotone ==
  ASSUME NEW a1 \in Nat, NEW a2 \in Nat, NEW h1 \in Nat, NEW h2 \in Nat,
         NEW s1 \in Nat, NEW s2 \in Nat, a1 <= a2, h1 <= h2, s1 <= s2
  PROVE  /\ Reputation(a1, h1, s1) \in Nat /\ Reputation(a2, h2, s2) \in Nat
         /\ Reputation(a1, h1, s1) <= Reputation(a2, h2, s2)
BY DEF Reputation, Cap

\* Each threshold ladder reads the reputation the right way round: a larger
\* reputation has no larger discount, no longer cooldown, and passes every
\* threshold the smaller one passes.
LEMMA LaddersAntitone ==
  ASSUME NEW r1 \in Int, NEW r2 \in Int, r1 <= r2
  PROVE  /\ ReputationDiscount(r1) \in {5, 7, 10, 20}
         /\ ReputationDiscount(r2) \in {5, 7, 10, 20}
         /\ ReputationDiscount(r2) <= ReputationDiscount(r1)
         /\ CooldownPeriod(r2) <= CooldownPeriod(r1)
         /\ \A t \in Nat : RepAtLeast(r1, t) => RepAtLeast(r2, t)
BY DEF ReputationDiscount, CooldownPeriod, RepAtLeast

\* A larger stake has no larger stake multiplier.
LEMMA StakeMultiplierAntitone ==
  ASSUME NEW s1 \in Int, NEW s2 \in Int, s1 <= s2
  PROVE  /\ StakeMultiplier(s1) \in {10, 20, 50}
         /\ StakeMultiplier(s2) \in {10, 20, 50}
         /\ StakeMultiplier(s2) <= StakeMultiplier(s1)
BY DEF StakeMultiplier

\* MulDiv is the quotient of the product, for the four discounts.
LEMMA MulDivIsQuotient ==
  ASSUME NEW x \in Nat, NEW r \in {5, 7, 10, 20}
  PROVE  MulDiv(x, r, 1000) = (x * r) \div 1000
<1>1. CASE r = 5
  BY <1>1 DEF MulDiv
<1>2. CASE r = 7
  BY <1>2 DEF MulDiv
<1>3. CASE r = 10
  BY <1>3 DEF MulDiv
<1>4. CASE r = 20
  BY <1>4 DEF MulDiv
<1>. QED
  BY <1>1, <1>2, <1>3, <1>4

\* The raw cost in tenths is a natural number.
LEMMA RawCostNat ==
  ASSUME NEW len \in Nat, NEW d
  PROVE  10 * base_fee + ContentCost(len) * DifficultyMultiplier(d) \in Nat
<1>1. ContentCost(len) \in Nat
  BY DEF ContentCost, MIN_COST_PER_TX
<1>2. DifficultyMultiplier(d) \in {10, 12, 15, 20}
  BY DEF DifficultyMultiplier, DifficultyMultipliers
<1>. QED
  BY <1>1, <1>2 DEF base_fee

\* A larger reputation and a larger stake never raise the fee of a task.
LEMMA FeeAntitone ==
  ASSUME NEW len \in Nat, NEW d, NEW r1 \in Int, NEW r2 \in Int, r1 <= r2,
         NEW s1 \in Int, NEW s2 \in Int, s1 <= s2
  PROVE  calculate_secure_gas_pricing(len, d, r2, s2).final_cost
           <= calculate_secure_gas_pricing(len, d, r1, s1).final_cost
<1> DEFINE raw10 == 10 * base_fee + ContentCost(len) * DifficultyMultiplier(d)
           x1 == raw10 * StakeMultiplier(s1)
           x2 == raw10 * StakeMultiplier(s2)
           d1 == ReputationDiscount(r1)
           d2 == ReputationDiscount(r2)
<1>1. raw10 \in Nat
  BY RawCostNat
<1>2. /\ StakeMultiplier(s1) \in {10, 20, 50} /\ StakeMultiplier(s2) \in {10, 20, 50}
      /\ StakeMultiplier(s2) <= StakeMultiplier(s1)
  BY StakeMultiplierAntitone
<1>3. x1 \in Nat /\ x2 \in Nat /\ x2 <= x1
  BY <1>1, <1>2
<1>4. d1 \in {5, 7, 10, 20} /\ d2 \in {5, 7, 10, 20} /\ d2 <= d1
  BY LaddersAntitone
<1>5. x2 * d2 <= x1 * d2
  BY <1>3, <1>4
<1>6. x1 * d2 <= x1 * d1
  BY <1>3, <1>4
<1>7. (x2 * d2) \div 1000 <= (x1 * d1) \div 1000
  BY <1>3, <1>4, <1>5, <1>6
<1>8. MulDiv(x2, d2, 1000) <= MulDiv(x1, d1, 1000)
  BY <1>3, <1>4, <1>7, MulDivIsQuotient
<1>9. MulDiv(x2, d2, 1000) \in Int /\ MulDiv(x1, d1, 1000) \in Int
  BY <1>3, <1>4, MulDivIsQuotient
<1>10. Larger(MulDiv(x2, d2, 1000), MIN_COST_PER_TX)
         <= Larger(MulDiv(x1, d1, 1000), MIN_COST_PER_TX)
  BY <1>8, <1>9 DEF Larger, MIN_COST_PER_TX
<1>. QED
  BY <1>10 DEF calculate_secure_gas_pricing

\* The three answers of the loop body that the properties compare.
LEMMA AnalyseAttackerFields ==
  ASSUME NEW c
  PROVE  LET rep == Reputation(c.age, c.history, c.stake) IN
         /\ AnalyseAttacker(c).fee
              = calculate_secure_gas_pricing(c.length, c.difficulty, rep, c.stake).final_cost
         /\ AnalyseAttacker(c).cooldown = CooldownPeriod(rep)
         /\ AnalyseAttacker(c).access
              = {l \in DOMAIN AccessThresholds : RepAtLeast(rep, AccessThresholds[l])}
<1>1. AnalyseAttacker(c).fee
        = calculate_secure_gas_pricing(c.length, c.difficulty,
                                       Reputation(c.age, c.history, c.stake), c.stake).final_cost
  BY SMTT(60) DEF AnalyseAttacker, calculate_anti_sybil_measures
<1>2. AnalyseAttacker(c).cooldown = CooldownPeriod(Reputation(c.age, c.history, c.stake))
  BY SMTT(60) DEF AnalyseAttacker, calculate_anti_sybil_measures, calculate_rate_limiting
<1>3. AnalyseAttacker(c).access
        = {l \in DOMAIN AccessThresholds :
             RepAtLeast(Reputation(c.age, c.history, c.stake), AccessThresholds[l])}
  BY SMTT(60) DEF AnalyseAttacker, calculate_anti_sybil_measures
<1>. QED
  BY <1>1, <1>2, <1>3

\* Security model: an account at least as old, with at least as many
\* transactions and at least as much stake, pays no more for the same task,
\* waits no longer and keeps every access level, for every instance of the
\* constants (StandingNeverHurts).
THEOREM StandingNeverHurtsThm == Spec => StandingNeverHurts
<1>1. ASSUME NEW c \in Requests, NEW e \in Requests, Standing(c, e)
      PROVE  /\ AnalyseAttacker(e).fee <= AnalyseAttacker(c).fee
             /\ AnalyseAttacker(e).cooldown <= AnalyseAttacker(c).cooldown
             /\ AnalyseAttacker(c).access \subseteq AnalyseAttacker(e).access
  <2> DEFINE rc == Reputation(c.age, c.history, c.stake)
             re == Reputation(e.age, e.history, e.stake)
  <2>1. /\ c.age \in Nat /\ c.history \in Nat /\ c.stake \in Nat /\ c.length \in Nat
        /\ e.age \in Nat /\ e.history \in Nat /\ e.stake \in Nat
    BY InputsAssumption DEF Requests
  <2>2. /\ e.age >= c.age /\ e.history >= c.history /\ e.stake >= c.stake
        /\ e.length = c.length /\ e.difficulty = c.difficulty
    BY <1>1 DEF Standing
  <2>3. rc \in Nat /\ re \in Nat /\ rc <= re
    BY <2>1, <2>2, ReputationMonotone
  <2>4. calculate_secure_gas_pricing(c.length, c.difficulty, re, e.stake).final_cost
          <= calculate_secure_gas_pricing(c.length, c.difficulty, rc, c.stake).final_cost
    BY <2>1, <2>2, <2>3, FeeAntitone
  <2>5. CooldownPeriod(re) <= CooldownPeriod(rc)
    BY <2>3, LaddersAntitone
  <2>6. \A t \in Nat : RepAtLeast(rc, t) => RepAtLeast(re, t)
    BY <2>3, LaddersAntitone
  <2>7. \A l \in DOMAIN AccessThresholds : AccessThresholds[l] \in Nat
    BY DEF AccessThresholds
  <2>8. /\ AnalyseAttacker(c).fee
             = calculate_secure_gas_pricing(c.length, c.difficulty, rc, c.stake).final_cost
        /\ AnalyseAttacker(e).fee
             = calculate_secure_gas_pricing(e.length, e.difficulty, re, e.stake).final_cost
        /\ AnalyseAttacker(c).cooldown = CooldownPeriod(rc)
        /\ AnalyseAttacker(e).cooldown = CooldownPeriod(re)
        /\ AnalyseAttacker(c).access
             = {l \in DOMAIN AccessThresholds : RepAtLeast(rc, AccessThresholds[l])}
        /\ AnalyseAttacker(e).access
             = {l \in DOMAIN AccessThresholds : RepAtLeast(re, AccessThresholds[l])}
    BY AnalyseAttackerFields
  <2>9. AnalyseAttacker(e).fee <= AnalyseAttacker(c).fee
    BY <2>2, <2>4, <2>8
  <2>10. AnalyseAttacker(e).cooldown <= AnalyseAttacker(c).cooldown
    BY <2>5, <2>8
  <2>11. AnalyseAttacker(c).access \subseteq AnalyseAttacker(e).access
    BY <2>6, <2>7, <2>8
  <2>. QED
    BY <2>9, <2>10, <2>11
<1>2. call \in Requests /\ [Next]_call
        => [Standing(call, call') =>
              LET r == AnalyseAttacker(call)
                  s == AnalyseAttacker(call') IN
              /\ s.fee <= r.fee
              /\ s.cooldown <= r.cooldown
              /\ r.access \subseteq s.access]_call
  <2> SUFFICES ASSUME call \in Requests, [Next]_call, Standing(call, call')
               PROVE  /\ AnalyseAttacker(call').fee <= AnalyseAttacker(call).fee
                      /\ AnalyseAttacker(call').cooldown <= AnalyseAttacker(call).cooldown
                      /\ AnalyseAttacker(call).access \subseteq AnalyseAttacker(call').access
    OBVIOUS
  <2>1. call' \in Requests
    BY DEF Next, Analyse, Requests, Inputs
  <2>. QED
    BY <2>1, <1>1
<1>. QED
  BY <1>2, RequestsInvariant, PTL DEF Spec, StandingNeverHurts

\* Every answer of the loop body has its type, for every account: the fee,
\* the cooldown and the remaining wait are natural numbers (the wait is
\* clamped at 0 when the last submission is long past).
THEOREM TypeCorrect == Spec => []TypeOK
<1>1. ASSUME NEW c \in Requests
      PROVE  LET r == AnalyseAttacker(c) IN
             /\ r.fee \in Nat /\ r.cooldown \in Nat /\ r.remaining \in Nat
             /\ r.access \subseteq DOMAIN AccessThresholds
  <2> DEFINE rep == Reputation(c.age, c.history, c.stake)
             r == AnalyseAttacker(c)
  <2>1. c.age \in Nat /\ c.history \in Nat /\ c.stake \in Nat /\ c.length \in Nat
        /\ c.elapsed \in Nat
    BY InputsAssumption DEF Requests
  <2>2. rep \in Nat
    BY <2>1 DEF Reputation, Cap
  <2>3. r.fee \in Nat
    <3> DEFINE raw10 == 10 * base_fee + ContentCost(c.length) * DifficultyMultiplier(c.difficulty)
               x == raw10 * StakeMultiplier(c.stake)
    <3>0. raw10 \in Nat
      BY <2>1, RawCostNat
    <3>1. x \in Nat /\ ReputationDiscount(rep) \in {5, 7, 10, 20}
      BY <3>0 DEF StakeMultiplier, ReputationDiscount
    <3>2. MulDiv(x, ReputationDiscount(rep), 1000) \in Int
      BY <3>1, MulDivIsQuotient
    <3>3. calculate_secure_gas_pricing(c.length, c.difficulty, rep, c.stake).final_cost \in Nat
      BY <3>2 DEF calculate_secure_gas_pricing, Larger, MIN_COST_PER_TX
    <3>. QED
      BY <3>3, AnalyseAttackerFields
  <2>8. r.cooldown = CooldownPeriod(rep)
    BY AnalyseAttackerFields
  <2>4. r.cooldown \in Nat
    BY <2>8 DEF CooldownPeriod
  <2>5. r.remaining = Larger(CooldownPeriod(rep) - (3600 + c.elapsed), 0)
    BY SMTT(60) DEF AnalyseAttacker, calculate_anti_sybil_measures, calculate_rate_limiting
  <2>6. r.remaining \in Nat
    BY <2>1, <2>5 DEF Larger, CooldownPeriod
  <2>7. r.access \subseteq DOMAIN AccessThresholds
    BY AnalyseAttackerFields
  <2>. QED
    BY <2>3, <2>4, <2>6, <2>7
<1>2. call \in Requests => TypeOK
  BY <1>1 DEF TypeOK
<1>. QED
  BY <1>2, RequestsInvariant, PTL
====
