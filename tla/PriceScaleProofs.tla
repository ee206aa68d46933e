-------------------------- MODULE PriceScaleProofs --------------------------
(***************************************************************************)
(* The properties of PriceScaleWalk, for all prices and step bounds.       *)
(***************************************************************************)
EXTENDS PriceScaleWalk, PoolArithmetic

(* What one rebalance does to a positive scale with a positive target.     *)
LEMMA NewPriceScaleMoves ==
  ASSUME NEW policy \in Nat, NEW oracle \in Nat \ {0}, NEW scale \in Nat \ {0},
         NEW target, target = TargetPrice(policy, oracle), target \in Nat,
         NEW norm, norm = Norm(target, scale),
         NEW step, step = AdjustmentStep(norm),
         NEW new, new = NewPriceScale(policy, oracle, scale),
         new # scale
  PROVE  /\ norm \in Nat \ {0} /\ step \in Nat \ {0}
         /\ 5 * step <= norm /\ step <= adjustment_step_max
         /\ new = (scale * (norm - step) + step * target) \div norm
<1>1. norm \in Nat
  <2>1. (target * PRECISION) \div scale \in Nat
    BY MulNat, DivNat, StepAssumption
  <2> QED BY <2>1, StepAssumption DEF Norm
<1>2. step \in Nat /\ 5 * step <= norm /\ step <= adjustment_step_max
  BY <1>1, StepAssumption DEF AdjustmentStep
<1>3. step > adjustment_step_min
      /\ new = (scale * (norm - step) + step * target) \div norm
  BY DEF NewPriceScale
<1> QED BY <1>1, <1>2, <1>3, StepAssumption

(* The relative distance never understates the gap by more than a unit.    *)
LEMMA NormCoversGap ==
  ASSUME NEW scale \in Nat \ {0}, NEW target \in Nat,
         NEW norm, norm = Norm(target, scale)
  PROVE  /\ norm \in Nat
         /\ Gap(scale, target) * PRECISION <= (norm + 1) * scale
         /\ target < scale => Gap(scale, target) * PRECISION <= norm * scale
<1> DEFINE ratio == (target * PRECISION) \div scale
<1>1. target * PRECISION \in Nat /\ scale * PRECISION \in Nat
  BY MulNat, StepAssumption
<1>2. /\ ratio \in Nat /\ scale * ratio <= target * PRECISION
      /\ target * PRECISION < scale * ratio + scale
  BY <1>1, DivNat
<1> HIDE DEF ratio
<1>3. norm = IF ratio > PRECISION THEN ratio - PRECISION ELSE PRECISION - ratio
  BY DEF Norm, ratio
<1>4. norm \in Nat
  BY <1>2, <1>3, StepAssumption
<1>5. CASE target >= scale
  <2>1. scale * PRECISION <= target * PRECISION
    BY <1>5, MulMonotone, StepAssumption
  <2>2. ratio >= PRECISION
    BY <2>1, <1>1, DivAtLeast, StepAssumption DEF ratio
  <2>3. (target - scale) * PRECISION = target * PRECISION - scale * PRECISION
    BY StepAssumption
  <2>4. (norm + 1) * scale = scale * ratio - scale * PRECISION + scale
    <3>1. norm = ratio - PRECISION
      BY <2>2, <1>2, <1>3, StepAssumption
    <3> QED BY <3>1, <1>2, StepAssumption
  <2>5. Gap(scale, target) = target - scale
    BY <1>5 DEF Gap
  <2>6. scale * ratio \in Int
    BY <1>2
  <2> QED BY <1>5, <1>1, <1>2, <1>4, <2>3, <2>4, <2>5, <2>6
<1>6. CASE target < scale
  <2>1. target * PRECISION < scale * PRECISION
    BY <1>6, StepAssumption
  <2>2. ratio < PRECISION
    BY <2>1, <1>1, DivBelow, StepAssumption DEF ratio
  <2>3. (scale - target) * PRECISION = scale * PRECISION - target * PRECISION
    BY StepAssumption
  <2>4. norm * scale = scale * PRECISION - scale * ratio
    <3>1. norm = PRECISION - ratio
      BY <2>2, <1>2, <1>3, StepAssumption
    <3> QED BY <3>1, <1>2, StepAssumption
  <2>5. Gap(scale, target) = scale - target
    BY <1>6 DEF Gap
  <2>6. scale * ratio \in Int
    BY <1>2
  <2>7. (norm + 1) * scale = norm * scale + scale /\ norm * scale \in Int
    BY <1>4
  <2> QED BY <1>1, <1>2, <1>4, <2>3, <2>4, <2>5, <2>6, <2>7
<1> QED BY <1>5, <1>6

(* The target of a positive oracle is positive and within a fifth of it.   *)
LEMMA TargetNearOracle ==
  ASSUME NEW policy \in Nat, NEW oracle \in Nat \ {0}
  PROVE  /\ TargetPrice(policy, oracle) \in Nat \ {0}
         /\ Gap(TargetPrice(policy, oracle), oracle) <= oracle \div 5
BY DEF TargetPrice, Gap

(* Between two numbers none is further away than both.                     *)
LEMMA BetweenIsNearer ==
  ASSUME NEW a \in Nat, NEW b \in Nat, NEW o \in Nat, NEW reach \in Nat,
         NEW n \in Nat, n \in a .. b \/ n \in b .. a, Gap(b, o) <= reach
  PROVE  Gap(n, o) <= reach \/ Gap(n, o) <= Gap(a, o)
BY DEF Gap

(* A move from a scale to a new one on the way to a target.                *)
SoundMove(scale, target, new) ==
  /\ new \in Nat \ {0}
  /\ new # scale =>
       /\ new > scale <=> target > scale
       /\ new \in scale .. target \/ new \in target .. scale
       /\ Gap(new, target) < Gap(scale, target)
       /\ 5 * (Gap(new, scale) - 1) <= Gap(scale, target)
  /\ 5 * (Gap(new, scale) - 1) * PRECISION
       <= (5 * adjustment_step_max + 1) * scale

(* Every rebalance is such a move.                                         *)
LEMMA RebalanceStep ==
  ASSUME NEW policy \in Nat, NEW oracle \in Nat \ {0}, NEW scale \in Nat \ {0}
  PROVE  SoundMove(scale, TargetPrice(policy, oracle),
                   NewPriceScale(policy, oracle, scale))
<1> DEFINE target == TargetPrice(policy, oracle)
           new == NewPriceScale(policy, oracle, scale)
<1>1. target \in Nat \ {0}
  BY TargetNearOracle
<1>2. CASE new = scale
  <2>1. Gap(new, scale) = 0
    BY <1>2 DEF Gap
  <2>2. (5 * adjustment_step_max + 1) * scale \in Nat
    BY MulNat, StepAssumption
  <2> QED BY <1>1, <1>2, <2>1, <2>2, StepAssumption DEF SoundMove
<1>3. CASE new # scale
  <2> DEFINE norm == Norm(target, scale)
             step == AdjustmentStep(norm)
             gap == Gap(scale, target)
             moved == Gap(new, scale)
  <2>1. /\ norm \in Nat \ {0} /\ step \in Nat \ {0}
        /\ 5 * step <= norm /\ step <= adjustment_step_max
        /\ new = (scale * (norm - step) + step * target) \div norm
    BY <1>1, <1>3, NewPriceScaleMoves
  <2>2. gap \in Nat /\ gap * PRECISION <= (norm + 1) * scale
    <3>1. gap \in Nat
      BY <1>1 DEF Gap
    <3>2. target \in Nat
      BY <1>1
    <3> QED BY <3>1, <3>2, NormCoversGap
  <2> HIDE DEF norm, step
  <2>3. /\ new \in Nat
        /\ scale <= target => /\ new \in scale .. target
                              /\ norm * (new - scale) <= step * (target - scale)
        /\ target <= scale => /\ new \in target .. scale
                              /\ norm * (scale - new - 1) < step * (scale - target)
    <3>1. target \in Nat /\ scale \in Nat /\ step \in 0 .. norm
      BY <1>1, <2>1
    <3> QED BY <2>1, <3>1, PartOfTheWay
  <2>4. /\ moved \in Nat /\ moved > 0
        /\ target # scale
        /\ norm * (moved - 1) <= step * gap
        /\ target > scale => norm * moved <= step * gap
    <3>1. CASE target >= scale
      <4>1. moved = new - scale /\ gap = target - scale /\ moved > 0
        BY <1>1, <1>3, <2>3, <3>1 DEF Gap
      <4>2. norm * (moved - 1) = norm * moved - norm
        BY <2>1, <2>3, <4>1
      <4>3. norm * moved \in Nat /\ step * gap \in Nat
        BY <2>1, <2>2, <2>3, <4>1, MulNat
      <4> QED BY <1>1, <1>3, <2>1, <2>2, <2>3, <3>1, <4>1, <4>2, <4>3
    <3>2. CASE target < scale
      <4>1. moved = scale - new /\ gap = scale - target /\ moved > 0
        BY <1>1, <1>3, <2>3, <3>2 DEF Gap
      <4>2. norm * (moved - 1) \in Int /\ step * gap \in Int
        BY <2>1, <2>2, <2>3, <4>1
      <4> QED BY <1>1, <1>3, <2>1, <2>2, <2>3, <3>2, <4>1, <4>2
    <3> QED BY <1>1, <3>1, <3>2
  <2>5. 5 * (moved - 1) <= gap
    <3>1. (5 * step) * gap <= norm * gap
      BY <2>1, <2>2, MulMonotone
    <3>2. norm * (5 * (moved - 1)) <= norm * gap
      <4>1. norm * (5 * (moved - 1)) = 5 * (norm * (moved - 1))
            /\ (5 * step) * gap = 5 * (step * gap)
        BY <2>1, <2>2, <2>4
      <4>2. norm * (moved - 1) \in Int /\ step * gap \in Int /\ norm * gap \in Int
        BY <2>1, <2>2, <2>4
      <4> QED BY <2>4, <3>1, <4>1, <4>2
    <3> QED BY <2>1, <2>2, <2>4, <3>2
  <2>6. 5 * (moved - 1) * PRECISION <= (5 * adjustment_step_max + 1) * scale
    <3> DEFINE lhs == 5 * (moved - 1) * PRECISION
    <3>1. norm * lhs <= norm * ((5 * step + 1) * scale)
      <4>1. norm * lhs = (5 * PRECISION) * (norm * (moved - 1))
        BY <2>1, <2>4, StepAssumption
      <4>2. (5 * PRECISION) * (norm * (moved - 1)) <= (5 * PRECISION) * (step * gap)
        BY <2>1, <2>2, <2>4, MulMonotone, StepAssumption
      <4>3. (5 * PRECISION) * (step * gap) = (5 * step) * (gap * PRECISION)
        BY <2>1, <2>2, StepAssumption
      <4>4. (5 * step) * (gap * PRECISION) <= (5 * step) * ((norm + 1) * scale)
        BY <2>1, <2>2, MulMonotone, StepAssumption
      <4>5. (5 * step) * ((norm + 1) * scale)
              = norm * ((5 * step) * scale) + (5 * step) * scale
        BY <2>1
      <4>6. (5 * step) * scale <= norm * scale
        BY <2>1, MulMonotone
      <4>7. norm * ((5 * step + 1) * scale)
              = norm * ((5 * step) * scale) + norm * scale
        BY <2>1
      <4>8. /\ norm * lhs \in Int /\ (5 * PRECISION) * (norm * (moved - 1)) \in Int
            /\ (5 * PRECISION) * (step * gap) \in Int
            /\ (5 * step) * (gap * PRECISION) \in Int
            /\ (5 * step) * ((norm + 1) * scale) \in Int
            /\ norm * ((5 * step) * scale) \in Int /\ (5 * step) * scale \in Int
            /\ norm * scale \in Int
        BY <2>1, <2>2, <2>4, StepAssumption
      <4> HIDE DEF lhs
      <4> QED BY <4>1, <4>2, <4>3, <4>4, <4>5, <4>6, <4>7, <4>8
    <3>2. lhs \in Int /\ (5 * step + 1) * scale \in Int
      BY <2>1, <2>4, StepAssumption
    <3>3. lhs <= (5 * step + 1) * scale
      <4> HIDE DEF lhs
      <4> QED BY <2>1, <3>1, <3>2
    <3>4. (5 * step + 1) * scale <= (5 * adjustment_step_max + 1) * scale
      BY <2>1, MulMonotone, StepAssumption
    <3>5. (5 * adjustment_step_max + 1) * scale \in Int
      BY StepAssumption
    <3> HIDE DEF lhs
    <3>6. lhs <= (5 * adjustment_step_max + 1) * scale
      BY <3>2, <3>3, <3>4, <3>5
    <3> QED BY <3>6 DEF lhs
  <2>7. /\ new \in Nat \ {0}
        /\ new > scale <=> target > scale
        /\ new \in scale .. target \/ new \in target .. scale
        /\ Gap(new, target) < gap
    BY <1>1, <1>3, <2>3 DEF Gap
  <2> QED BY <2>5, <2>6, <2>7 DEF SoundMove
<1> QED BY <1>2, <1>3

-----------------------------------------------------------------------------

TypeOK ==
  /\ price_scale \in Nat \ {0} /\ price_oracle \in Nat \ {0}
  /\ policy_target \in Nat

(* Prices stay positive, so that no rebalance divides by zero.             *)
THEOREM PricesPositive == Spec => []TypeOK
<1>1. Init => TypeOK
  BY PricesAssumption DEF Init, TypeOK
<1>2. TypeOK /\ [Next]_vars => TypeOK'
  <2> SUFFICES ASSUME TypeOK, [Next]_vars PROVE TypeOK'
    OBVIOUS
  <2>1. CASE Rebalance
    BY <2>1, RebalanceStep DEF TypeOK, Rebalance, SoundMove
  <2>2. CASE Observe
    BY <2>2, PricesAssumption DEF TypeOK, Observe
  <2>3. CASE UNCHANGED vars
    BY <2>3 DEF TypeOK, vars
  <2> QED BY <2>1, <2>2, <2>3 DEF Next
<1> QED BY <1>1, <1>2, PTL DEF Spec

(* No rebalance passes its target, or goes further than a fifth of the way.*)
THEOREM ScaleNeverOvershoots == Spec => NeverOvershoots
<1> DEFINE target == TargetPrice(policy_target, price_oracle)
           A == price_scale' # price_scale =>
                  /\ price_scale' > price_scale <=> target > price_scale
                  /\ Gap(price_scale', target) < Gap(price_scale, target)
                  /\ 5 * (Gap(price_scale', price_scale) - 1)
                       <= Gap(price_scale, target)
<1>1. TypeOK /\ [Next]_vars => [A]_vars
  <2> SUFFICES ASSUME TypeOK, Next PROVE A
    OBVIOUS
  <2>1. CASE Rebalance
    BY <2>1, RebalanceStep DEF TypeOK, Rebalance, SoundMove
  <2>2. CASE Observe
    BY <2>2 DEF Observe
  <2> QED BY <2>1, <2>2 DEF Next
<1> QED BY <1>1, PricesPositive, PTL DEF Spec, NeverOvershoots

(* No rebalance exceeds the maximal step, for any prices and any maximum.  *)
THEOREM ScaleStepCapped == Spec => StepCapped
<1> DEFINE A == 5 * (Gap(price_scale', price_scale) - 1) * PRECISION
                  <= (5 * adjustment_step_max + 1) * price_scale
<1>1. TypeOK /\ [Next]_vars => [A]_vars
  <2> SUFFICES ASSUME TypeOK, Next PROVE A
    OBVIOUS
  <2>1. CASE Rebalance
    BY <2>1, RebalanceStep DEF TypeOK, Rebalance, SoundMove
  <2>2. CASE Observe
    <3>1. Gap(price_scale', price_scale) = 0
      BY <2>2 DEF Observe, Gap, TypeOK
    <3>2. (5 * adjustment_step_max + 1) * price_scale \in Nat
      BY MulNat, StepAssumption DEF TypeOK
    <3> QED BY <3>1, <3>2, StepAssumption
  <2> QED BY <2>1, <2>2 DEF Next
<1> QED BY <1>1, PricesPositive, PTL DEF Spec, StepCapped

(* A policy target drags the scale at most a fifth away from the oracle.   *)
THEOREM ScaleKeptByOracle == Spec => PolicyCannotRunAway
<1> DEFINE A == \/ Gap(price_scale', price_oracle) <= price_oracle \div 5
                \/ Gap(price_scale', price_oracle) <= Gap(price_scale, price_oracle)
<1>1. TypeOK /\ [Next]_vars => [A]_vars
  <2> SUFFICES ASSUME TypeOK, Next PROVE A
    OBVIOUS
  <2>1. CASE Rebalance
    <3> DEFINE target == TargetPrice(policy_target, price_oracle)
    <3>1. target \in Nat \ {0} /\ Gap(target, price_oracle) <= price_oracle \div 5
      BY TargetNearOracle DEF TypeOK
    <3>2. SoundMove(price_scale, target, price_scale')
      BY <2>1, RebalanceStep DEF TypeOK, Rebalance
    <3> HIDE DEF target
    <3>3. /\ price_scale' \in Nat
          /\ \/ price_scale' = price_scale
             \/ price_scale' \in price_scale .. target
             \/ price_scale' \in target .. price_scale
      BY <3>2 DEF SoundMove
    <3>4. price_oracle \div 5 \in Nat
      BY DEF TypeOK
    <3>5. CASE price_scale' = price_scale
      BY <3>3, <3>5 DEF TypeOK, Gap
    <3>6. CASE price_scale' # price_scale
      BY <3>1, <3>3, <3>4, <3>6, BetweenIsNearer DEF TypeOK
    <3> QED BY <3>5, <3>6
  <2>2. CASE Observe
    BY <2>2 DEF Observe, Gap, TypeOK
  <2> QED BY <2>1, <2>2 DEF Next
<1> QED BY <1>1, PricesPositive, PTL DEF Spec, PolicyCannotRunAway
=============================================================================
