------------------------- MODULE PriceScaleActuator -------------------------
(***************************************************************************)
(* preview_price_scale_actuator: how far one rebalance moves the price     *)
(* scale towards a target, the native oracle or a policy's clamped target. *)
(***************************************************************************)
EXTENDS Integers

CONSTANTS
  PRECISION,
  adjustment_step_min,   (* a smaller step is not worth a move              *)
  adjustment_step_max    (* a larger step is cut to this                    *)

ASSUME StepAssumption ==
  /\ PRECISION \in Nat \ {0}
  /\ adjustment_step_min \in Nat
  /\ adjustment_step_max \in Nat

TargetPriceUnclamped(policy_target, price_oracle) ==   (* Mutant: no clamp  *)
  IF policy_target = 0 THEN price_oracle ELSE policy_target

(* A policy target of zero means "none"; another is kept within a fifth of *)
(* the oracle.                                                             *)
TargetPrice(policy_target, price_oracle) ==
  LET bound == price_oracle \div 5
      lo == price_oracle - bound
      hi == price_oracle + bound
      clamped == IF policy_target < lo THEN lo
                 ELSE IF policy_target > hi THEN hi ELSE policy_target
  IN  IF policy_target = 0 THEN price_oracle ELSE clamped

(* The relative distance of the target from the scale.                     *)
Norm(target, price_scale) ==
  LET ratio == (target * PRECISION) \div price_scale
  IN  IF ratio > PRECISION THEN ratio - PRECISION ELSE PRECISION - ratio

AdjustmentStep(norm) ==
  IF norm \div 5 > adjustment_step_max THEN adjustment_step_max
                                       ELSE norm \div 5

(* p_new: the scale and the target weighted by the step.                   *)
NewPriceScale(policy_target, price_oracle, price_scale) ==
  LET target == TargetPrice(policy_target, price_oracle)
      norm == Norm(target, price_scale)
      step == AdjustmentStep(norm)
  IN  IF step > adjustment_step_min
        THEN (price_scale * (norm - step) + step * target) \div norm
        ELSE price_scale
=============================================================================
