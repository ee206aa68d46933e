--------------------------- MODULE PriceScaleWalk ---------------------------
(***************************************************************************)
(* A price scale driven by the actuator alone: rebalances one after the    *)
(* other, while the oracle and the target of a policy change at will.      *)
(***************************************************************************)
EXTENDS PriceScaleActuator

CONSTANTS
  Scales, Oracles,       (* where the scale starts; what the oracle may say *)
  Targets                (* what a policy may ask for, 0 for nothing        *)

ASSUME PricesAssumption ==
  /\ Scales \subseteq Nat \ {0} /\ Oracles \subseteq Nat \ {0}
  /\ Targets \subseteq Nat

VARIABLES price_scale, price_oracle, policy_target

vars == <<price_scale, price_oracle, policy_target>>

Init ==
  /\ price_scale \in Scales
  /\ price_oracle \in Oracles
  /\ policy_target \in Targets

Rebalance ==
  /\ price_scale' = NewPriceScale(policy_target, price_oracle, price_scale)
  /\ UNCHANGED <<price_oracle, policy_target>>

Observe ==
  /\ price_oracle' \in Oracles
  /\ policy_target' \in Targets
  /\ UNCHANGED price_scale

Next == Rebalance \/ Observe

Spec == Init /\ [][Next]_vars

Gap(a, b) == IF a > b THEN a - b ELSE b - a

(* A move ends between the old scale and the target, at most a fifth of    *)
(* the way there, so moves towards a steady target never swing around it.  *)
NeverOvershoots ==
  [][LET target == TargetPrice(policy_target, price_oracle)
     IN  price_scale' # price_scale =>
           /\ price_scale' > price_scale <=> target > price_scale
           /\ Gap(price_scale', target) < Gap(price_scale, target)
           /\ 5 * (Gap(price_scale', price_scale) - 1)
                <= Gap(price_scale, target)]_vars

(* A move is at most adjustment_step_max of the scale, up to the rounding: *)
(* one unit, and a fifth of the last digit of the relative distance.       *)
StepCapped ==
  [][5 * (Gap(price_scale', price_scale) - 1) * PRECISION
       <= (5 * adjustment_step_max + 1) * price_scale]_vars

(* Whatever a policy asks for, a move leaves the scale no further from the *)
(* oracle than it was or than a fifth of the oracle.                       *)
PolicyCannotRunAway ==
  [][Gap(price_scale', price_oracle) <= price_oracle \div 5
       \/ Gap(price_scale', price_oracle) <= Gap(price_scale, price_oracle)]_vars
=============================================================================
