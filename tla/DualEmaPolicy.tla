---------------------------- MODULE DualEmaPolicy ----------------------------
(***************************************************************************)
(* dual_ema_price_scale.hpp on uint256: the policy behind yieldbasis.hpp.  *)
(* Two moving averages of the pool's price, a target extrapolated from     *)
(* them, and a cap on the move asked for that grows while nothing happens. *)
(*                                                                         *)
(* `s` is the State of the policy.  A hook that finds the pool clock       *)
(* behind its own throws: Timely says when it does not.                    *)
(***************************************************************************)
EXTENDS Integers

CONSTANTS
  PRECISION,
  fast_half_life, slow_half_life,
  kappa, deadband, min_cap, max_cap,
  CAP_RAMP_SECONDS,
  DECAY            (* DECAY[half_life][dt] is 2^(-dt / half_life)           *)

validate_params ==
  /\ PRECISION \in Nat \ {0} /\ CAP_RAMP_SECONDS \in Nat \ {0}
  /\ 600 <= fast_half_life /\ fast_half_life <= slow_half_life
  /\ slow_half_life <= 604800
  /\ kappa \in 0 .. 2 * PRECISION
  /\ deadband \in 0 .. (60 * PRECISION) \div 10000
  /\ max_cap \in 0 .. (60 * PRECISION) \div 10000
  /\ min_cap \in PRECISION \div 10000 .. max_cap

ASSUME PolicyAssumption == validate_params

ASSUME DecayAssumption ==
  \A half_life \in {fast_half_life, slow_half_life} :
    \A dt \in DOMAIN DECAY[half_life] :
      DECAY[half_life][dt] \in 0 .. PRECISION

Least(a, b) == IF a < b THEN a ELSE b
Apart(a, b) == IF a > b THEN a - b ELSE b - a

NoAlphas == [valid |-> FALSE, dt |-> 0, fast |-> 0, slow |-> 0]

Unused ==
  [last_update_ts |-> 0, last_prices |-> 0, fast_ema |-> 0, slow_ema |-> 0,
   price_scale |-> 0, alpha_cache |-> NoAlphas]

(* Beyond the table the decay is complete.                                 *)
ema_alpha(dt, half_life) ==
  IF dt \in DOMAIN DECAY[half_life] THEN DECAY[half_life][dt] ELSE 0

clamp_observation(observation, scale) ==
  IF observation < scale \div 2 THEN scale \div 2
  ELSE IF observation > 2 * scale THEN 2 * scale ELSE observation

ema_with_alpha(old, observation, scale, alpha) ==
  (clamp_observation(observation, scale) * (PRECISION - alpha) + old * alpha)
    \div PRECISION

FreshAlphas(dt) ==
  [valid |-> TRUE, dt |-> dt,
   fast |-> ema_alpha(dt, fast_half_life),
   slow |-> ema_alpha(dt, slow_half_life)]

AnyCachedAlphas(s, dt) ==                          (* Mutant: of any dt     *)
  IF s.alpha_cache.valid THEN s.alpha_cache ELSE FreshAlphas(dt)

(* The decay factors of the last dt are kept.                              *)
Alphas(s, dt) ==
  IF s.alpha_cache.valid /\ s.alpha_cache.dt = dt THEN s.alpha_cache
                                                  ELSE FreshAlphas(dt)

AlwaysTimely(s, now) == TRUE                       (* Mutant: no check      *)

Timely(s, now) == now >= s.last_update_ts

(* get_emas, and the cache it leaves behind.                               *)
Integrate(s, now, alphas) ==
  IF s.price_scale = 0 THEN [fast |-> 0, slow |-> 0]
  ELSE [fast |-> ema_with_alpha(s.fast_ema, s.last_prices, s.price_scale,
                                alphas.fast),
        slow |-> ema_with_alpha(s.slow_ema, s.last_prices, s.price_scale,
                                alphas.slow)]

get_emas(s, now) ==
  IF now = s.last_update_ts THEN [fast |-> s.fast_ema, slow |-> s.slow_ema]
  ELSE Integrate(s, now, Alphas(s, now - s.last_update_ts))

CacheAfter(s, now) ==
  IF s.price_scale = 0 \/ now = s.last_update_ts THEN s.alpha_cache
  ELSE Alphas(s, now - s.last_update_ts)

(* The slow average, pushed on by kappa times its distance to the fast one.*)
raw_target(s, now) ==
  LET e == get_emas(s, now)
      step == (kappa * Apart(e.fast, e.slow)) \div PRECISION
  IN  IF e.fast >= e.slow THEN e.slow + step ELSE e.slow - Least(step, e.slow)

current_cap(s, now) ==
  min_cap + ((max_cap - min_cap)
               * Least(now - s.last_update_ts, CAP_RAMP_SECONDS))
                \div CAP_RAMP_SECONDS

TargetUncapped(s, now) ==                          (* Mutant: no cap        *)
  LET target == raw_target(s, now)
      gap == 5 * Apart(target, s.price_scale)
  IN  IF target >= s.price_scale THEN s.price_scale + gap
                                 ELSE s.price_scale - Least(gap, s.price_scale)

(* get_price_scale: the pool moves a fifth of the way, so five times the   *)
(* move is asked for.  Before the first update there is no target.         *)
PolicyTarget(s, now) ==
  LET current == s.price_scale
      target == raw_target(s, now)
      gap == Apart(target, current)
      max_move == (current * current_cap(s, now)) \div PRECISION
      desired == 5 * Least(gap, max_move)
  IN  IF current = 0 THEN 0
      ELSE IF gap * PRECISION <= current * deadband THEN current
      ELSE IF target >= current THEN current + desired ELSE current - desired

(* update_state: the averages take in the price that stood until now.      *)
PolicyUpdate(s, now, scale, oracle, last) ==
  LET e == IF s.price_scale = 0 THEN [fast |-> oracle, slow |-> oracle]
           ELSE get_emas(s, now)
  IN  [last_update_ts |-> now, last_prices |-> last,
       fast_ema |-> e.fast, slow_ema |-> e.slow,
       price_scale |-> scale, alpha_cache |-> CacheAfter(s, now)]
=============================================================================
