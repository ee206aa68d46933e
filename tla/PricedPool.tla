----------------------------- MODULE PricedPool -----------------------------
(***************************************************************************)
(* A pool whose price scale follows the dual-EMA policy: the prices and    *)
(* clocks of TwoCryptoPool, the context it hands to the policy, and the    *)
(* policy's memory.  The pool starts fresh or from a historical state      *)
(* (make_pool).  Amounts are left out: the price after a call is any of    *)
(* Prices, and whether there is profit for a move is a choice.             *)
(*                                                                         *)
(* A call that throws changes nothing (PoolTransaction); tick is undone by *)
(* nobody, and a withdrawal does not depend on the policy.                 *)
(***************************************************************************)
EXTENDS DualEmaPolicy

CONSTANTS
  adjustment_step_min, adjustment_step_max,
  POOL_DECAY,          (* POOL_DECAY[dt] is e^(-dt / ma_time)               *)
  Prices,              (* what the curve may quote after a call             *)
  Scales,              (* where the scale may start                         *)
  Timestamps,          (* block times                                       *)
  WallClock,           (* the system clock when the pool is built           *)
  MaxCalls             (* bound on the calls made                           *)

ASSUME PriceInputAssumption ==
  /\ Prices \subseteq Nat \ {0} /\ Scales \subseteq Nat \ {0}
  /\ Timestamps \subseteq Nat \ {0} /\ WallClock \in Nat \ {0}
  /\ adjustment_step_min \in Nat /\ adjustment_step_max \in Nat
  /\ MaxCalls \in Nat
  /\ \A dt \in DOMAIN POOL_DECAY : POOL_DECAY[dt] \in 0 .. PRECISION

VARIABLES
  block_timestamp, last_timestamp,
  cached_price_scale, cached_price_oracle, last_prices,
  seeded,              (* D > 0                                             *)
  research,            (* the block time the policy is told                 *)
  policy,              (* its State                                         *)
  calls,
  builds               (* history: how often make_pool has built it         *)

poolVars == <<block_timestamp, last_timestamp, cached_price_scale,
              cached_price_oracle, last_prices, seeded>>
vars == <<poolVars, research, policy, calls, builds>>

Actuator == INSTANCE PriceScaleActuator

(* start_ts: from the sequence or the configuration, 0 when neither has it *)
StartTimes == Timestamps \cup {0}

(* The constructor, and set_block_timestamp when a start is given.         *)
Built(start) ==
  /\ block_timestamp = IF start > 0 THEN start ELSE WallClock
  /\ research = start
  /\ calls = 0 /\ builds = 1

Fresh ==
  /\ \E start \in StartTimes : Built(start)
  /\ last_timestamp = block_timestamp
  /\ cached_price_scale \in Scales
  /\ cached_price_oracle = cached_price_scale
  /\ last_prices = cached_price_scale
  /\ seeded = FALSE /\ policy = Unused

(* A historical state has positive prices and a clock, and no memory of    *)
(* the policy: that starts from the pool (initialize_policy_state_from_pool)*)
Historical ==
  /\ \E start \in StartTimes : Built(start)
  /\ last_timestamp \in Timestamps
  /\ cached_price_scale \in Scales
  /\ cached_price_oracle \in Scales /\ last_prices \in Prices
  /\ seeded = TRUE
  /\ policy = PolicyUpdate(Unused, research, cached_price_scale,
                           cached_price_oracle, last_prices)

Init == Fresh \/ Historical

-----------------------------------------------------------------------------
Count == calls < MaxCalls /\ calls' = calls + 1
Call == Count /\ UNCHANGED builds

pool_alpha(dt) == IF dt \in DOMAIN POOL_DECAY THEN POOL_DECAY[dt] ELSE 0

Oracle ==
  IF last_timestamp < block_timestamp
    THEN ema_with_alpha(cached_price_oracle, last_prices, cached_price_scale,
                        pool_alpha(block_timestamp - last_timestamp))
    ELSE cached_price_oracle

NewBlock == last_timestamp < block_timestamp

UpdateOracle ==
  /\ cached_price_oracle' = Oracle
  /\ last_timestamp' = IF NewBlock THEN block_timestamp ELSE last_timestamp

ScaleAfter(target) ==
  Actuator!NewPriceScale(target, Oracle, cached_price_scale)

UpdatePolicyWithOldScale(now, scale, last) ==      (* Mutant: stale scale   *)
  /\ Timely(policy, now)
  /\ policy' = PolicyUpdate(policy, now, cached_price_scale, Oracle, last)

(* _update_policy_state at the end of a call.                              *)
UpdatePolicy(now, scale, last) ==
  /\ Timely(policy, now)
  /\ policy' = PolicyUpdate(policy, now, scale, Oracle, last)

(* No profit, no new block, or a target that changes nothing or costs too  *)
(* much: the scale stays.  Asking for a target tells the policy the time.  *)
Settle(last) ==
  /\ \E asked \in {FALSE, NewBlock} :
       research' = IF asked THEN block_timestamp ELSE research
  /\ UpdatePolicy(research', cached_price_scale, last)
  /\ UNCHANGED cached_price_scale

RebalanceAtLastPrice(last) ==                      (* Mutant: sees the call *)
  LET seen == PolicyUpdate(policy, policy.last_update_ts, cached_price_scale,
                           Oracle, last)
  IN  /\ NewBlock /\ Timely(policy, block_timestamp)
      /\ research' = block_timestamp
      /\ cached_price_scale' = ScaleAfter(PolicyTarget(seen, block_timestamp))
      /\ cached_price_scale' # cached_price_scale
      /\ UpdatePolicy(research', cached_price_scale', last)

(* The policy is asked at the new time; it does not see this call's price. *)
Rebalance(last) ==
  /\ NewBlock /\ Timely(policy, block_timestamp)
  /\ research' = block_timestamp
  /\ cached_price_scale' = ScaleAfter(PolicyTarget(policy, block_timestamp))
  /\ cached_price_scale' # cached_price_scale
  /\ UpdatePolicy(research', cached_price_scale', last)

(* add_liquidity into an empty pool: no tweak_price, the policy is told.   *)
FirstDeposit ==
  /\ Call /\ ~seeded /\ seeded' = TRUE
  /\ UpdatePolicy(research, cached_price_scale, last_prices)
  /\ UNCHANGED <<block_timestamp, last_timestamp, cached_price_scale,
                 cached_price_oracle, last_prices, research>>

(* exchange, add_liquidity, remove_liquidity_fixed_out and tick.           *)
Touch ==
  /\ Call /\ seeded
  /\ UpdateOracle
  /\ \E last \in Prices :
       /\ last_prices' = last
       /\ Settle(last) \/ Rebalance(last)
  /\ UNCHANGED <<block_timestamp, seeded>>

(* A tick that the policy refuses: what tweak_price wrote before stays.    *)
TickThrows ==
  /\ Call /\ seeded
  /\ ~Timely(policy, block_timestamp) \/ ~Timely(policy, research)
  /\ UpdateOracle
  /\ last_prices' \in Prices
  /\ \E asked \in {FALSE, NewBlock} :
       /\ research' = IF asked THEN block_timestamp ELSE research
       /\ ~Timely(policy, research')
  /\ UNCHANGED <<block_timestamp, cached_price_scale, seeded, policy>>

(* remove_liquidity: the policy is told, best effort.  The pool's oracle   *)
(* and its clock stay behind.                                              *)
Exit ==
  /\ Call /\ seeded
  /\ policy' = IF Timely(policy, research)
                 THEN PolicyUpdate(policy, research, cached_price_scale,
                                   cached_price_oracle, last_prices)
                 ELSE policy
  /\ UNCHANGED <<poolVars, research>>

(* set_block_timestamp and advance_time.                                   *)
SetClock ==
  /\ Call
  /\ block_timestamp' \in Timestamps /\ research' = block_timestamp'
  /\ last_timestamp' = IF seeded THEN last_timestamp ELSE block_timestamp'
  /\ UNCHANGED <<cached_price_scale, cached_price_oracle, last_prices,
                 seeded, policy>>

(* make_pool again, from the state this pool was exported in: what the     *)
(* policy remembered is lost.  A start before the export is refused.       *)
Reimport ==
  /\ Count /\ seeded
  /\ builds' = builds + 1
  /\ \E start \in StartTimes :
       /\ start > 0 => start >= block_timestamp
       /\ block_timestamp' = IF start > 0 THEN start ELSE WallClock
       /\ research' = start
  /\ policy' = PolicyUpdate(Unused, research', cached_price_scale,
                            cached_price_oracle, last_prices)
  /\ UNCHANGED <<last_timestamp, cached_price_scale, cached_price_oracle,
                 last_prices, seeded>>

Next == FirstDeposit \/ Touch \/ TickThrows \/ Exit \/ SetClock \/ Reimport

Spec == Init /\ [][Next]_vars

-----------------------------------------------------------------------------
Clocks == Timestamps \cup {0, WallClock}

(* Whatever is refused or undone on the way, the policy reasons about the  *)
(* scale the pool has (tweak_price, remove_liquidity and make_pool each    *)
(* tell it).                                                               *)
PolicySeesPoolScale == seeded => policy.price_scale = cached_price_scale

(* The memo of the decay factors is never taken for another interval       *)
(* (get_emas).                                                             *)
CacheIsTransparent ==
  seeded => \A now \in Clocks :
    now > policy.last_update_ts =>
      get_emas(policy, now) =
        Integrate(policy, now, FreshAlphas(now - policy.last_update_ts))

(* A policy that has been told a scale always answers: zero, which hands   *)
(* the scale to the pool's own oracle, is never its target                 *)
(* (get_price_scale).                                                      *)
PolicyKeepsTheScale ==
  seeded => \A now \in Clocks :
    Timely(policy, now) => PolicyTarget(policy, now) > 0

(* The clock of the averages never goes back, however the caller sets the  *)
(* pool's: no second is counted twice, and the averages only move when     *)
(* time passes (get_emas, update_state).                                   *)
EachSecondCountsOnce ==
  [][seeded /\ builds' = builds =>
       /\ policy'.last_update_ts >= policy.last_update_ts
       /\ <<policy.fast_ema, policy.slow_ema>>'
            # <<policy.fast_ema, policy.slow_ema>>
            => policy'.last_update_ts > policy.last_update_ts]_vars

(* Clamped: the policy's target lies further than a fifth from the oracle. *)
Clamped(target) == Apart(target, Oracle) > Oracle \div 5

(* The price a call ends at has no say in the move the call makes, and a   *)
(* move is no larger than the cap earned since the policy was last told,   *)
(* up to rounding (get_price_scale, tweak_price).                          *)
MovesWithinCap ==
  [][cached_price_scale' # cached_price_scale =>
       LET target == PolicyTarget(policy, block_timestamp)
       IN  Clamped(target) \/
           /\ PRECISION * (Apart(cached_price_scale', cached_price_scale) - 1)
                <= cached_price_scale * current_cap(policy, block_timestamp)
           /\ cached_price_scale' > cached_price_scale
                <=> target > cached_price_scale
           /\ PRECISION * Apart(raw_target(policy, block_timestamp),
                                cached_price_scale)
                > deadband * cached_price_scale]_vars
=============================================================================
