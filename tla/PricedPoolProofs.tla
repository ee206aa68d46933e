-------------------------- MODULE PricedPoolProofs --------------------------
(***************************************************************************)
(* What PricedPool keeps in step, for all prices, times and parameters:    *)
(* the scale the policy knows is the pool's, its averages take in each     *)
(* second once, its target is never zero, and what it asks for is capped.  *)
(***************************************************************************)
EXTENDS PricedPool, PoolArithmetic, TLAPS

(* What the constructor accepts is assumed of the parameters throughout.   *)
USE DEF validate_params

(* The policy's memory: times and averages, and whether it was ever told.  *)
Memory ==
  [last_update_ts : Nat, last_prices : Nat, fast_ema : Nat, slow_ema : Nat,
   price_scale : Nat,
   alpha_cache : [valid : BOOLEAN, dt : Int,
                  fast : 0 .. PRECISION, slow : 0 .. PRECISION]]

(* The memo holds the decay factors of the interval it names.              *)
CacheHolds(s) ==
  s.alpha_cache.valid => s.alpha_cache = FreshAlphas(s.alpha_cache.dt)

(* The inductive invariant.  Prices stay positive: with a scale of zero    *)
(* the policy would take itself for unused and start again from the oracle.*)
Inv ==
  /\ block_timestamp \in Nat /\ last_timestamp \in Nat
  /\ research \in Nat /\ builds \in Nat /\ calls \in Nat
  /\ cached_price_scale \in Nat \ {0} /\ cached_price_oracle \in Nat \ {0}
  /\ last_prices \in Nat \ {0}
  /\ seeded \in BOOLEAN
  /\ policy \in Memory /\ CacheHolds(policy)
  /\ PolicySeesPoolScale

-----------------------------------------------------------------------------
(* Averages.                                                               *)

LEMMA ClampPositive ==
  ASSUME NEW observation \in Nat \ {0}, NEW scale \in Nat \ {0}
  PROVE  clamp_observation(observation, scale) \in Nat \ {0}
BY DEF clamp_observation

LEMMA AverageNat ==
  ASSUME NEW old \in Nat, NEW observation \in Nat, NEW scale \in Nat,
         NEW alpha \in 0 .. PRECISION
  PROVE  ema_with_alpha(old, observation, scale, alpha) \in Nat
<1> DEFINE seen == clamp_observation(observation, scale)
<1>1. seen \in Nat
  BY DEF clamp_observation
<1>2. seen * (PRECISION - alpha) \in Nat /\ old * alpha \in Nat
  BY <1>1, MulNat, PolicyAssumption
<1> HIDE DEF seen
<1>3. (seen * (PRECISION - alpha) + old * alpha) \div PRECISION \in Nat
  BY <1>2, DivNat, PolicyAssumption
<1> QED BY <1>3 DEF ema_with_alpha, seen

LEMMA AveragePositive ==
  ASSUME NEW old \in Nat \ {0}, NEW observation \in Nat \ {0},
         NEW scale \in Nat \ {0}, NEW alpha \in 0 .. PRECISION
  PROVE  ema_with_alpha(old, observation, scale, alpha) \in Nat \ {0}
<1> DEFINE seen == clamp_observation(observation, scale)
           mean == (old * alpha + seen * (PRECISION - alpha)) \div PRECISION
<1>1. seen \in Nat \ {0}
  BY ClampPositive
<1> HIDE DEF seen
<1>2. mean \in Nat /\ (mean \in old .. seen \/ mean \in seen .. old)
  <2>1. PRECISION \in Nat \ {0}
    BY PolicyAssumption
  <2> QED BY <1>1, <2>1, MeanNat
<1>3. mean # 0
  <2> HIDE DEF mean
  <2> QED BY <1>1, <1>2
<1>4. old * alpha \in Nat /\ seen * (PRECISION - alpha) \in Nat
  BY <1>1, MulNat, PolicyAssumption
<1>5. seen * (PRECISION - alpha) + old * alpha
        = old * alpha + seen * (PRECISION - alpha)
  BY <1>4
<1> QED BY <1>2, <1>3, <1>5 DEF ema_with_alpha, seen

LEMMA DecayBounded ==
  ASSUME NEW dt, NEW half_life \in {fast_half_life, slow_half_life}
  PROVE  ema_alpha(dt, half_life) \in 0 .. PRECISION
BY DecayAssumption, PolicyAssumption DEF ema_alpha

LEMMA AlphasTyped ==
  ASSUME NEW s \in Memory, NEW dt \in Int
  PROVE  Alphas(s, dt) \in [valid : BOOLEAN, dt : Int,
                            fast : 0 .. PRECISION, slow : 0 .. PRECISION]
BY DecayBounded DEF Alphas, FreshAlphas, Memory

LEMMA AveragesNat ==
  ASSUME NEW s \in Memory, NEW now \in Nat
  PROVE  get_emas(s, now) \in [fast : Nat, slow : Nat]
<1> DEFINE alphas == Alphas(s, now - s.last_update_ts)
<1>1. s.last_update_ts \in Nat /\ s.fast_ema \in Nat /\ s.slow_ema \in Nat
      /\ s.last_prices \in Nat /\ s.price_scale \in Nat
  BY DEF Memory
<1>2. alphas.fast \in 0 .. PRECISION /\ alphas.slow \in 0 .. PRECISION
  BY <1>1, AlphasTyped
<1> HIDE DEF alphas
<1>3. Integrate(s, now, alphas) \in [fast : Nat, slow : Nat]
  BY <1>1, <1>2, AverageNat DEF Integrate
<1> QED BY <1>1, <1>3 DEF get_emas, alphas

(* What an update of s at `now` leaves behind.                             *)
Remembers(told, s, now, scale) ==
  /\ told \in Memory
  /\ CacheHolds(s) => CacheHolds(told)
  /\ told.price_scale = scale /\ told.last_update_ts = now
  /\ s.price_scale # 0 /\ now = s.last_update_ts
       => told.fast_ema = s.fast_ema /\ told.slow_ema = s.slow_ema

(* An update leaves a memory of the scale and the time it was told.        *)
LEMMA UpdateRemembers ==
  ASSUME NEW s \in Memory, NEW now \in Nat, NEW scale \in Nat,
         NEW oracle \in Nat, NEW last \in Nat
  PROVE  Remembers(PolicyUpdate(s, now, scale, oracle, last), s, now, scale)
<1>1. get_emas(s, now) \in [fast : Nat, slow : Nat]
  BY AveragesNat
<1>2. CacheAfter(s, now) \in [valid : BOOLEAN, dt : Int,
                              fast : 0 .. PRECISION, slow : 0 .. PRECISION]
  <2>1. now - s.last_update_ts \in Int
    BY DEF Memory
  <2>2. Alphas(s, now - s.last_update_ts)
          \in [valid : BOOLEAN, dt : Int,
               fast : 0 .. PRECISION, slow : 0 .. PRECISION]
    BY <2>1, AlphasTyped
  <2> QED BY <2>2 DEF CacheAfter, Memory
<1> DEFINE told == PolicyUpdate(s, now, scale, oracle, last)
<1>3. told \in Memory
  BY <1>1, <1>2 DEF PolicyUpdate, Memory
<1>4. s.price_scale # 0 /\ now = s.last_update_ts
        => told.fast_ema = s.fast_ema /\ told.slow_ema = s.slow_ema
  BY DEF PolicyUpdate, get_emas
<1>5. ASSUME CacheHolds(s) PROVE CacheHolds(told)
  <2>1. told.alpha_cache = CacheAfter(s, now)
    BY DEF PolicyUpdate
  <2>2. \/ CacheAfter(s, now) = s.alpha_cache
        \/ CacheAfter(s, now) = FreshAlphas(now - s.last_update_ts)
    BY DEF CacheAfter, Alphas
  <2>3. FreshAlphas(now - s.last_update_ts).dt = now - s.last_update_ts
    BY DEF FreshAlphas
  <2> QED BY <1>5, <2>1, <2>2, <2>3 DEF CacheHolds
<1> QED BY <1>3, <1>4, <1>5 DEF PolicyUpdate, Remembers

-----------------------------------------------------------------------------
(* The scale.                                                              *)

LEMMA RawTargetNat ==
  ASSUME NEW s \in Memory, NEW now \in Nat
  PROVE  raw_target(s, now) \in Nat
<1> DEFINE e == get_emas(s, now)
           step == (kappa * Apart(e.fast, e.slow)) \div PRECISION
<1>1. e.fast \in Nat /\ e.slow \in Nat
  BY AveragesNat
<1> HIDE DEF e
<1>2. kappa * Apart(e.fast, e.slow) \in Nat
  BY <1>1, MulNat, PolicyAssumption DEF Apart
<1>3. step \in Nat
  BY <1>2, DivNat, PolicyAssumption
<1> HIDE DEF step
<1>4. (IF e.fast >= e.slow THEN e.slow + step ELSE e.slow - Least(step, e.slow))
        \in Nat
  BY <1>1, <1>3 DEF Least
<1> QED BY <1>4 DEF raw_target, e, step

LEMMA TargetIsANumber ==
  ASSUME NEW s \in Memory, NEW now \in Nat, Timely(s, now)
  PROVE  PolicyTarget(s, now) \in Int
<1> DEFINE target == raw_target(s, now)
           cap == current_cap(s, now)
<1>1. s.price_scale \in Nat /\ s.last_update_ts \in Nat
  BY DEF Memory
<1>2. PRECISION \in Nat \ {0} /\ CAP_RAMP_SECONDS \in Nat \ {0}
      /\ kappa \in Nat /\ max_cap \in Int /\ min_cap \in Int
      /\ max_cap - min_cap \in Nat /\ deadband \in Int
  BY PolicyAssumption
<1>3. target \in Int
  <2> DEFINE e == get_emas(s, now)
  <2>1. e.fast \in Nat /\ e.slow \in Nat
    BY AveragesNat
  <2> HIDE DEF e
  <2>2. kappa * Apart(e.fast, e.slow) \in Nat
    BY <1>2, <2>1, MulNat DEF Apart
  <2>3. (kappa * Apart(e.fast, e.slow)) \div PRECISION \in Nat
    BY <1>2, <2>2, DivNat
  <2> QED BY <2>1, <2>3 DEF raw_target, Least, e
<1>4. cap \in Int
  <2>1. Least(now - s.last_update_ts, CAP_RAMP_SECONDS) \in Nat
    BY <1>1, <1>2 DEF Least, Timely
  <2>2. (max_cap - min_cap) * Least(now - s.last_update_ts, CAP_RAMP_SECONDS)
          \in Nat
    BY <1>2, <2>1, MulNat
  <2>3. ((max_cap - min_cap)
          * Least(now - s.last_update_ts, CAP_RAMP_SECONDS))
            \div CAP_RAMP_SECONDS \in Nat
    BY <1>2, <2>2, DivNat
  <2> QED BY <1>2, <2>3 DEF current_cap
<1> HIDE DEF target, cap
<1>5. (s.price_scale * cap) \div PRECISION \in Int
  BY <1>1, <1>2, <1>4
<1> QED BY <1>1, <1>3, <1>5 DEF PolicyTarget, Least, Apart, target, cap

LEMMA MovedScalePositive ==
  ASSUME NEW target \in Int, NEW oracle \in Nat \ {0},
         NEW scale \in Nat \ {0}
  PROVE  Actuator!NewPriceScale(target, oracle, scale) \in Nat \ {0}
<1> DEFINE to == Actuator!TargetPrice(target, oracle)
           norm == Actuator!Norm(to, scale)
           step == Actuator!AdjustmentStep(norm)
           new == (scale * (norm - step) + step * to) \div norm
<1>1. to \in Nat \ {0}
  BY DEF Actuator!TargetPrice
<1> HIDE DEF to
<1>2. norm \in Nat
  <2>1. to * PRECISION \in Nat
    BY <1>1, MulNat, PolicyAssumption
  <2>2. (to * PRECISION) \div scale \in Nat
    BY <2>1, DivNat
  <2> QED BY <2>2, PolicyAssumption DEF Actuator!Norm
<1> HIDE DEF norm
<1>3. step \in Nat /\ 5 * step <= norm
  BY <1>2, PriceInputAssumption DEF Actuator!AdjustmentStep
<1> HIDE DEF step
<1>4. CASE step > adjustment_step_min
  <2>1. norm \in Nat \ {0} /\ step \in 0 .. norm
    BY <1>2, <1>3, <1>4, PriceInputAssumption
  <2>2. new \in Nat /\ (new \in scale .. to \/ new \in to .. scale)
    BY <1>1, <2>1, PartOfTheWay
  <2>3. new # 0
    <3> HIDE DEF new
    <3> QED BY <1>1, <2>2
  <2> QED BY <1>4, <2>2, <2>3 DEF Actuator!NewPriceScale, to, norm, step
<1>5. CASE ~(step > adjustment_step_min)
  BY <1>5 DEF Actuator!NewPriceScale, to, norm, step
<1> QED BY <1>4, <1>5

LEMMA OraclePositive ==
  ASSUME Inv
  PROVE  Oracle \in Nat \ {0}
<1>1. pool_alpha(block_timestamp - last_timestamp) \in 0 .. PRECISION
  BY PriceInputAssumption, PolicyAssumption DEF pool_alpha
<1> QED BY <1>1, AveragePositive DEF Inv, Oracle

-----------------------------------------------------------------------------
(* Steps.                                                                  *)

(* The clock of a policy that is told never goes back, and its averages    *)
(* move with it only.                                                      *)
OnTime ==
  /\ policy'.last_update_ts >= policy.last_update_ts
  /\ <<policy.fast_ema, policy.slow_ema>>'
       # <<policy.fast_ema, policy.slow_ema>>
       => policy'.last_update_ts > policy.last_update_ts

(* What every call but a re-import does on top of the invariant.           *)
Kept == seeded => OnTime

LEMMA UnusedIsMemory == Unused \in Memory /\ CacheHolds(Unused)
BY PolicyAssumption DEF Unused, NoAlphas, Memory, CacheHolds

LEMMA InitInv == ASSUME Init PROVE Inv
<1>1. block_timestamp \in Nat /\ research \in Nat /\ calls \in Nat
      /\ builds \in Nat
  BY PriceInputAssumption DEF Init, Fresh, Historical, Built, StartTimes
<1>2. CASE Fresh
  BY <1>1, <1>2, UnusedIsMemory, PriceInputAssumption
     DEF Fresh, Inv, PolicySeesPoolScale
<1>3. CASE Historical
  <2>1. /\ cached_price_scale \in Nat \ {0} /\ cached_price_oracle \in Nat \ {0}
        /\ last_prices \in Nat \ {0} /\ last_timestamp \in Nat /\ seeded = TRUE
    BY <1>3, PriceInputAssumption DEF Historical
  <2>2. /\ policy \in Memory /\ policy.price_scale = cached_price_scale
        /\ CacheHolds(policy)
    <3>1. policy = PolicyUpdate(Unused, research, cached_price_scale,
                                cached_price_oracle, last_prices)
      BY <1>3 DEF Historical
    <3>2. Remembers(policy, Unused, research, cached_price_scale)
      BY <1>1, <2>1, <3>1, UnusedIsMemory, UpdateRemembers
    <3> QED BY <3>2, UnusedIsMemory DEF Remembers
  <2> QED BY <1>1, <2>1, <2>2 DEF Inv, PolicySeesPoolScale
<1> QED BY <1>2, <1>3 DEF Init

(* _update_policy_state, with any time it is not behind of.                *)
LEMMA UpdatePolicyStep ==
  ASSUME Inv, NEW now \in Nat, NEW scale \in Nat \ {0},
         NEW last \in Nat \ {0}, UpdatePolicy(now, scale, last)
  PROVE  /\ policy' \in Memory /\ policy'.price_scale = scale
         /\ CacheHolds(policy)' /\ Kept
<1>1. Oracle \in Nat
  BY OraclePositive
<1>2. policy' = PolicyUpdate(policy, now, scale, Oracle, last)
      /\ policy \in Memory /\ now >= policy.last_update_ts
      /\ policy.last_update_ts \in Nat
  BY DEF UpdatePolicy, Timely, Inv, Memory
<1>3. Remembers(policy', policy, now, scale)
  BY <1>1, <1>2, UpdateRemembers
<1>4. seeded => policy.price_scale # 0
  BY DEF Inv, PolicySeesPoolScale
<1>5. CacheHolds(policy')
  BY <1>3 DEF Remembers, Inv
<1> QED BY <1>2, <1>3, <1>4, <1>5 DEF Kept, OnTime, Remembers, CacheHolds

(* The calls that end in tweak_price.                                      *)
LEMMA TouchStep ==
  ASSUME Inv, Touch
  PROVE  Inv' /\ Kept
<1>1. /\ cached_price_oracle' \in Nat \ {0} /\ last_timestamp' \in Nat
      /\ calls' \in Nat /\ builds' = builds
      /\ block_timestamp' = block_timestamp /\ seeded' = seeded
  BY OraclePositive DEF Touch, UpdateOracle, Call, Count, Inv
<1>2. PICK last \in Prices :
        last_prices' = last /\ (Settle(last) \/ Rebalance(last))
  BY DEF Touch
<1>3. last \in Nat \ {0}
  BY PriceInputAssumption
<1>4. CASE Settle(last)
  <2>1. research' \in Nat /\ cached_price_scale' = cached_price_scale
    BY <1>4 DEF Settle, Inv
  <2>2. UpdatePolicy(research', cached_price_scale, last)
    BY <1>4 DEF Settle
  <2>3. /\ policy' \in Memory /\ policy'.price_scale = cached_price_scale
        /\ CacheHolds(policy)' /\ Kept
    BY <1>3, <2>1, <2>2, UpdatePolicyStep DEF Inv
  <2> QED BY <1>1, <1>2, <1>3, <2>1, <2>3 DEF Inv, PolicySeesPoolScale
<1>5. CASE Rebalance(last)
  <2>1. research' \in Nat /\ Timely(policy, block_timestamp)
    BY <1>5 DEF Rebalance, Inv
  <2>2. PolicyTarget(policy, block_timestamp) \in Int
    BY <2>1, TargetIsANumber DEF Inv
  <2>3. cached_price_scale' \in Nat \ {0}
    BY <1>5, <2>2, OraclePositive, MovedScalePositive
       DEF Rebalance, ScaleAfter, Inv
  <2>4. UpdatePolicy(research', cached_price_scale', last)
    BY <1>5 DEF Rebalance
  <2>5. /\ policy' \in Memory /\ policy'.price_scale = cached_price_scale'
        /\ CacheHolds(policy)' /\ Kept
    BY <1>3, <2>1, <2>3, <2>4, UpdatePolicyStep
  <2> QED BY <1>1, <1>2, <1>3, <2>1, <2>3, <2>5 DEF Inv, PolicySeesPoolScale
<1> QED BY <1>2, <1>4, <1>5

LEMMA FirstDepositStep ==
  ASSUME Inv, FirstDeposit
  PROVE  Inv' /\ Kept
<1>1. /\ policy' \in Memory /\ policy'.price_scale = cached_price_scale
      /\ CacheHolds(policy)'
  BY UpdatePolicyStep DEF FirstDeposit, Inv
<1> QED BY <1>1 DEF FirstDeposit, Call, Count, Inv, PolicySeesPoolScale, Kept

(* A policy that is not asked is as it was.                                *)
LEMMA SamePolicyOnTime ==
  ASSUME Inv, policy' = policy
  PROVE  Kept
BY DEF Kept, OnTime, Inv, Memory

LEMMA TickThrowsStep ==
  ASSUME Inv, TickThrows
  PROVE  Inv' /\ Kept
<1>1. /\ cached_price_oracle' \in Nat \ {0} /\ last_timestamp' \in Nat
      /\ calls' \in Nat /\ builds' = builds
  BY OraclePositive DEF TickThrows, UpdateOracle, Call, Count, Inv
<1>2. last_prices' \in Nat \ {0}
  BY PriceInputAssumption DEF TickThrows
<1>3. research' \in Nat /\ policy' = policy
  BY DEF TickThrows, Inv
<1> QED BY <1>1, <1>2, <1>3, SamePolicyOnTime
        DEF TickThrows, Inv, PolicySeesPoolScale, CacheHolds

LEMMA ExitStep ==
  ASSUME Inv, Exit
  PROVE  Inv' /\ Kept
<1>1. CASE Timely(policy, research)
  <2>1. policy' = PolicyUpdate(policy, research, cached_price_scale,
                               cached_price_oracle, last_prices)
    BY <1>1 DEF Exit
  <2>2. Remembers(policy', policy, research, cached_price_scale)
    BY <2>1, UpdateRemembers DEF Inv
  <2>3. Kept
    BY <1>1, <2>2 DEF Remembers, Kept, OnTime, Timely, Inv, Memory, PolicySeesPoolScale
  <2>4. CacheHolds(policy)'
    BY <2>2 DEF Remembers, Inv, CacheHolds
  <2> QED BY <2>2, <2>3, <2>4
          DEF Remembers, Exit, poolVars, Call, Count, Inv,
              PolicySeesPoolScale
<1>2. CASE ~Timely(policy, research)
  <2>1. policy' = policy
    BY <1>2 DEF Exit
  <2> QED BY <2>1, SamePolicyOnTime
          DEF Exit, poolVars, Call, Count, Inv, PolicySeesPoolScale, CacheHolds
<1> QED BY <1>1, <1>2

LEMMA SetClockStep ==
  ASSUME Inv, SetClock
  PROVE  Inv' /\ Kept
<1>1. block_timestamp' \in Nat /\ research' \in Nat /\ last_timestamp' \in Nat
  BY PriceInputAssumption DEF SetClock, Inv
<1> QED BY <1>1, SamePolicyOnTime
        DEF SetClock, Call, Count, Inv, PolicySeesPoolScale, CacheHolds

(* make_pool: the one step that may put the policy's clock back.           *)
LEMMA ReimportStep ==
  ASSUME Inv, Reimport
  PROVE  Inv' /\ builds' # builds
<1>1. block_timestamp' \in Nat /\ research' \in Nat
  BY PriceInputAssumption DEF Reimport, StartTimes
<1>2. /\ policy' \in Memory /\ policy'.price_scale = cached_price_scale
      /\ CacheHolds(policy)'
  <2>1. policy' = PolicyUpdate(Unused, research', cached_price_scale,
                               cached_price_oracle, last_prices)
    BY DEF Reimport
  <2>2. /\ cached_price_scale \in Nat /\ cached_price_oracle \in Nat
        /\ last_prices \in Nat
    BY DEF Inv
  <2>3. Remembers(policy', Unused, research', cached_price_scale)
    BY <1>1, <2>1, <2>2, UnusedIsMemory, UpdateRemembers
  <2> QED BY <2>3, UnusedIsMemory DEF Remembers, CacheHolds
<1> QED BY <1>1, <1>2 DEF Reimport, Count, Inv, PolicySeesPoolScale

LEMMA StepSound ==
  ASSUME Inv, [Next]_vars
  PROVE  Inv' /\ (builds' = builds => Kept)
<1>1. CASE FirstDeposit
  BY <1>1, FirstDepositStep
<1>2. CASE Touch
  BY <1>2, TouchStep
<1>3. CASE TickThrows
  BY <1>3, TickThrowsStep
<1>4. CASE Exit
  BY <1>4, ExitStep
<1>5. CASE SetClock
  BY <1>5, SetClockStep
<1>6. CASE Reimport
  BY <1>6, ReimportStep
<1>7. CASE UNCHANGED vars
  <2>1. policy' = policy
    BY <1>7 DEF vars
  <2> QED BY <1>7, <2>1, SamePolicyOnTime
          DEF vars, poolVars, Inv, PolicySeesPoolScale, CacheHolds
<1> QED BY <1>1, <1>2, <1>3, <1>4, <1>5, <1>6, <1>7 DEF Next

-----------------------------------------------------------------------------
(* The policy and the pool agree on the scale, whatever is refused, undone *)
(* or imported on the way (tweak_price, remove_liquidity, make_pool), and  *)
(* prices stay positive.                                                   *)
THEOREM PoolAndPolicyAgree == Spec => [](Inv /\ PolicySeesPoolScale)
<1>1. Inv => PolicySeesPoolScale
  BY DEF Inv
<1>2. Inv /\ [Next]_vars => Inv'
  BY StepSound
<1> QED BY <1>1, <1>2, InitInv, PTL DEF Spec

(* The averages take in every second once, under a clock that is set back  *)
(* and forth, exits the policy refuses and ticks that throw (get_emas).    *)
THEOREM SecondsCountOnce == Spec => EachSecondCountsOnce
<1> DEFINE A == seeded /\ builds' = builds => OnTime
<1>1. Inv /\ [Next]_vars => [A]_vars
  BY StepSound DEF Kept
<1>2. Spec => []Inv
  BY PoolAndPolicyAgree, PTL
<1>3. EachSecondCountsOnce <=> [][A]_vars
  BY DEF EachSecondCountsOnce, OnTime
<1> QED BY <1>1, <1>2, <1>3, PTL DEF Spec

-----------------------------------------------------------------------------
(* What the policy asks for.                                               *)

(* Reusing the decay factors of the last interval never shows: what        *)
(* get_emas answers is what it would answer without the memo.              *)
THEOREM CacheNeverShows == Spec => []CacheIsTransparent
<1>1. Inv => CacheIsTransparent
  <2> SUFFICES ASSUME Inv, NEW now \in Clocks, now > policy.last_update_ts
               PROVE  get_emas(policy, now)
                        = Integrate(policy, now,
                                    FreshAlphas(now - policy.last_update_ts))
    BY DEF CacheIsTransparent
  <2>1. now \in Nat /\ policy.last_update_ts \in Nat
    BY PriceInputAssumption DEF Clocks, Inv, Memory
  <2>2. now # policy.last_update_ts
    BY <2>1
  <2>3. Alphas(policy, now - policy.last_update_ts)
          = FreshAlphas(now - policy.last_update_ts)
    BY DEF Alphas, CacheHolds, Inv
  <2> QED BY <2>2, <2>3 DEF get_emas
<1>2. Spec => []Inv
  BY PoolAndPolicyAgree, PTL
<1> QED BY <1>1, <1>2, PTL

LEMMA CapBounded ==
  ASSUME NEW s \in Memory, NEW now \in Nat, Timely(s, now)
  PROVE  current_cap(s, now) \in Nat /\ current_cap(s, now) <= max_cap
<1> DEFINE age == Least(now - s.last_update_ts, CAP_RAMP_SECONDS)
<1>1. /\ CAP_RAMP_SECONDS \in Nat \ {0} /\ max_cap - min_cap \in Nat
      /\ min_cap \in Nat /\ max_cap \in Nat
  <2>1. PRECISION \div 10000 \in Nat /\ (60 * PRECISION) \div 10000 \in Int
    BY DivNat, PolicyAssumption
  <2> QED BY <2>1, PolicyAssumption
<1>2. age \in 0 .. CAP_RAMP_SECONDS
  BY <1>1 DEF Least, Timely, Memory
<1> HIDE DEF age
<1>3. ((max_cap - min_cap) * age) \div CAP_RAMP_SECONDS \in 0 .. max_cap - min_cap
  BY <1>1, <1>2, PartOfWhole
<1> QED BY <1>1, <1>3 DEF current_cap, age

(* A target that is some number of steps away from the scale, none of them *)
(* larger than the cap, and for a reason.                                  *)
CappedTarget(s, now, target) ==
  \E move \in Nat :
    /\ PRECISION * move <= s.price_scale * current_cap(s, now)
    /\ target = s.price_scale + 5 * move \/ target = s.price_scale - 5 * move
    /\ target # s.price_scale =>
         PRECISION * Apart(raw_target(s, now), s.price_scale)
           > deadband * s.price_scale

LEMMA TargetIsCapped ==
  ASSUME NEW s \in Memory, NEW now \in Nat, Timely(s, now), s.price_scale # 0
  PROVE  CappedTarget(s, now, PolicyTarget(s, now))
<1> DEFINE current == s.price_scale
           raw == raw_target(s, now)
           cap == current_cap(s, now)
           gap == Apart(raw, current)
           max_move == (current * cap) \div PRECISION
           move == Least(gap, max_move)
           target == PolicyTarget(s, now)
<1>1. /\ current \in Nat \ {0} /\ PRECISION \in Nat \ {0} /\ cap \in Nat
      /\ deadband \in Int
  BY CapBounded, PolicyAssumption DEF Memory
<1>2. gap \in Nat
  BY RawTargetNat DEF Apart, Memory
<1> HIDE DEF raw, cap, gap, current
<1>3. max_move \in Nat /\ PRECISION * max_move <= current * cap
  BY <1>1, MulNat, DivNat
<1> HIDE DEF max_move
<1>4. move \in Nat /\ move <= max_move
  BY <1>2, <1>3 DEF Least
<1> HIDE DEF move
<1>5. PRECISION * move <= current * cap
  <2>1. PRECISION * move <= PRECISION * max_move
    BY <1>1, <1>3, <1>4, MulMonotone
  <2>2. /\ PRECISION * move \in Int /\ PRECISION * max_move \in Int
        /\ current * cap \in Int
    BY <1>1, <1>3, <1>4
  <2> QED BY <1>3, <2>1, <2>2
<1>6. target = IF gap * PRECISION <= current * deadband THEN current
               ELSE IF raw >= current THEN current + 5 * move
                                      ELSE current - 5 * move
  BY <1>1 DEF PolicyTarget, current, raw, cap, gap, max_move, move
<1> HIDE DEF target
<1>7. CASE gap * PRECISION <= current * deadband
  <2>1. target = current /\ 0 \in Nat /\ current + 5 * 0 = current
        /\ PRECISION * 0 <= current * cap
    BY <1>1, <1>6, <1>7, MulNat
  <2>2. \E m \in Nat : /\ PRECISION * m <= current * cap
                       /\ target = current + 5 * m
    BY <2>1
  <2> QED BY <2>1, <2>2 DEF CappedTarget, current, cap, target
<1>8. CASE ~(gap * PRECISION <= current * deadband)
  <2>1. target = current + 5 * move \/ target = current - 5 * move
    BY <1>6, <1>8
  <2>2. PRECISION * gap > deadband * current
    <3>1. gap * PRECISION = PRECISION * gap /\ gap * PRECISION \in Int
          /\ current * deadband = deadband * current /\ current * deadband \in Int
      BY <1>1, <1>2
    <3> QED BY <1>8, <3>1
  <2> QED BY <1>4, <1>5, <2>1, <2>2 DEF CappedTarget, current, cap, raw, gap, target
<1> QED BY <1>7, <1>8

(* Five steps of at most 60 basis points leave more than nothing.          *)
LEMMA TargetPositive ==
  ASSUME NEW s \in Memory, NEW now \in Nat, Timely(s, now), s.price_scale # 0
  PROVE  PolicyTarget(s, now) \in Nat \ {0}
<1> DEFINE current == s.price_scale
           cap == current_cap(s, now)
           target == PolicyTarget(s, now)
<1>1. PICK move \in Nat :
        /\ PRECISION * move <= current * cap
        /\ target = current + 5 * move \/ target = current - 5 * move
  BY TargetIsCapped DEF CappedTarget
<1>2. /\ current \in Nat \ {0} /\ PRECISION \in Nat \ {0} /\ cap \in Nat
      /\ 10000 * cap <= 60 * PRECISION
  <2>1. cap \in Nat /\ cap <= (60 * PRECISION) \div 10000
    <3>1. max_cap \in Int /\ (60 * PRECISION) \div 10000 \in Int
      BY PolicyAssumption
    <3> QED BY <3>1, CapBounded, PolicyAssumption
  <2>2. PRECISION \in Nat \ {0}
    BY PolicyAssumption
  <2> HIDE DEF cap
  <2>3. 10000 * cap <= 60 * PRECISION
    BY <2>1, <2>2
  <2> QED BY <2>1, <2>2, <2>3 DEF Memory
<1> HIDE DEF current, cap, target
<1>3. 5 * move < current
  <2>1. current * (10000 * cap) <= current * (60 * PRECISION)
    <3>1. 10000 * cap \in Int /\ 60 * PRECISION \in Int
      BY <1>2
    <3> QED BY <1>2, <3>1, MulMonotone
  <2>2. /\ current * (10000 * cap) = 10000 * (current * cap)
        /\ current * (60 * PRECISION) = PRECISION * (60 * current)
        /\ 10000 * (PRECISION * move) = PRECISION * (10000 * move)
    BY <1>2
  <2>3. PRECISION * (10000 * move) <= PRECISION * (60 * current)
    <3>1. /\ current * cap \in Int /\ PRECISION * move \in Int
          /\ PRECISION * (10000 * move) \in Int
          /\ PRECISION * (60 * current) \in Int
      BY <1>2
    <3> QED BY <1>1, <2>1, <2>2, <3>1
  <2>4. 10000 * move <= 60 * current
    BY <1>2, <2>3
  <2> QED BY <1>2, <2>4
<1>4. target \in Nat \ {0}
  BY <1>1, <1>2, <1>3
<1> QED BY <1>4 DEF target

(* A policy that was told a scale never answers zero, "none": the pool     *)
(* follows its policy and not its own oracle (get_price_scale).            *)
THEOREM PolicyAlwaysAnswers == Spec => []PolicyKeepsTheScale
<1>1. Inv => PolicyKeepsTheScale
  <2> SUFFICES ASSUME Inv, seeded, NEW now \in Clocks, Timely(policy, now)
               PROVE  PolicyTarget(policy, now) > 0
    BY DEF PolicyKeepsTheScale
  <2>1. now \in Nat
    BY PriceInputAssumption DEF Clocks
  <2>2. policy \in Memory /\ policy.price_scale # 0
    BY DEF Inv, PolicySeesPoolScale
  <2>3. PolicyTarget(policy, now) \in Nat \ {0}
    BY <2>1, <2>2, TargetPositive
  <2> QED BY <2>3
<1>2. Spec => []Inv
  BY PoolAndPolicyAgree, PTL
<1> QED BY <1>1, <1>2, PTL

-----------------------------------------------------------------------------
(* What the pool makes of it.                                              *)

LEMMA MoveTowards ==
  ASSUME NEW to \in Nat \ {0}, NEW oracle \in Nat \ {0},
         Apart(to, oracle) <= oracle \div 5,
         NEW scale \in Nat \ {0},
         NEW new, new = Actuator!NewPriceScale(to, oracle, scale), new # scale
  PROVE  /\ new \in Nat
         /\ to # scale /\ (new > scale <=> to > scale)
         /\ 5 * (Apart(new, scale) - 1) <= Apart(to, scale)
<1> DEFINE norm == Actuator!Norm(to, scale)
           step == Actuator!AdjustmentStep(norm)
<1>1. Actuator!TargetPrice(to, oracle) = to
  BY DEF Actuator!TargetPrice, Apart
<1>2. norm \in Nat
  <2>1. to * PRECISION \in Nat
    BY MulNat, PolicyAssumption
  <2>2. (to * PRECISION) \div scale \in Nat
    BY <2>1, DivNat
  <2> QED BY <2>2, PolicyAssumption DEF Actuator!Norm
<1>3. step \in Nat /\ 5 * step <= norm
  <2> HIDE DEF norm
  <2> QED BY <1>2, PriceInputAssumption DEF Actuator!AdjustmentStep
<1>4. step > 0 /\ new = (scale * (norm - step) + step * to) \div norm
  BY <1>1, <1>3, PriceInputAssumption DEF Actuator!NewPriceScale
<1> HIDE DEF norm, step
<1>5. norm \in Nat \ {0}
  BY <1>2, <1>3, <1>4
<1>6. /\ new \in Nat
      /\ to # scale /\ (new > scale <=> to > scale)
      /\ scale < to => 5 * (new - scale) <= to - scale
      /\ to <= scale => 5 * (scale - new - 1) <= scale - to
  BY <1>3, <1>4, <1>5, FifthOfTheWay
<1> QED BY <1>6 DEF Apart

LEMMA FifthOfTheRequest ==
  ASSUME NEW scale \in Nat, NEW budget \in Nat, NEW move \in Nat,
         PRECISION * move <= budget,
         NEW target \in Nat,
         target = scale + 5 * move \/ target = scale - 5 * move,
         NEW new \in Nat, new # scale, new > scale <=> target > scale,
         5 * (Apart(new, scale) - 1) <= Apart(target, scale)
  PROVE  PRECISION * (Apart(new, scale) - 1) <= budget
<1> DEFINE moved == Apart(new, scale)
<1>2. moved \in Nat /\ moved - 1 <= move
  BY DEF Apart
<1> HIDE DEF moved
<1>3. PRECISION \in Nat
  BY PolicyAssumption
<1>4. PRECISION * (moved - 1) <= PRECISION * move
  BY <1>2, <1>3, MulMonotone
<1>5. PRECISION * (moved - 1) \in Int /\ PRECISION * move \in Int
  BY <1>2, <1>3
<1> QED BY <1>4, <1>5 DEF moved

LEMMA RebalanceWithinCap ==
  ASSUME Inv, seeded, NEW last, Rebalance(last),
         ~Clamped(PolicyTarget(policy, block_timestamp))
  PROVE  /\ PRECISION * (Apart(cached_price_scale', cached_price_scale) - 1)
              <= cached_price_scale * current_cap(policy, block_timestamp)
         /\ cached_price_scale' > cached_price_scale
              <=> PolicyTarget(policy, block_timestamp) > cached_price_scale
         /\ PRECISION * Apart(raw_target(policy, block_timestamp),
                              cached_price_scale)
              > deadband * cached_price_scale
<1> DEFINE scale == cached_price_scale
           new == cached_price_scale'
           target == PolicyTarget(policy, block_timestamp)
           cap == current_cap(policy, block_timestamp)
           moved == Apart(new, scale)
<1>1. /\ policy \in Memory /\ policy.price_scale = scale
      /\ scale \in Nat \ {0} /\ block_timestamp \in Nat
      /\ Timely(policy, block_timestamp)
      /\ new = Actuator!NewPriceScale(target, Oracle, scale) /\ new # scale
  BY DEF Inv, PolicySeesPoolScale, Rebalance, ScaleAfter
<1>2. target \in Nat \ {0} /\ cap \in Nat /\ PRECISION \in Nat \ {0}
  BY <1>1, TargetPositive, CapBounded, PolicyAssumption
<1>3. Oracle \in Nat \ {0} /\ Apart(target, Oracle) <= Oracle \div 5
  <2>1. Oracle \in Nat \ {0}
    BY OraclePositive
  <2> QED BY <1>2, <2>1 DEF Clamped, Apart
<1>4. PICK move \in Nat :
        /\ PRECISION * move <= scale * cap
        /\ target = scale + 5 * move \/ target = scale - 5 * move
        /\ target # scale =>
             PRECISION * Apart(raw_target(policy, block_timestamp), scale)
               > deadband * scale
  BY <1>1, TargetIsCapped DEF CappedTarget
<1> HIDE DEF target, cap
<1>5. /\ new \in Nat
      /\ target # scale /\ (new > scale <=> target > scale)
      /\ 5 * (moved - 1) <= Apart(target, scale)
  BY <1>1, <1>2, <1>3, MoveTowards
<1> HIDE DEF new, scale, moved
<1>6. scale * cap \in Nat
  BY <1>1, <1>2, MulNat
<1>7. PRECISION * (Apart(new, scale) - 1) <= scale * cap
  <2> DEFINE budget == scale * cap
  <2>1. budget \in Nat /\ PRECISION * move <= budget
    BY <1>4, <1>6
  <2>2. target = scale + 5 * move \/ target = scale - 5 * move
    BY <1>4
  <2>3. scale \in Nat /\ target \in Nat /\ new # scale
    BY <1>1, <1>2
  <2>4. /\ new \in Nat /\ (new > scale <=> target > scale)
        /\ 5 * (Apart(new, scale) - 1) <= Apart(target, scale)
    BY <1>5 DEF moved
  <2> HIDE DEF budget
  <2>5. PRECISION * (Apart(new, scale) - 1) <= budget
    BY <2>1, <2>2, <2>3, <2>4, FifthOfTheRequest
  <2> QED BY <2>5 DEF budget
<1>8. PRECISION * Apart(raw_target(policy, block_timestamp), scale) > deadband * scale
  BY <1>4, <1>5
<1> QED BY <1>5, <1>7, <1>8 DEF new, scale, target, cap

(* Unless the clamp took over, a rebalance goes where the policy points,   *)
(* no further than the cap it had earned before the call, and only when    *)
(* the averages are out of the deadband (get_price_scale, tweak_price).    *)
THEOREM MovesAreCapped == Spec => MovesWithinCap
<1> DEFINE A ==
  cached_price_scale' # cached_price_scale =>
       LET target == PolicyTarget(policy, block_timestamp)
       IN  Clamped(target) \/
           /\ PRECISION * (Apart(cached_price_scale', cached_price_scale) - 1)
                <= cached_price_scale * current_cap(policy, block_timestamp)
           /\ cached_price_scale' > cached_price_scale
                <=> target > cached_price_scale
           /\ PRECISION * Apart(raw_target(policy, block_timestamp),
                                cached_price_scale)
                > deadband * cached_price_scale
<1>1. ASSUME Inv, [Next]_vars PROVE A
  <2>1. ASSUME cached_price_scale' # cached_price_scale
        PROVE  seeded /\ \E last \in Prices : Rebalance(last)
    BY <1>1, <2>1
       DEF Next, FirstDeposit, Touch, Settle, TickThrows, Exit, SetClock,
           Reimport, vars, poolVars
  <2> QED BY <1>1, <2>1, RebalanceWithinCap
<1>2. Spec => []Inv
  BY PoolAndPolicyAgree, PTL
<1>3. Inv /\ [Next]_vars => [A]_vars
  BY <1>1
<1>4. MovesWithinCap <=> [][A]_vars
  BY DEF MovesWithinCap
<1> QED BY <1>2, <1>3, <1>4, PTL DEF Spec
=============================================================================
