------------------------- MODULE ReportedPoolProofs -------------------------
(***************************************************************************)
(* The properties of ReportedPool, for all prices, reports, clocks and     *)
(* parameters: what a fee is at least, that waiting does not lower it, in  *)
(* which order reports are taken, and what the target is computed from.    *)
(***************************************************************************)
EXTENDS ReportedPool, PoolArithmetic

(* What the constructor accepts is assumed of the parameters throughout.   *)
USE DEF validate_params

(* No report, or one with a price and a time.                              *)
Filed == {NoReport} \cup [price : Nat \ {0}, timestamp : Nat \ {0}]

(* The policy's memory, and the context of a call.                         *)
Memory ==
  [report : Filed, last_update_ts : Nat, last_prices : Nat,
   fast_ema : Nat, slow_ema : Nat, price_scale : Nat, spot : Nat]

Context == [block_timestamp : Nat, feed : Filed]

(* The inductive invariant: a seeded policy knows the scale of its pool,   *)
(* and prices stay positive.                                               *)
Inv ==
  /\ policy \in Memory /\ research \in Context
  /\ cached_price_scale \in Nat \ {0} /\ last_prices \in Nat \ {0}
  /\ seeded => policy.price_scale = cached_price_scale

-----------------------------------------------------------------------------
(* Averages and targets.                                                   *)

LEMMA EffectiveFiled ==
  ASSUME NEW s \in Memory, NEW x \in Context
  PROVE  /\ Effective(s, x) \in Filed
         /\ Effective(s, x).price \in Nat /\ Effective(s, x).timestamp \in Nat
<1>1. s.report \in Filed /\ x.feed \in Filed
  BY DEF Memory, Context
<1>2. Effective(s, x) \in Filed
  BY <1>1 DEF Effective
<1> QED BY <1>2 DEF Filed, NoReport

LEMMA ObservationNat ==
  ASSUME NEW s \in Memory, NEW x \in Context, NEW last \in Nat
  PROVE  Observation(s, x, last) \in Nat
<1>1. x.feed.price \in Nat
  BY DEF Context, Filed, NoReport
<1>2. driver_report(s, x) \in Nat
  BY <1>1, EffectiveFiled DEF driver_report, delivered
<1> QED BY <1>2 DEF Observation

LEMMA AveragesNat ==
  ASSUME NEW s \in Memory, NEW obs \in Nat, NEW now \in Nat
  PROVE  emas(s, obs, now).fast \in Nat /\ emas(s, obs, now).slow \in Nat
<1> DEFINE o == Between(s.price_scale \div 2, obs, 2 * s.price_scale)
           alpha(half_life) == ema_alpha(now - s.last_update_ts, half_life)
           mean(old, a) == (o * (PRECISION - a) + old * a) \div PRECISION
<1>1. /\ s.price_scale \in Nat /\ s.fast_ema \in Nat /\ s.slow_ema \in Nat
      /\ PRECISION \in Nat \ {0}
  BY ReportPolicyAssumption DEF Memory
<1>2. o \in Nat
  BY <1>1 DEF Between, Larger, Smaller
<1>3. \A half_life \in {fast_half_life, slow_half_life} :
        alpha(half_life) \in 0 .. PRECISION
  BY <1>1, TableAssumption DEF ema_alpha
<1> HIDE DEF o, alpha
<1>4. ASSUME NEW old \in Nat, NEW a \in 0 .. PRECISION
      PROVE  mean(old, a) \in Nat
  <2>1. o * (PRECISION - a) \in Nat /\ old * a \in Nat
    BY <1>1, <1>2, MulNat
  <2> QED BY <1>1, <2>1, DivNat
<1>5. /\ mean(s.fast_ema, alpha(fast_half_life)) \in Nat
      /\ mean(s.slow_ema, alpha(slow_half_life)) \in Nat
  <2>1. /\ alpha(fast_half_life) \in 0 .. PRECISION
        /\ alpha(slow_half_life) \in 0 .. PRECISION
    BY <1>3
  <2> HIDE DEF mean
  <2> QED BY <1>1, <1>4, <2>1
<1>6. /\ emas(s, obs, now).fast
           = IF now <= s.last_update_ts THEN s.fast_ema
             ELSE mean(s.fast_ema, alpha(fast_half_life))
      /\ emas(s, obs, now).slow
           = IF now <= s.last_update_ts THEN s.slow_ema
             ELSE mean(s.slow_ema, alpha(slow_half_life))
  BY DEF emas, o, alpha
<1> HIDE DEF mean
<1> QED BY <1>1, <1>5, <1>6

LEMMA UpdateRemembers ==
  ASSUME NEW s \in Memory, NEW x \in Context, NEW scale \in Nat,
         NEW oracle \in Nat, NEW last \in Nat, NEW spot \in Nat
  PROVE  ReportUpdate(s, x, scale, oracle, last, spot) \in Memory
<1> DEFINE obs == Observation(s, x, last)
           e == IF s.price_scale = 0 THEN [fast |-> oracle, slow |-> oracle]
                ELSE emas(s, obs, x.block_timestamp)
<1>1. x.block_timestamp \in Nat /\ obs \in Nat
  BY ObservationNat DEF Context
<1> HIDE DEF obs
<1>2. e.fast \in Nat /\ e.slow \in Nat
  BY <1>1, AveragesNat
<1> HIDE DEF e
<1>3. ReportUpdate(s, x, scale, oracle, last, spot)
        = [report |-> Effective(s, x), last_update_ts |-> x.block_timestamp,
           last_prices |-> obs, fast_ema |-> e.fast, slow_ema |-> e.slow,
           price_scale |-> scale, spot |-> spot]
  BY DEF ReportUpdate, obs, e
<1> QED BY <1>1, <1>2, <1>3, EffectiveFiled DEF Memory

LEMMA TargetIsANumber ==
  ASSUME NEW s \in Memory, NEW x \in Context, NEW last \in Nat
  PROVE  ReportTarget(s, x, last) \in Int
<1> DEFINE obs == Observation(s, x, last)
           e == emas(s, obs, x.block_timestamp)
           apart == Away((e.fast * PRECISION) \div e.slow, PRECISION)
           w == Smaller(PRECISION, (apart * PRECISION) \div trend_gate)
           pull == (w * Away(obs, e.fast)) \div PRECISION
           trend == TrendTarget(e, obs)
<1>1. /\ obs \in Nat /\ x.block_timestamp \in Nat /\ s.price_scale \in Nat
      /\ PRECISION \in Nat \ {0} /\ trend_gate \in Nat /\ step_cap \in Nat
  BY ObservationNat, ReportPolicyAssumption DEF Context, Memory
<1> HIDE DEF obs
<1>2. e.fast \in Nat /\ e.slow \in Nat
  BY <1>1, AveragesNat
<1> HIDE DEF e
<1>3. ASSUME trend_gate # 0, e.slow # 0
      PROVE  pull \in Int
  <2>1. e.fast * PRECISION \in Nat
    BY <1>1, <1>2, MulNat
  <2>2. (e.fast * PRECISION) \div e.slow \in Nat
    BY <1>2, <1>3, <2>1, DivNat
  <2>3. apart \in Nat
    BY <1>1, <2>2 DEF Away
  <2> HIDE DEF apart
  <2>4. apart * PRECISION \in Nat
    BY <1>1, <2>3, MulNat
  <2>5. (apart * PRECISION) \div trend_gate \in Nat
    BY <1>1, <1>3, <2>4, DivNat
  <2>6. w \in Nat /\ Away(obs, e.fast) \in Nat
    BY <1>1, <1>2, <2>5 DEF Smaller, Away
  <2> HIDE DEF w
  <2>7. w * Away(obs, e.fast) \in Nat
    BY <2>6, MulNat
  <2> QED BY <1>1, <2>7, DivNat
<1>4. trend = IF trend_gate = 0 \/ e.slow = 0 THEN e.fast
              ELSE IF obs >= e.fast THEN e.fast + pull ELSE e.fast - pull
  BY DEF TrendTarget
<1> HIDE DEF pull, trend
<1>5. trend \in Int
  BY <1>2, <1>3, <1>4
<1>6. ASSUME NEW scale \in Nat PROVE Pursue(scale, trend) \in Int
  <2>1. scale * step_cap \in Nat
    BY <1>1, MulNat
  <2>2. (scale * step_cap) \div PRECISION \in Nat
    BY <1>1, <2>1, DivNat
  <2>3. Away(trend, scale) \div 2 \in Int
    BY <1>5 DEF Away
  <2> QED BY <1>5, <2>2, <2>3 DEF Pursue, Smaller
<1>7. ReportTarget(s, x, last)
        = IF s.price_scale = 0 THEN 0 ELSE Pursue(s.price_scale, trend)
  BY DEF ReportTarget, trend, e, obs
<1> QED BY <1>1, <1>6, <1>7

LEMMA MovedScalePositive ==
  ASSUME NEW target \in Int, NEW oracle \in Nat \ {0},
         NEW scale \in Nat \ {0}
  PROVE  Actuator!NewPriceScale(target, oracle, scale) \in Nat \ {0}
<1> DEFINE to == Actuator!TargetPrice(target, oracle)
           norm == Actuator!Norm(to, scale)
           step == Actuator!AdjustmentStep(norm)
           new == (scale * (norm - step) + step * to) \div norm
<1>1. to \in Nat \ {0}
  BY DEF Actuator!TargetPrice
<1> HIDE DEF to
<1>2. norm \in Nat
  <2>1. to * PRECISION \in Nat
    BY <1>1, MulNat, ReportPolicyAssumption
  <2>2. (to * PRECISION) \div scale \in Nat
    BY <2>1, DivNat
  <2> QED BY <2>2, ReportPolicyAssumption DEF Actuator!Norm
<1> HIDE DEF norm
<1>3. step \in Nat /\ 5 * step <= norm
  BY <1>2, ReportInputAssumption DEF Actuator!AdjustmentStep
<1> HIDE DEF step
<1>4. CASE step > adjustment_step_min
  <2>1. norm \in Nat \ {0} /\ step \in 0 .. norm
    BY <1>2, <1>3, <1>4, ReportInputAssumption
  <2>2. new \in Nat /\ (new \in scale .. to \/ new \in to .. scale)
    BY <1>1, <2>1, PartOfTheWay
  <2>3. new # 0
    <3> HIDE DEF new
    <3> QED BY <1>1, <2>2
  <2> QED BY <1>4, <2>2, <2>3 DEF Actuator!NewPriceScale, to, norm, step
<1>5. CASE ~(step > adjustment_step_min)
  BY <1>5 DEF Actuator!NewPriceScale, to, norm, step
<1> QED BY <1>4, <1>5

-----------------------------------------------------------------------------
(* Steps.                                                                  *)

LEMMA InitInv == Init => Inv
<1> SUFFICES ASSUME Init PROVE Inv
  OBVIOUS
<1>1. Untold \in Memory /\ NoReport \in Filed
  BY DEF Untold, Memory, Filed, NoReport
<1>2. research \in Context
  BY <1>1, ReportInputAssumption DEF Init, Context
<1>3. cached_price_scale \in Nat \ {0} /\ last_prices \in Nat \ {0}
  BY ReportInputAssumption DEF Init
<1>4. policy = Untold /\ ~seeded
  BY DEF Init, seeded, Untold
<1> QED BY <1>1, <1>2, <1>3, <1>4 DEF Inv

(* A call that tells the policy the scale of the pool, whatever it is.     *)
Told(x, scale) ==
  \E oracle \in Nat, last \in Nat, spot \in Nat :
    policy' = ReportUpdate(policy, x, scale, oracle, last, spot)

LEMMA ToldSound ==
  ASSUME Inv, NEW scale \in Nat \ {0}, Told(research, scale),
         cached_price_scale' = scale, last_prices' \in Nat \ {0},
         research' = research
  PROVE  Inv' /\ policy'.report = Effective(policy, research)
<1>1. PICK oracle \in Nat, last \in Nat, spot \in Nat :
        policy' = ReportUpdate(policy, research, scale, oracle, last, spot)
  BY DEF Told
<1>2. /\ policy \in Memory /\ research \in Context /\ scale \in Nat
      /\ oracle \in Nat /\ last \in Nat /\ spot \in Nat
  BY DEF Inv
<1> DEFINE new == ReportUpdate(policy, research, scale, oracle, last, spot)
<1>3. /\ new \in Memory /\ new.price_scale = scale
      /\ new.report = Effective(policy, research)
  <2>1. new \in Memory
    BY <1>2, UpdateRemembers
  <2>2. new.price_scale = scale
    BY DEF ReportUpdate
  <2>3. new.report = Effective(policy, research)
    BY DEF ReportUpdate
  <2> QED BY <2>1, <2>2, <2>3
<1>4. policy' = new
  BY <1>1
<1> HIDE DEF new
<1>5. /\ policy' \in Memory /\ policy'.price_scale = scale
      /\ policy'.report = Effective(policy, research)
  BY <1>3, <1>4
<1> QED BY <1>2, <1>5 DEF Inv

(* What each step does to the stored report.                               *)
Taken ==
  \/ policy'.report = policy.report
  \/ policy'.report = Effective(policy, research)

LEMMA RebalanceTyped ==
  ASSUME Inv, seeded, NEW oracle \in Prices, NEW last \in Prices,
         Rebalance(oracle, last)
  PROVE  cached_price_scale' \in Nat \ {0} /\ Told(research, cached_price_scale')
<1>1. oracle \in Nat \ {0} /\ last \in Nat
  BY ReportInputAssumption
<1>2. ReportTarget(policy, research, last) \in Int
  BY <1>1, TargetIsANumber DEF Inv
<1>3. cached_price_scale' \in Nat \ {0}
  BY <1>1, <1>2, MovedScalePositive DEF Rebalance, Inv
<1>4. PICK spot \in Prices :
        policy' = ReportUpdate(policy, research, cached_price_scale', oracle,
                               last, spot)
  BY DEF Rebalance
<1>5. oracle \in Nat /\ spot \in Nat
  BY <1>1, ReportInputAssumption
<1> QED BY <1>1, <1>3, <1>4, <1>5 DEF Told

LEMMA StepSound ==
  ASSUME Inv, [Next]_vars
  PROVE  Inv' /\ Taken
<1>1. CASE Deliver
  <2>1. PICK price \in Reports, t \in ReportTimes :
          research' = [research EXCEPT
                         !.feed = [price |-> price, timestamp |-> t]]
    BY <1>1 DEF Deliver
  <2>2. [price |-> price, timestamp |-> t] \in Filed
    BY ReportInputAssumption DEF Filed
  <2>3. research' \in Context
    BY <2>1, <2>2 DEF Inv, Context
  <2>4. UNCHANGED <<cached_price_scale, last_prices, policy>>
    BY <1>1 DEF Deliver
  <2> QED BY <2>3, <2>4 DEF Inv, Taken, seeded
<1>2. CASE Clear
  <2>1. research' \in Context
    BY <1>2 DEF Clear, Inv, Context, Filed
  <2>2. UNCHANGED <<cached_price_scale, last_prices, policy>>
    BY <1>2 DEF Clear
  <2> QED BY <2>1, <2>2 DEF Inv, Taken, seeded
<1>3. CASE SetClock
  <2>1. PICK t \in Timestamps : research' = [research EXCEPT !.block_timestamp = t]
    BY <1>3 DEF SetClock
  <2>2. research' \in Context
    BY <2>1, ReportInputAssumption DEF Inv, Context
  <2>3. UNCHANGED <<cached_price_scale, last_prices, policy>>
    BY <1>3 DEF SetClock
  <2> QED BY <2>2, <2>3 DEF Inv, Taken, seeded
<1>4. CASE FirstDeposit
  <2>1. Told(research, cached_price_scale)
    BY <1>4 DEF FirstDeposit, Told, Inv
  <2>2. UNCHANGED <<research, cached_price_scale, last_prices>>
    BY <1>4 DEF FirstDeposit
  <2> QED BY <2>1, <2>2, ToldSound DEF Inv, Taken
<1>5. CASE Touch
  <2>1. PICK oracle \in Prices, last \in Prices :
          /\ last_prices' = last
          /\ Settle(oracle, last) \/ Rebalance(oracle, last)
    BY <1>5 DEF Touch
  <2>2. /\ last_prices' \in Nat \ {0} /\ research' = research /\ seeded
        /\ oracle \in Nat /\ last \in Nat
    BY <1>5, <2>1, ReportInputAssumption DEF Touch
  <2>3. CASE Settle(oracle, last)
    <3>1. Told(research, cached_price_scale)
      BY <2>2, <2>3 DEF Settle, Told
    <3>2. cached_price_scale' = cached_price_scale
      BY <2>3 DEF Settle
    <3> QED BY <2>2, <3>1, <3>2, ToldSound DEF Inv, Taken
  <2>4. CASE Rebalance(oracle, last)
    <3>1. cached_price_scale' \in Nat \ {0} /\ Told(research, cached_price_scale')
      BY <2>2, <2>4, RebalanceTyped
    <3> QED BY <2>2, <3>1, ToldSound DEF Taken
  <2> QED BY <2>1, <2>3, <2>4
<1>6. CASE Exit
  <2>1. policy.spot \in Nat
    BY DEF Inv, Memory
  <2>2. Told(research, cached_price_scale)
    BY <1>6, <2>1 DEF Exit, Told, Inv
  <2>3. UNCHANGED <<research, cached_price_scale, last_prices>>
    BY <1>6 DEF Exit
  <2> QED BY <2>2, <2>3, ToldSound DEF Inv, Taken
<1>7. CASE UNCHANGED vars
  BY <1>7 DEF vars, Inv, Taken, seeded
<1> QED BY <1>1, <1>2, <1>3, <1>4, <1>5, <1>6, <1>7 DEF Next

THEOREM Invariance == Spec => []Inv
<1>1. Inv /\ [Next]_vars => Inv'
  BY StepSound
<1> QED BY <1>1, InitInv, PTL DEF Spec

-----------------------------------------------------------------------------
(* Fees.                                                                   *)

LEMMA WeightBounds ==
  ASSUME NEW age \in Int
  PROVE  Weight(age) \in 0 .. PRECISION
<1>1. CASE age <= 0
  BY <1>1, ReportPolicyAssumption DEF Weight
<1>2. CASE age > 0
  <2>1. Smaller(age, relax_time) \in 1 .. relax_time
    BY <1>2, ReportPolicyAssumption DEF Smaller
  <2>2. AGEING[Smaller(age, relax_time)] \in 0 .. PRECISION
    BY <2>1, TableAssumption
  <2> QED BY <1>2, <2>2 DEF Weight
<1> QED BY <1>1, <1>2

(* An older report weighs less in the fee, and the fallback more.          *)
LEMMA WeightGrows ==
  ASSUME NEW a \in Int, NEW b \in Int, a <= b
  PROVE  Weight(a) <= Weight(b)
<1>1. CASE a <= 0
  BY <1>1, WeightBounds DEF Weight
<1>2. CASE a > 0
  <2> DEFINE m == Smaller(a, relax_time)
             n == Smaller(b, relax_time)
  <2>1. m \in 1 .. relax_time /\ n \in 1 .. relax_time /\ m <= n
    BY <1>2, ReportPolicyAssumption DEF Smaller
  <2> HIDE DEF m, n
  <2>2. AGEING[m] <= AGEING[n]
    BY <2>1, TableAssumption
  <2>3. Weight(a) = AGEING[m] /\ Weight(b) = AGEING[n]
    BY <1>2 DEF Weight, m, n
  <2> QED BY <2>2, <2>3
<1> QED BY <1>1, <1>2

LEMMA AgedBetween ==
  ASSUME NEW fee \in 0 .. fallback_fee, NEW w \in 0 .. PRECISION
  PROVE  Aged(fee, w) \in fee .. fallback_fee
<1>1. /\ fee \in Nat /\ fallback_fee \in Nat /\ fee <= fallback_fee
      /\ PRECISION \in Nat \ {0} /\ PRECISION - w \in 0 .. PRECISION
  BY ReportPolicyAssumption
<1> DEFINE v == PRECISION - w
<1>2. (fee * v + fallback_fee * (PRECISION - v)) \div PRECISION
        \in fee .. fallback_fee
  BY <1>1, MeanNat
<1>3. fee * v + fallback_fee * (PRECISION - v)
        = (PRECISION - w) * fee + w * fallback_fee
  BY <1>1
<1> QED BY <1>2, <1>3 DEF Aged

LEMMA AgedMonotone ==
  ASSUME NEW low \in 0 .. fallback_fee, NEW high \in low .. fallback_fee,
         NEW v \in 0 .. PRECISION, NEW w \in v .. PRECISION
  PROVE  Aged(low, v) <= Aged(high, w)
<1> DEFINE P == PRECISION
           F == fallback_fee
           sum(fee, a) == (P - a) * fee + a * F
<1>1. P \in Nat \ {0} /\ F \in Nat
  BY ReportPolicyAssumption
<1> HIDE DEF P, F
<1>2. /\ low \in Nat /\ high \in Nat /\ low <= high /\ high <= F
      /\ v \in Nat /\ w \in Nat /\ v <= w /\ w <= P
  BY DEF F, P
<1>3. sum(low, v) <= sum(high, v)
  <2>1. (P - v) * low <= (P - v) * high
    BY <1>1, <1>2, MulMonotone
  <2> QED BY <1>1, <1>2, <2>1
<1>4. sum(high, v) <= sum(high, w)
  <2>1. (F - high) * v <= (F - high) * w
    BY <1>1, <1>2, MulMonotone
  <2>2. \A a \in Nat : sum(high, a) = P * high + (F - high) * a
    BY <1>1, <1>2
  <2> QED BY <1>1, <1>2, <2>1, <2>2
<1>5. sum(low, v) \in Nat /\ sum(high, w) \in Nat
  <2>1. /\ (P - v) * low \in Nat /\ v * F \in Nat
        /\ (P - w) * high \in Nat /\ w * F \in Nat
    BY <1>1, <1>2, MulNat
  <2> QED BY <2>1
<1>6. sum(high, v) \in Int
  BY <1>1, <1>2
<1> HIDE DEF sum
<1>7. sum(low, v) <= sum(high, w)
  BY <1>3, <1>4, <1>5, <1>6
<1>8. P * (sum(low, v) \div P) <= sum(low, v) /\ sum(low, v) \div P \in Nat
  BY <1>1, <1>5, DivNat
<1>9. (sum(low, v) \div P) * P <= sum(high, w)
  BY <1>1, <1>5, <1>7, <1>8
<1>10. sum(low, v) \div P <= sum(high, w) \div P
  BY <1>1, <1>5, <1>8, <1>9, DivAtLeast
<1> QED BY <1>10 DEF Aged, sum, P, F

LEMMA FreshFeeBounds ==
  ASSUME NEW edge \in Int
  PROVE  fresh_fee(edge) \in base_fee .. fallback_fee
<1>1. /\ capture \in Nat /\ PRECISION \in Nat \ {0} /\ base_fee \in Nat
      /\ fallback_fee \in Nat /\ base_fee <= fallback_fee
  BY ReportPolicyAssumption
<1>2. Larger(0, edge - base_fee) \in Nat
  BY <1>1 DEF Larger
<1>3. capture * Larger(0, edge - base_fee) \in Nat
  BY <1>1, <1>2, MulNat
<1>4. (capture * Larger(0, edge - base_fee)) \div PRECISION \in Nat
  BY <1>1, <1>3, DivNat
<1> QED BY <1>1, <1>4 DEF fresh_fee, Smaller

-----------------------------------------------------------------------------
(* What a swap of one coin is charged, and the least it can be.            *)

LEMMA TermsTyped ==
  ASSUME NEW s \in Memory, NEW x \in Context
  PROVE  /\ report_terms(s, x).weight \in 0 .. PRECISION
         /\ report_terms(s, x).price \in Nat
         /\ report_terms(s, x).usable => report_terms(s, x).price > 0
<1>1. Age(Effective(s, x), x) \in Int
  BY EffectiveFiled DEF Age, Context
<1>2. Weight(Age(Effective(s, x), x)) \in 0 .. PRECISION
  BY <1>1, WeightBounds
<1> QED BY <1>2, EffectiveFiled, ReportPolicyAssumption DEF report_terms

LEMMA EdgeIsANumber ==
  ASSUME NEW price \in Nat \ {0}, NEW report \in Nat, NEW coin_in
  PROVE  Edge(price, report, coin_in) \in Int
<1>1. price * PRECISION \in Nat /\ report * PRECISION \in Nat
  BY MulNat, ReportPolicyAssumption
<1>2. report > 0 => (price * PRECISION) \div report \in Nat
  BY <1>1, DivNat
<1>3. (report * PRECISION) \div price \in Nat
  BY <1>1, DivNat
<1>4. PRECISION \in Nat
  BY ReportPolicyAssumption
<1> QED BY <1>2, <1>3, <1>4 DEF Edge

(* Either the fallback, or the aged fresh fee of a corrective swap.        *)
LEMMA FeeShape ==
  ASSUME NEW s \in Memory, NEW x \in Context,
         NEW swap \in [coin_in : {1, 2}, average : Levels, after : Levels]
  PROVE  \/ Fee(s, x, swap) = fallback_fee
         \/ /\ report_terms(s, x).usable
            /\ corrective(s, report_terms(s, x).price, swap)
            /\ Fee(s, x, swap)
                 = Aged(fresh_fee(Edge(swap.average, report_terms(s, x).price,
                                       swap.coin_in)),
                        report_terms(s, x).weight)
            /\ Edge(swap.average, report_terms(s, x).price, swap.coin_in) \in Int
<1>1. swap.average \in Nat \ {0}
  BY ReportInputAssumption
<1>2. Edge(swap.average, report_terms(s, x).price, swap.coin_in) \in Int
  BY <1>1, TermsTyped, EdgeIsANumber
<1> QED BY <1>2 DEF Fee

LEMMA FloorBelowFee ==
  ASSUME NEW s \in Memory, NEW x \in Context,
         NEW swap \in [coin_in : {1, 2}, average : Levels, after : Levels]
  PROVE  /\ Fee(s, x, swap) \in Nat
         /\ context_fee_floor(s, x, swap.coin_in) <= Fee(s, x, swap)
         /\ base_fee <= Fee(s, x, swap) /\ Fee(s, x, swap) <= fallback_fee
<1> DEFINE terms == report_terms(s, x)
           w == terms.weight
           fresh == fresh_fee(Edge(swap.average, terms.price, swap.coin_in))
           floor == context_fee_floor(s, x, swap.coin_in)
<1>1. w \in 0 .. PRECISION /\ terms.price \in Nat
  BY TermsTyped
<1>2. /\ base_fee \in Nat /\ fallback_fee \in Nat /\ base_fee <= fallback_fee
  BY ReportPolicyAssumption
<1>3. Aged(base_fee, w) \in base_fee .. fallback_fee
  BY <1>1, <1>2, AgedBetween
<1>4. floor = fallback_fee \/ floor = Aged(base_fee, w)
  BY DEF context_fee_floor
<1>5. CASE Fee(s, x, swap) = fallback_fee
  BY <1>2, <1>3, <1>4, <1>5
<1>6. CASE /\ terms.usable
           /\ corrective(s, terms.price, swap)
           /\ Fee(s, x, swap) = Aged(fresh, w)
           /\ Edge(swap.average, terms.price, swap.coin_in) \in Int
  <2>1. fresh \in base_fee .. fallback_fee
    BY <1>6, FreshFeeBounds
  <2>2. fresh \in 0 .. fallback_fee /\ base_fee \in 0 .. fallback_fee
    BY <1>2, <2>1
  <2>3. Aged(fresh, w) \in fresh .. fallback_fee
    BY <1>1, <2>2, AgedBetween
  <2>4. w \in w .. PRECISION
    BY <1>1
  <2>5. Aged(base_fee, w) <= Aged(fresh, w)
    BY <1>1, <2>1, <2>2, <2>4, AgedMonotone
  <2>6. floor = Aged(base_fee, w)
    <3>1. s.spot \in Nat /\ swap.after \in Nat
      BY ReportInputAssumption DEF Memory
    <3>2. CASE swap.coin_in = 1
      <4>1. s.spot < terms.price
        BY <1>1, <1>6, <3>1, <3>2 DEF corrective
      <4> QED BY <1>1, <1>6, <3>1, <3>2, <4>1 DEF context_fee_floor
    <3>3. CASE swap.coin_in = 2
      <4>1. s.spot > terms.price
        BY <1>1, <1>6, <3>1, <3>3 DEF corrective
      <4> QED BY <1>1, <1>6, <3>1, <3>3, <4>1 DEF context_fee_floor
    <3> QED BY <3>2, <3>3
  <2> QED BY <1>2, <1>6, <2>1, <2>3, <2>5, <2>6
<1> QED BY <1>5, <1>6, FeeShape

LEMMA SwapTyped ==
  ASSUME NEW coin_in \in {1, 2}, NEW swap \in Swaps(coin_in)
  PROVE  /\ swap \in [coin_in : {1, 2}, average : Levels, after : Levels]
         /\ swap.coin_in = coin_in
         /\ swap.average \in Nat \ {0} /\ swap.after \in Nat \ {0}
BY ReportInputAssumption DEF Swaps

(* No swap is charged less than the floor it was filtered with, and every  *)
(* fee is between base_fee and fallback_fee, for every report and time.    *)
THEOREM FloorIsBelowEveryFee == Spec => []FeeAboveContextFloor
<1>1. Inv => FeeAboveContextFloor
  <2> SUFFICES ASSUME Inv, NEW coin_in \in {1, 2}, NEW swap \in Swaps(coin_in)
               PROVE  /\ context_fee_floor(policy, research, coin_in)
                           <= Fee(policy, research, swap)
                      /\ base_fee <= Fee(policy, research, swap)
                      /\ Fee(policy, research, swap) <= fallback_fee
    BY DEF FeeAboveContextFloor
  <2>1. policy \in Memory /\ research \in Context
    BY DEF Inv
  <2> QED BY <2>1, SwapTyped, FloorBelowFee
<1> QED BY <1>1, Invariance, PTL

LEMMA OlderIsDearer ==
  ASSUME NEW s \in Memory, NEW t1 \in Nat, NEW t2 \in Nat, t1 <= t2,
         s.report.timestamp <= t1 + FUTURE_WINDOW_S,
         NEW swap \in [coin_in : {1, 2}, average : Levels, after : Levels]
  PROVE  Fee(s, [block_timestamp |-> t1, feed |-> NoReport], swap)
           <= Fee(s, [block_timestamp |-> t2, feed |-> NoReport], swap)
<1> DEFINE x1 == [block_timestamp |-> t1, feed |-> NoReport]
           x2 == [block_timestamp |-> t2, feed |-> NoReport]
           terms1 == report_terms(s, x1)
           terms2 == report_terms(s, x2)
           age1 == Age(s.report, x1)
           age2 == Age(s.report, x2)
           edge == Edge(swap.average, s.report.price, swap.coin_in)
           fresh == fresh_fee(edge)
<1>1. x1 \in Context /\ x2 \in Context
  BY DEF Context, Filed
<1>2. Effective(s, x1) = s.report /\ Effective(s, x2) = s.report
  BY DEF Effective, admissible, NoReport
<1>3. s.report.price \in Nat /\ s.report.timestamp \in Nat
  BY DEF Memory, Filed, NoReport
<1>4. age1 \in Int /\ age2 \in Int /\ age1 <= age2 /\ -FUTURE_WINDOW_S <= age1
  BY <1>3, ReportPolicyAssumption DEF Age
<1> HIDE DEF age1, age2, x1, x2
<1>5. /\ terms1.usable <=> /\ s.report.price > 0
                           /\ -FUTURE_WINDOW_S <= age1 /\ age1 < relax_time
      /\ terms2.usable <=> /\ s.report.price > 0
                           /\ -FUTURE_WINDOW_S <= age2 /\ age2 < relax_time
      /\ terms1.price = s.report.price /\ terms2.price = s.report.price
      /\ terms1.usable => terms1.weight = Weight(age1)
      /\ terms2.usable => terms2.weight = Weight(age2)
  BY <1>2 DEF report_terms, age1, age2
<1>6. terms2.usable => terms1.usable
  BY <1>4, <1>5, ReportPolicyAssumption
<1>7. /\ Fee(s, x1, swap) <= fallback_fee
      /\ Fee(s, x2, swap) <= fallback_fee
  BY <1>1, FloorBelowFee
<1>8. CASE Fee(s, x2, swap) = fallback_fee
  BY <1>7, <1>8 DEF x1, x2
<1>9. CASE Fee(s, x2, swap) # fallback_fee
  <2>1. /\ terms2.usable /\ terms1.usable /\ edge > 0
        /\ corrective(s, s.report.price, swap)
        /\ Fee(s, x2, swap) = Aged(fresh, terms2.weight)
    BY <1>5, <1>6, <1>9 DEF Fee
  <2>2. Fee(s, x1, swap) = Aged(fresh, terms1.weight)
    BY <1>5, <2>1 DEF Fee
  <2>3. edge \in Int
    <3>1. swap.average \in Nat \ {0}
      BY ReportInputAssumption
    <3> QED BY <1>3, <3>1, EdgeIsANumber
  <2> HIDE DEF edge
  <2>4. fresh \in base_fee .. fallback_fee
    BY <2>3, FreshFeeBounds
  <2> HIDE DEF fresh
  <2>5. fresh \in 0 .. fallback_fee /\ fresh \in fresh .. fallback_fee
    BY <2>4, ReportPolicyAssumption
  <2>6. /\ Weight(age1) \in 0 .. PRECISION
        /\ Weight(age2) \in Weight(age1) .. PRECISION
    BY <1>4, WeightBounds, WeightGrows
  <2>7. Aged(fresh, Weight(age1)) <= Aged(fresh, Weight(age2))
    BY <2>5, <2>6, AgedMonotone
  <2> QED BY <1>5, <2>1, <2>2, <2>7 DEF x1, x2
<1> QED BY <1>8, <1>9

(* A swap never gets cheaper by waiting, over the edges of every window.   *)
THEOREM WaitingNeverPays == Spec => []AgeingNeverCheapens
<1>1. Inv => AgeingNeverCheapens
  <2> SUFFICES ASSUME Inv, NEW coin_in \in {1, 2}, NEW swap \in Swaps(coin_in),
                      NEW t1 \in Timestamps, NEW t2 \in Timestamps, t1 <= t2,
                      policy.report.timestamp <= t1 + FUTURE_WINDOW_S
               PROVE  Fee(policy, [block_timestamp |-> t1, feed |-> NoReport],
                          swap)
                        <= Fee(policy, [block_timestamp |-> t2,
                                        feed |-> NoReport], swap)
    BY DEF AgeingNeverCheapens
  <2>1. policy \in Memory /\ t1 \in Nat /\ t2 \in Nat
    BY ReportInputAssumption DEF Inv
  <2> QED BY <2>1, SwapTyped, OlderIsDearer
<1> QED BY <1>1, Invariance, PTL

-----------------------------------------------------------------------------
(* Reports and targets.                                                    *)

(* The stored report only gives way to a newer one, at hand and inside the *)
(* window, however the clock is set and whatever is delivered again.       *)
THEOREM ReportsAreTakenInOrder == Spec => ReportsTakenInOrder
<1>1. ASSUME Inv, [Next]_vars, policy'.report # policy.report
      PROVE  /\ policy'.report = research.feed
             /\ policy'.report.timestamp > policy.report.timestamp
             /\ Age(policy'.report, research)
                  \in -FUTURE_WINDOW_S .. ADMISSION_S
  <2>1. policy'.report = Effective(policy, research)
    BY <1>1, StepSound DEF Taken
  <2>2. admissible(policy.report, research) /\ policy'.report = research.feed
    BY <1>1, <2>1 DEF Effective
  <2>3. research.feed \in Filed /\ policy.report \in Filed
        /\ research.block_timestamp \in Nat
    BY <1>1 DEF Inv, Memory, Context
  <2>4. research.feed.timestamp \in Nat \ {0}
    BY <2>2, <2>3 DEF admissible, Filed, NoReport
  <2>5. research.feed.timestamp > policy.report.timestamp
    <3>1. CASE policy.report = NoReport
      BY <2>4, <3>1 DEF NoReport
    <3>2. CASE policy.report # NoReport
      BY <2>2, <2>3, <3>2 DEF admissible, Filed
    <3> QED BY <3>1, <3>2
  <2>6. Age(research.feed, research) \in -FUTURE_WINDOW_S .. ADMISSION_S
    BY <2>2, <2>3, <2>4, ReportPolicyAssumption DEF admissible, Age
  <2> QED BY <2>2, <2>5, <2>6
<1>2. Inv /\ [Next]_vars
        => [policy'.report # policy.report =>
              /\ policy'.report = research.feed
              /\ policy'.report.timestamp > policy.report.timestamp
              /\ Age(policy'.report, research)
                   \in -FUTURE_WINDOW_S .. ADMISSION_S]_vars
  BY <1>1
<1> QED BY <1>2, Invariance, PTL DEF Spec, ReportsTakenInOrder

(* Whatever the pool is moved on is what the policy remembers of the touch.*)
THEOREM TargetsAreRemembered == Spec => TargetIsRemembered
<1> DEFINE e == [fast |-> policy'.fast_ema, slow |-> policy'.slow_ema]
           target == Pursue(cached_price_scale,
                            TrendTarget(e, policy'.last_prices))
           Remembered ==
             \E oracle \in Prices :
               cached_price_scale' =
                 Actuator!NewPriceScale(target, oracle, cached_price_scale)
<1>1. ASSUME Inv, [Next]_vars, cached_price_scale' # cached_price_scale
      PROVE  Remembered
  <2>1. Touch
    BY <1>1 DEF Next, vars, Deliver, Clear, SetClock, FirstDeposit, Exit
  <2>2. PICK oracle \in Prices, last \in Prices : Rebalance(oracle, last)
    BY <1>1, <2>1 DEF Touch, Settle
  <2>3. seeded /\ policy.price_scale = cached_price_scale
        /\ policy.price_scale # 0
    BY <1>1, <2>1 DEF Touch, Inv, seeded
  <2> DEFINE obs == Observation(policy, research, last)
             averages == emas(policy, obs, research.block_timestamp)
  <2>4. PICK spot \in Prices :
          policy' = ReportUpdate(policy, research, cached_price_scale', oracle,
                                 last, spot)
    BY <2>2 DEF Rebalance
  <2>5. /\ policy'.fast_ema = averages.fast /\ policy'.slow_ema = averages.slow
        /\ policy'.last_prices = obs
    BY <2>3, <2>4 DEF ReportUpdate
  <2>6. averages = [fast |-> averages.fast, slow |-> averages.slow]
    BY DEF emas
  <2>7. ReportTarget(policy, research, last)
          = Pursue(cached_price_scale, TrendTarget(averages, obs))
    BY <2>3 DEF ReportTarget
  <2> HIDE DEF averages, obs
  <2>8. ReportTarget(policy, research, last) = target
    BY <2>5, <2>6, <2>7
  <2> QED BY <2>2, <2>8 DEF Rebalance
<1>2. Inv /\ [Next]_vars
        => [cached_price_scale' # cached_price_scale => Remembered]_vars
  BY <1>1
<1> QED BY <1>2, Invariance, PTL DEF Spec, TargetIsRemembered

-----------------------------------------------------------------------------
(* A swap rejected at its first unit.  `x` and `y` are what one minus the  *)
(* edge is at the first unit and at the average price of the swap, `rho`   *)
(* the report against the external price.                                  *)

LEMMA QuotientsClose ==
  ASSUME NEW a \in Nat, NEW b \in 0 .. a, NEW whole \in Nat \ {0}
  PROVE  /\ b \div whole <= a \div whole
         /\ whole * (a \div whole - b \div whole) <= a - b + whole - 1
<1>1. /\ a \div whole \in Nat /\ whole * (a \div whole) <= a
      /\ b \div whole \in Nat /\ whole * (b \div whole) <= b
      /\ b < whole * (b \div whole) + whole
  BY DivNat
<1>2. b \div whole <= a \div whole
  BY <1>1, DivAtLeast
<1>3. \A q, r \in Nat : whole * (q - r) = whole * q - whole * r
  OBVIOUS
<1>4. \A q, r \in Nat : whole * q <= a /\ b < whole * r + whole
                          => whole * q - whole * r <= a - b + whole - 1
  OBVIOUS
<1> QED BY <1>1, <1>2, <1>3, <1>4

(* The fresh fee falls with the edge, by the captured part of it.          *)
LEMMA FreshFeesClose ==
  ASSUME NEW x \in 0 .. PRECISION, NEW y \in x .. PRECISION
  PROVE  /\ fresh_fee(PRECISION - y) <= fresh_fee(PRECISION - x)
         /\ PRECISION * (fresh_fee(PRECISION - x) - fresh_fee(PRECISION - y))
              <= capture * (y - x) + PRECISION - 1
         /\ PRECISION - x <= base_fee
              => fresh_fee(PRECISION - x) = fresh_fee(PRECISION - y)
<1> DEFINE over(z) == Larger(0, PRECISION - z - base_fee)
           gain(z) == (capture * over(z)) \div PRECISION
<1>1. /\ PRECISION \in Nat \ {0} /\ capture \in Nat
      /\ base_fee \in Nat /\ fallback_fee \in Nat /\ base_fee <= fallback_fee
  BY ReportPolicyAssumption
<1>2. /\ over(x) \in Nat /\ over(y) \in Nat /\ over(y) <= over(x)
      /\ over(x) - over(y) <= y - x
      /\ PRECISION - x <= base_fee => over(x) = 0 /\ over(y) = 0
  BY <1>1 DEF Larger
<1> HIDE DEF over
<1>3. /\ capture * over(x) \in Nat /\ capture * over(y) \in 0 .. capture * over(x)
      /\ capture * over(x) - capture * over(y) <= capture * (y - x)
  <2>1. capture * over(y) <= capture * over(x)
    BY <1>1, <1>2, MulMonotone
  <2>2. capture * (over(x) - over(y)) <= capture * (y - x)
    BY <1>1, <1>2, MulMonotone
  <2>3. capture * (over(x) - over(y)) = capture * over(x) - capture * over(y)
    BY <1>1, <1>2
  <2>4. capture * over(x) \in Nat /\ capture * over(y) \in Nat
    BY <1>1, <1>2, MulNat
  <2> QED BY <2>1, <2>2, <2>3, <2>4
<1>4. /\ gain(y) <= gain(x)
      /\ PRECISION * (gain(x) - gain(y))
           <= capture * over(x) - capture * over(y) + PRECISION - 1
  BY <1>1, <1>3, QuotientsClose
<1>5. gain(x) \in Nat /\ gain(y) \in Nat
  BY <1>1, <1>3, DivNat
<1>6. /\ fresh_fee(PRECISION - x) = Smaller(fallback_fee, base_fee + gain(x))
      /\ fresh_fee(PRECISION - y) = Smaller(fallback_fee, base_fee + gain(y))
  BY DEF fresh_fee, over
<1>7. PRECISION - x <= base_fee => gain(x) = gain(y)
  BY <1>2
<1> HIDE DEF gain
<1> DEFINE f == fresh_fee(PRECISION - x)
           g == fresh_fee(PRECISION - y)
<1>8. f \in Nat /\ g \in Nat /\ g <= f /\ f - g <= gain(x) - gain(y)
  BY <1>1, <1>4, <1>5, <1>6 DEF Smaller
<1>9. PRECISION - x <= base_fee => f = g
  BY <1>6, <1>7
<1> HIDE DEF f, g
<1>10. PRECISION * (f - g) <= PRECISION * (gain(x) - gain(y))
  BY <1>1, <1>5, <1>8, MulMonotone
<1>11. PRECISION * (f - g) <= capture * (y - x) + PRECISION - 1
  <2>1. /\ PRECISION * (f - g) \in Int /\ capture * (y - x) \in Int
        /\ PRECISION * (gain(x) - gain(y)) \in Int
    BY <1>1, <1>5, <1>8
  <2> QED BY <1>1, <1>3, <1>4, <1>10, <2>1
<1> QED BY <1>8, <1>9, <1>11 DEF f, g

LEMMA AgedClose ==
  ASSUME NEW f \in 0 .. fallback_fee, NEW g \in 0 .. f,
         NEW w \in 0 .. PRECISION
  PROVE  /\ Aged(f, w) \in Nat /\ Aged(g, w) \in Nat
         /\ PRECISION * Aged(f, w) <= (PRECISION - w) * f + w * fallback_fee
         /\ PRECISION * (Aged(f, w) - Aged(g, w))
              <= (PRECISION - w) * (f - g) + PRECISION - 1
<1> DEFINE sum(fee) == (PRECISION - w) * fee + w * fallback_fee
<1>1. PRECISION \in Nat \ {0} /\ fallback_fee \in Nat
  BY ReportPolicyAssumption
<1>2. \A fee \in Nat : sum(fee) \in Nat
  <2>1. ASSUME NEW fee \in Nat PROVE sum(fee) \in Nat
    <3>1. (PRECISION - w) * fee \in Nat /\ w * fallback_fee \in Nat
      BY <1>1, MulNat
    <3> QED BY <3>1
  <2> QED BY <2>1
<1>3. sum(g) <= sum(f) /\ sum(f) - sum(g) = (PRECISION - w) * (f - g)
  <2>1. (PRECISION - w) * g <= (PRECISION - w) * f
    BY <1>1, MulMonotone
  <2>2. (PRECISION - w) * (f - g) = (PRECISION - w) * f - (PRECISION - w) * g
    BY <1>1
  <2>3. /\ (PRECISION - w) * f \in Int /\ (PRECISION - w) * g \in Int
        /\ w * fallback_fee \in Int
    BY <1>1
  <2> QED BY <2>1, <2>2, <2>3
<1>4. sum(f) \in Nat /\ sum(g) \in Nat /\ sum(g) \in 0 .. sum(f)
  BY <1>2, <1>3
<1>5. Aged(f, w) = sum(f) \div PRECISION /\ Aged(g, w) = sum(g) \div PRECISION
  BY DEF Aged
<1>6. /\ sum(f) \div PRECISION \in Nat /\ sum(g) \div PRECISION \in Nat
      /\ PRECISION * (sum(f) \div PRECISION) <= sum(f)
  BY <1>1, <1>4, DivNat
<1>7. PRECISION * (sum(f) \div PRECISION - sum(g) \div PRECISION)
        <= sum(f) - sum(g) + PRECISION - 1
  BY <1>1, <1>4, QuotientsClose
<1>8. PRECISION * Aged(f, w) <= sum(f)
  BY <1>5, <1>6
<1>9. PRECISION * (Aged(f, w) - Aged(g, w)) <= sum(f) - sum(g) + PRECISION - 1
  BY <1>5, <1>7
<1> QED BY <1>3, <1>5, <1>6, <1>8, <1>9

(* What a fee can be, when there is something above the base fee to share. *)
LEMMA FeeLeavesShare ==
  ASSUME NEW x \in 0 .. PRECISION, NEW w \in 0 .. PRECISION,
         PRECISION - x > base_fee
  PROVE  PRECISION * (PRECISION * Aged(fresh_fee(PRECISION - x), w))
           <= PRECISION * (PRECISION * PRECISION)
                - ((PRECISION - w) * capture) * x
<1> DEFINE P == PRECISION
           F == fallback_fee
           b == base_fee
           c == capture
           f == fresh_fee(P - x)
           fee == Aged(f, w)
<1>1. /\ P \in Nat \ {0} /\ c \in 0 .. P /\ b \in 0 .. P /\ F \in 0 .. P
      /\ x \in 0 .. P /\ w \in 0 .. P /\ P - x > b
  BY ReportPolicyAssumption
<1>2. f \in b .. F
  BY <1>1, FreshFeeBounds
<1>3. fee \in Nat /\ P * fee <= (P - w) * f + w * F
  <2>1. f \in 0 .. fallback_fee /\ f \in 0 .. f
    BY <1>1, <1>2
  <2> HIDE DEF f
  <2> QED BY <2>1, AgedClose
<1>4. P * f <= P * b + c * (P - x - b)
  <2>1. Larger(0, P - x - b) = P - x - b
    BY <1>1 DEF Larger
  <2>2. f <= b + (c * (P - x - b)) \div P
    BY <1>1, <2>1 DEF fresh_fee, Smaller
  <2>3. c * (P - x - b) \in Nat
    BY <1>1, MulNat
  <2>4. /\ (c * (P - x - b)) \div P \in Nat
        /\ P * ((c * (P - x - b)) \div P) <= c * (P - x - b)
    BY <1>1, <2>3, DivNat
  <2> DEFINE gain == (c * (P - x - b)) \div P
  <2>5. P * f <= P * (b + gain) /\ gain \in Nat
    BY <1>1, <1>2, <2>2, <2>4, MulMonotone
  <2> HIDE DEF gain, f, P, b, c
  <2>6. P * (b + gain) = P * b + P * gain
    BY <1>1, <2>5
  <2> QED BY <1>1, <1>2, <2>3, <2>4, <2>5, <2>6 DEF gain
<1> HIDE DEF P, F, b, c, f, fee
<1>5. P * f <= P * P - c * x
  <2>1. P * b + c * (P - x - b) = c * P - c * x + b * (P - c)
    BY <1>1
  <2>2. b * (P - c) <= P * (P - c)
    BY <1>1, MulMonotone
  <2>3. P * (P - c) = P * P - c * P
    BY <1>1
  <2> QED BY <1>1, <1>2, <1>4, <2>1, <2>2, <2>3
<1>6. P * (P * fee) <= P * ((P - w) * f + w * F)
  BY <1>1, <1>2, <1>3, MulMonotone
<1>7. P * ((P - w) * f + w * F) = (P - w) * (P * f) + w * (P * F)
  BY <1>1, <1>2
<1>8. (P - w) * (P * f) <= (P - w) * (P * P - c * x)
  BY <1>1, <1>2, <1>5, MulMonotone
<1>9. w * (P * F) <= w * (P * P)
  <2>1. P * F <= P * P
    BY <1>1, MulMonotone
  <2> QED BY <1>1, <2>1, MulMonotone
<1>10. (P - w) * (P * P - c * x) + w * (P * P)
         = P * (P * P) - ((P - w) * c) * x
  BY <1>1
<1>11. P * (P * fee) <= P * (P * P) - ((P - w) * c) * x
  <2> DEFINE l == P * (P * fee)
             m == (P - w) * (P * f)
             n == w * (P * F)
             q == (P - w) * (P * P - c * x)
             r == w * (P * P)
             z == P * (P * P) - ((P - w) * c) * x
  <2>1. /\ l \in Int /\ m \in Int /\ n \in Int
        /\ q \in Int /\ r \in Int /\ z \in Int
    BY <1>1, <1>2, <1>3
  <2>2. l <= m + n /\ m <= q /\ n <= r /\ q + r = z
    BY <1>6, <1>7, <1>8, <1>9, <1>10
  <2> HIDE DEF l, m, n, q, r, z
  <2>3. l <= z
    BY <2>1, <2>2
  <2> QED BY <2>3 DEF l, z
<1> QED BY <1>11 DEF P, c, fee, f

(* At the average price of a swap the fee may be less than at the first    *)
(* unit, but not by as much as its gain is smaller.                        *)
LEMMA FirstUnitDecides ==
  ASSUME NEW x \in 0 .. PRECISION, NEW y \in x .. PRECISION,
         NEW w \in 0 .. PRECISION, NEW rho \in Nat, SLACK >= 2,
         rho * y < (PRECISION - Aged(fresh_fee(PRECISION - y), w)) * PRECISION
  PROVE  rho * x < (PRECISION + SLACK - Aged(fresh_fee(PRECISION - x), w))
                     * PRECISION
<1> DEFINE P == PRECISION
           S == SLACK
           c == capture
           f == fresh_fee(P - x)
           g == fresh_fee(P - y)
           F0 == Aged(f, w)
           F1 == Aged(g, w)
           D == f - g
           d == y - x
           k == (P - w) * c
<1>1. /\ P \in Nat \ {0} /\ c \in 0 .. P /\ S \in Nat /\ S >= 2
      /\ x \in 0 .. P /\ w \in 0 .. P /\ d \in Nat /\ y = x + d
  BY ReportPolicyAssumption
<1>2. /\ f \in 0 .. fallback_fee /\ g \in 0 .. f /\ D \in Nat
      /\ P * D <= c * d + P - 1
      /\ P - x <= base_fee => D = 0
  <2>1. f \in base_fee .. fallback_fee /\ g \in base_fee .. fallback_fee
    BY <1>1, FreshFeeBounds
  <2>2. /\ g <= f /\ P * D <= c * d + P - 1
        /\ P - x <= base_fee => f = g
    BY FreshFeesClose
  <2> HIDE DEF f, g
  <2> QED BY <2>1, <2>2, ReportPolicyAssumption
<1>3. /\ F0 \in Nat /\ F1 \in Nat
      /\ P * (F0 - F1) <= (P - w) * D + P - 1
  <2> HIDE DEF f, g
  <2> QED BY <1>2, AgedClose
<1>4. P - x > base_fee => P * (P * F0) <= P * (P * P) - k * x
  BY FeeLeavesShare
<1>5. rho * y < (P - F1) * P
  OBVIOUS
<1> SUFFICES ASSUME rho * x >= (P + S - F0) * P PROVE FALSE
  BY <1>1, <1>3
<1>6. rho * x >= (P + S - F0) * P
  OBVIOUS
<1> HIDE DEF P, S, c, f, g, F0, F1, D, d
<1>7. rho * d < (F0 - F1 - S) * P
  <2>1. rho * y = rho * x + rho * d
    BY <1>1
  <2>2. (F0 - F1 - S) * P = (P - F1) * P - (P + S - F0) * P
    BY <1>1, <1>3
  <2>3. rho * x \in Int /\ rho * d \in Int /\ (P - F1) * P \in Int
        /\ (P + S - F0) * P \in Int
    BY <1>1, <1>3
  <2> QED BY <1>5, <1>6, <2>1, <2>2, <2>3
<1>8. CASE P - x <= base_fee
  <2>1. P * (F0 - F1) <= P - 1
    BY <1>1, <1>2, <1>3, <1>8
  <2>2. (F0 - F1 - S) * P < 0
    BY <1>1, <1>3, <2>1
  <2>3. rho * d \in Nat
    BY <1>1, MulNat
  <2>4. (F0 - F1 - S) * P \in Int
    BY <1>1, <1>3
  <2> QED BY <1>7, <2>2, <2>3, <2>4
<1>9. CASE P - x > base_fee
  <2>1. P * (P * (F0 - F1)) <= k * d + 2 * (P * P) - 2 * P
    <3>1. P * (P * (F0 - F1)) <= P * ((P - w) * D + P - 1)
      BY <1>1, <1>2, <1>3, MulMonotone
    <3>2. P * ((P - w) * D + P - 1) = (P - w) * (P * D) + P * P - P
      BY <1>1, <1>2
    <3>3. (P - w) * (P * D) <= (P - w) * (c * d + P - 1)
      BY <1>1, <1>2, MulMonotone
    <3>4. (P - w) * (c * d + P - 1) = k * d + (P - w) * (P - 1)
      BY <1>1
    <3>5. (P - w) * (P - 1) <= P * (P - 1)
      BY <1>1, MulMonotone
    <3>6. P * (P - 1) = P * P - P
      BY <1>1
    <3>7. /\ P * (P * (F0 - F1)) \in Int /\ (P - w) * (P * D) \in Int
          /\ k * d \in Int /\ (P - w) * (P - 1) \in Int /\ P * P \in Int
          /\ P \in Int
      BY <1>1, <1>2, <1>3
    <3> QED BY <3>1, <3>2, <3>3, <3>4, <3>5, <3>6, <3>7
  <2>2. (P * rho) * d < k * d
    <3>1. P * (rho * d) < P * ((F0 - F1 - S) * P)
      BY <1>1, <1>3, <1>7
    <3>2. P * ((F0 - F1 - S) * P) = P * (P * (F0 - F1)) - S * (P * P)
      BY <1>1, <1>3
    <3>3. 2 * (P * P) <= S * (P * P)
      BY <1>1, MulMonotone
    <3>4. P * (rho * d) = (P * rho) * d
      BY <1>1
    <3>5. /\ P * (P * (F0 - F1)) \in Int /\ S * (P * P) \in Int /\ P * P \in Int
          /\ k * d \in Int /\ (P * rho) * d \in Int /\ P \in Nat
      BY <1>1, <1>3
    <3> QED BY <2>1, <3>1, <3>2, <3>3, <3>4, <3>5
  <2>3. P * rho < k
    <3>1. P * rho \in Int /\ k \in Int
      BY <1>1
    <3>2. \A m, n \in Int : m * d < n * d => m < n
      BY <1>1
    <3> QED BY <2>2, <3>1, <3>2
  <2>4. (P * rho) * x <= k * x
    <3>1. P * rho \in Int /\ k \in Int
      BY <1>1
    <3> HIDE DEF k
    <3> QED BY <1>1, <2>3, <3>1, MulMonotone
  <2>5. P * ((P + S - F0) * P) <= P * (rho * x)
    BY <1>1, <1>3, <1>6, MulMonotone
  <2>6. P * ((P + S - F0) * P) = P * (P * P) - P * (P * F0) + S * (P * P)
    BY <1>1, <1>3
  <2>7. P * (rho * x) = (P * rho) * x
    BY <1>1
  <2>8. S * (P * P) > 0
    <3>1. P * P \in Nat \ {0}
      BY <1>1, MulPositive
    <3> QED BY <1>1, <3>1, MulPositive
  <2>9. /\ P * (P * P) \in Int /\ P * (P * F0) \in Int /\ S * (P * P) \in Int
        /\ k * x \in Int /\ (P * rho) * x \in Int
    BY <1>1, <1>3
  <2>10. P * (P * F0) <= P * (P * P) - k * x
    BY <1>4, <1>9
  <2> HIDE DEF k
  <2> QED BY <2>4, <2>5, <2>6, <2>7, <2>8, <2>9, <2>10
<1> QED BY <1>8, <1>9, <1>1, ReportPolicyAssumption

(* Rejected at the first unit; and a gain of what the external market pays *)
(* over the edge, fee included.                                            *)
Rejected(x, w, rho) ==
  ~(PRECISION - (rho * x) \div PRECISION
      - Aged(fresh_fee(PRECISION - x), w) > -SLACK)

Gains(x, rho, charged) == rho * x < (PRECISION - charged) * PRECISION

LEMMA RejectedIsLost ==
  ASSUME NEW x \in 0 .. PRECISION, NEW w \in 0 .. PRECISION,
         NEW rho \in Nat, NEW charged \in Nat, SLACK >= 2,
         Gains(x, rho, charged),
         \/ charged = fallback_fee
         \/ \E y \in x .. PRECISION :
              /\ charged = Aged(fresh_fee(PRECISION - y), w)
              /\ Gains(y, rho, charged)
  PROVE  ~Rejected(x, w, rho)
<1> SUFFICES ASSUME Rejected(x, w, rho) PROVE FALSE
  OBVIOUS
<1> DEFINE f == fresh_fee(PRECISION - x)
           first == Aged(f, w)
           cost == (rho * x) \div PRECISION
<1>1. PRECISION \in Nat \ {0} /\ fallback_fee \in Nat /\ base_fee \in Nat
      /\ SLACK \in Nat
  BY ReportPolicyAssumption
<1>2. first \in 0 .. fallback_fee
  <2>1. f \in base_fee .. fallback_fee
    BY <1>1, FreshFeeBounds
  <2>2. f \in 0 .. fallback_fee
    BY <1>1, <2>1
  <2> HIDE DEF f
  <2>3. first \in f .. fallback_fee
    BY <2>2, AgedBetween
  <2> QED BY <2>2, <2>3
<1>3. rho * x \in Nat
  BY <1>1, MulNat
<1>4. cost \in Nat /\ PRECISION * cost <= rho * x
  BY <1>1, <1>3, DivNat
<1>5. ~(PRECISION - cost - first > -SLACK)
  BY DEF Rejected
<1> HIDE DEF cost, first
<1>6. PRECISION + SLACK - first <= cost
  BY <1>1, <1>2, <1>4, <1>5
<1>7. PRECISION * (PRECISION + SLACK - first) <= PRECISION * cost
  BY <1>1, <1>2, <1>4, <1>6, MulMonotone
<1>8. (PRECISION + SLACK - first) * PRECISION <= rho * x
  <2>1. PRECISION * (PRECISION + SLACK - first)
          = (PRECISION + SLACK - first) * PRECISION
    BY <1>1, <1>2
  <2>2. (PRECISION + SLACK - first) * PRECISION \in Int
        /\ PRECISION * cost \in Int
    BY <1>1, <1>2, <1>4
  <2> QED BY <1>3, <1>4, <1>7, <2>1, <2>2
<1>9. CASE charged = fallback_fee
  <2>1. PRECISION - charged <= PRECISION + SLACK - first
    BY <1>1, <1>2, <1>9
  <2>2. (PRECISION - charged) * PRECISION
          <= (PRECISION + SLACK - first) * PRECISION
    BY <1>1, <1>2, <2>1, MulMonotone
  <2>3. /\ (PRECISION - charged) * PRECISION \in Int
        /\ (PRECISION + SLACK - first) * PRECISION \in Int
    BY <1>1, <1>2
  <2> QED BY <1>3, <1>8, <2>2, <2>3 DEF Gains
<1>10. CASE \E y \in x .. PRECISION :
              /\ charged = Aged(fresh_fee(PRECISION - y), w)
              /\ Gains(y, rho, charged)
  <2>1. PICK y \in x .. PRECISION :
          /\ charged = Aged(fresh_fee(PRECISION - y), w)
          /\ rho * y < (PRECISION - charged) * PRECISION
    BY <1>10 DEF Gains
  <2>2. rho * x < (PRECISION + SLACK - first) * PRECISION
    BY <2>1, FirstUnitDecides DEF first
  <2>3. (PRECISION + SLACK - first) * PRECISION \in Int
    BY <1>1, <1>2
  <2> QED BY <1>3, <1>8, <2>2, <2>3
<1> QED BY <1>9, <1>10

(* A profit, seen through the edge at any price up to the average.         *)
LEMMA ProfitBuying ==
  ASSUME NEW price \in Nat \ {0}, NEW average \in Nat \ {0}, price <= average,
         NEW report \in Nat \ {0}, NEW external \in Nat \ {0}, NEW m \in Int,
         m * external > average * PRECISION
  PROVE  ((report * PRECISION) \div external)
           * ((price * PRECISION) \div report) < m * PRECISION
<1> DEFINE P == PRECISION
           rho == (report * P) \div external
           q == (price * P) \div report
<1>1. P \in Nat \ {0}
  BY ReportPolicyAssumption
<1>2. report * P \in Nat /\ price * P \in Nat /\ average * P \in Nat
  BY <1>1, MulNat
<1>3. /\ rho \in Nat /\ external * rho <= report * P
      /\ q \in Nat /\ report * q <= price * P
  BY <1>1, <1>2, DivNat
<1>4. price * P <= average * P
  BY <1>1, MulMonotone
<1>5. m * external > average * P
  OBVIOUS
<1> HIDE DEF P, rho, q
<1>6. report * q < m * external
  <2>1. report * q \in Int /\ m * external \in Int
    BY <1>3
  <2> QED BY <1>2, <1>3, <1>4, <1>5, <2>1
<1>7. P * (report * q) < P * (m * external)
  BY <1>1, <1>3, <1>6
<1>8. q * (external * rho) <= q * (report * P)
  BY <1>1, <1>3, MulMonotone
<1>9. (rho * q) * external < (m * P) * external
  <2>1. q * (external * rho) = (rho * q) * external
        /\ q * (report * P) = P * (report * q)
        /\ P * (m * external) = (m * P) * external
    BY <1>1, <1>3
  <2>2. /\ (rho * q) * external \in Int /\ (m * P) * external \in Int
        /\ P * (report * q) \in Int
    BY <1>1, <1>3
  <2> QED BY <1>7, <1>8, <2>1, <2>2
<1>10. rho * q < m * P
  <2>1. \A u, v \in Int : u * external < v * external => u < v
    OBVIOUS
  <2>2. rho * q \in Int /\ m * P \in Int
    BY <1>1, <1>3
  <2> QED BY <1>9, <2>1, <2>2
<1> QED BY <1>10 DEF P, rho, q

LEMMA ProfitSelling ==
  ASSUME NEW average \in Nat \ {0}, NEW price \in Nat \ {0}, average <= price,
         NEW report \in Nat \ {0}, NEW external \in Nat \ {0}, NEW m \in Int,
         m * average > external * PRECISION
  PROVE  ((external * PRECISION) \div report)
           * ((report * PRECISION) \div price) < m * PRECISION
<1> DEFINE P == PRECISION
           rho == (external * P) \div report
           q == (report * P) \div price
<1>1. P \in Nat \ {0}
  BY ReportPolicyAssumption
<1>2. report * P \in Nat /\ external * P \in Nat
  BY <1>1, MulNat
<1>3. /\ rho \in Nat /\ report * rho <= external * P
      /\ q \in Nat /\ price * q <= report * P
  BY <1>1, <1>2, DivNat
<1>4. m * average > external * P
  OBVIOUS
<1> HIDE DEF P, rho, q
<1>5. m \in Nat \ {0}
  <2>1. m * average > 0
    <3>1. m * average \in Int
      OBVIOUS
    <3> QED BY <1>2, <1>4, <3>1
  <2>2. \A u \in Int : u * average > 0 => u > 0
    OBVIOUS
  <2> QED BY <2>1, <2>2
<1>6. report * rho < m * price
  <2>1. m * average <= m * price
    BY <1>5, MulMonotone
  <2>2. report * rho \in Int /\ m * average \in Int /\ m * price \in Int
    BY <1>3
  <2> QED BY <1>2, <1>3, <1>4, <2>1, <2>2
<1>7. CASE q = 0
  <2>1. m * P \in Nat \ {0}
    BY <1>1, <1>5, MulPositive
  <2>2. rho * q = 0
    BY <1>3, <1>7
  <2>3. rho * q < m * P
    BY <2>1, <2>2
  <2> QED BY <2>3 DEF P, rho, q
<1>8. CASE q # 0
  <2>1. q * (report * rho) < q * (m * price)
    BY <1>3, <1>5, <1>6, <1>8
  <2>2. m * (price * q) <= m * (report * P)
    BY <1>1, <1>3, <1>5, MulMonotone
  <2>3. (rho * q) * report < (m * P) * report
    <3>1. /\ q * (report * rho) = (rho * q) * report
          /\ q * (m * price) = m * (price * q)
          /\ m * (report * P) = (m * P) * report
      BY <1>1, <1>3, <1>5
    <3>2. /\ (rho * q) * report \in Int /\ (m * P) * report \in Int
          /\ m * (price * q) \in Int
      BY <1>1, <1>3
    <3> QED BY <2>1, <2>2, <3>1, <3>2
  <2>4. rho * q < m * P
    <3>1. \A u, v \in Int : u * report < v * report => u < v
      OBVIOUS
    <3>2. rho * q \in Int /\ m * P \in Int
      BY <1>1, <1>3
    <3> QED BY <2>3, <3>1, <3>2
  <2> QED BY <2>4 DEF P, rho, q
<1> QED BY <1>7, <1>8

LEMMA SmallQuotient ==
  ASSUME NEW a \in Nat, NEW b \in Nat, a < b
  PROVE  (a * PRECISION) \div b \in 0 .. PRECISION - 1
<1>1. PRECISION \in Nat \ {0}
  BY ReportPolicyAssumption
<1>2. a * PRECISION \in Nat /\ a * PRECISION < PRECISION * b
  <2>1. (a + 1) * PRECISION <= b * PRECISION
    BY <1>1, MulMonotone
  <2>2. (a + 1) * PRECISION = a * PRECISION + PRECISION
        /\ b * PRECISION = PRECISION * b
    BY <1>1
  <2>3. a * PRECISION \in Nat /\ b * PRECISION \in Nat
    BY <1>1, MulNat
  <2> QED BY <1>1, <2>1, <2>2, <2>3
<1>3. (a * PRECISION) \div b < PRECISION
  BY <1>1, <1>2, DivBelow
<1> QED BY <1>1, <1>2, <1>3, DivNat

LEMMA RejectedBuying ==
  ASSUME NEW s \in Memory, NEW x \in Context,
         NEW swap \in [coin_in : {1, 2}, average : Levels, after : Levels],
         swap.coin_in = 1, s.spot <= swap.average, swap.average < swap.after,
         NEW external \in Nat \ {0}, SLACK >= 2,
         ~context_may_profit(s, x, 1, external)
  PROVE  ~Profits(swap, Fee(s, x, swap), external)
<1> DEFINE t == report_terms(s, x)
           spot == s.spot
           average == swap.average
           charged == Fee(s, x, swap)
           m == PRECISION - charged
           first == IF t.usable THEN Edge(spot, t.price, 1) ELSE 0
           rest == (spot * PRECISION) \div t.price
           rho == (t.price * PRECISION) \div external
           y == (average * PRECISION) \div t.price
<1>1. /\ PRECISION \in Nat \ {0} /\ fallback_fee \in Nat /\ SLACK \in Nat
      /\ base_fee \in Nat /\ t.weight \in 0 .. PRECISION /\ t.price \in Nat
      /\ t.usable => t.price > 0
  BY ReportPolicyAssumption, TermsTyped
<1>2. /\ average \in Nat \ {0} /\ swap.after \in Nat \ {0} /\ spot \in Nat
  BY ReportInputAssumption DEF Memory
<1>3. spot \in Nat \ {0}
  BY <1>2 DEF context_may_profit
<1>4. charged \in Nat /\ charged <= fallback_fee
  BY <1>1, FloorBelowFee
<1>5. \/ charged = fallback_fee
      \/ /\ t.usable /\ corrective(s, t.price, swap)
         /\ charged = Aged(fresh_fee(Edge(average, t.price, 1)), t.weight)
  BY FeeShape
<1> SUFFICES ASSUME m * external > average * PRECISION PROVE FALSE
  BY DEF Profits
<1>6. m * external > average * PRECISION
  OBVIOUS
<1>7. ~(first # 0) => ~MayProfitAtFallback(s, x, 1, external)
  BY <1>3 DEF context_may_profit
<1>8. first # 0 => ~(PRECISION - (rho * (PRECISION - first)) \div PRECISION
                       - Aged(fresh_fee(first), t.weight) > -SLACK)
  BY <1>3 DEF context_may_profit
<1> HIDE DEF charged, t
<1>9. first = IF t.usable /\ spot < t.price THEN PRECISION - rest ELSE 0
  BY DEF Edge, first
<1>10. spot < t.price => rest \in 0 .. PRECISION - 1
  BY <1>1, <1>2, SmallQuotient
<1> HIDE DEF first, rest, rho, y
<1>11. CASE first = 0
  <2>1. ~(t.usable /\ spot < t.price)
    BY <1>1, <1>9, <1>10, <1>11
  <2>2. charged = fallback_fee
    BY <1>1, <1>2, <1>5, <2>1 DEF corrective
  <2>3. m * external <= spot * (PRECISION - SLACK)
    <3>1. ~(m * external > spot * (PRECISION - SLACK))
      BY <1>7, <1>11, <2>2 DEF MayProfitAtFallback
    <3>2. m * external \in Int /\ spot * (PRECISION - SLACK) \in Int
      BY <1>1, <1>2, <1>4
    <3> QED BY <3>1, <3>2
  <2>4. spot * (PRECISION - SLACK) <= spot * PRECISION
        /\ spot * PRECISION <= average * PRECISION
    BY <1>1, <1>2, MulMonotone
  <2>5. /\ spot * (PRECISION - SLACK) \in Int /\ spot * PRECISION \in Int
        /\ average * PRECISION \in Int /\ m * external \in Int
    BY <1>1, <1>2, <1>4
  <2> QED BY <1>6, <2>3, <2>4, <2>5
<1>12. CASE first # 0
  <2>1. t.usable /\ spot < t.price /\ first = PRECISION - rest
        /\ rest \in 0 .. PRECISION - 1 /\ t.price \in Nat \ {0}
    BY <1>1, <1>9, <1>10, <1>12
  <2>2. rho \in Nat
    <3>1. t.price * PRECISION \in Nat
      BY <1>1, MulNat
    <3> QED BY <2>1, <3>1, DivNat DEF rho
  <2>3. PRECISION - first = rest
    BY <1>1, <2>1
  <2>4. Rejected(rest, t.weight, rho)
    BY <1>8, <1>12, <2>1, <2>3 DEF Rejected
  <2>5. m \in Int
    BY <1>1, <1>4
  <2>6. Gains(rest, rho, charged)
    BY <1>2, <1>3, <1>6, <2>1, <2>5, ProfitBuying DEF rho, rest, Gains
  <2>7. CASE charged = fallback_fee
    <3>1. rest \in 0 .. PRECISION
      BY <1>1, <2>1
    <3> QED BY <1>1, <1>4, <2>2, <2>4, <2>6, <2>7, <3>1, RejectedIsLost
  <2>8. CASE /\ corrective(s, t.price, swap)
             /\ charged = Aged(fresh_fee(Edge(average, t.price, 1)), t.weight)
    <3>1. average < t.price
      BY <1>1, <1>2, <2>8 DEF corrective
    <3>2. Edge(average, t.price, 1) = PRECISION - y
      BY <3>1 DEF Edge, y
    <3>3. y \in 0 .. PRECISION - 1
      BY <1>1, <1>2, <3>1, SmallQuotient DEF y
    <3>4. Gains(y, rho, charged)
      <4>1. average <= average
        BY <1>2
      <4> QED BY <1>2, <1>6, <2>1, <2>5, <4>1, ProfitBuying DEF rho, y, Gains
    <3>5. rest <= y
      <4>1. spot * PRECISION <= average * PRECISION
            /\ spot * PRECISION \in Nat /\ average * PRECISION \in Nat
        BY <1>1, <1>2, MulMonotone, MulNat
      <4>2. rest \in Nat /\ t.price * rest <= spot * PRECISION
        BY <2>1, <4>1, DivNat DEF rest
      <4>3. rest * t.price <= average * PRECISION
        BY <2>1, <4>1, <4>2
      <4> QED BY <2>1, <4>1, <4>2, <4>3, DivAtLeast DEF y
    <3>6. y \in rest .. PRECISION
      BY <1>1, <2>1, <3>3, <3>5
    <3>7. charged = Aged(fresh_fee(PRECISION - y), t.weight)
      BY <2>8, <3>2
    <3>8. rest \in 0 .. PRECISION
      BY <1>1, <2>1
    <3> QED BY <1>1, <1>4, <2>2, <2>4, <2>6, <3>4, <3>6, <3>7, <3>8,
               RejectedIsLost
  <2> QED BY <1>5, <2>7, <2>8
<1> QED BY <1>11, <1>12

LEMMA RejectedSelling ==
  ASSUME NEW s \in Memory, NEW x \in Context,
         NEW swap \in [coin_in : {1, 2}, average : Levels, after : Levels],
         swap.coin_in = 2, s.spot >= swap.average, swap.average > swap.after,
         NEW external \in Nat \ {0}, SLACK >= 2,
         ~context_may_profit(s, x, 2, external)
  PROVE  ~Profits(swap, Fee(s, x, swap), external)
<1> DEFINE t == report_terms(s, x)
           spot == s.spot
           average == swap.average
           charged == Fee(s, x, swap)
           m == PRECISION - charged
           first == IF t.usable THEN Edge(spot, t.price, 2) ELSE 0
           rest == (t.price * PRECISION) \div spot
           rho == (external * PRECISION) \div t.price
           y == (t.price * PRECISION) \div average
<1>1. /\ PRECISION \in Nat \ {0} /\ fallback_fee \in Nat /\ SLACK \in Nat
      /\ base_fee \in Nat /\ t.weight \in 0 .. PRECISION /\ t.price \in Nat
      /\ t.usable => t.price > 0
  BY ReportPolicyAssumption, TermsTyped
<1>2. /\ average \in Nat \ {0} /\ swap.after \in Nat \ {0} /\ spot \in Nat
  BY ReportInputAssumption DEF Memory
<1>3. spot \in Nat \ {0}
  BY <1>2 DEF context_may_profit
<1>4. charged \in Nat /\ charged <= fallback_fee
  BY <1>1, FloorBelowFee
<1>5. \/ charged = fallback_fee
      \/ /\ t.usable /\ corrective(s, t.price, swap)
         /\ charged = Aged(fresh_fee(Edge(average, t.price, 2)), t.weight)
  BY FeeShape
<1> SUFFICES ASSUME m * average > external * PRECISION PROVE FALSE
  BY DEF Profits
<1>6. m * average > external * PRECISION
  OBVIOUS
<1>7. ~(first # 0) => ~MayProfitAtFallback(s, x, 2, external)
  BY <1>3 DEF context_may_profit
<1>8. first # 0 => ~(PRECISION - (rho * (PRECISION - first)) \div PRECISION
                       - Aged(fresh_fee(first), t.weight) > -SLACK)
  BY <1>3 DEF context_may_profit
<1> HIDE DEF charged, t
<1>9. first = IF t.usable /\ t.price < spot THEN PRECISION - rest ELSE 0
  BY DEF Edge, first
<1>10. t.price < spot => rest \in 0 .. PRECISION - 1
  BY <1>1, <1>2, SmallQuotient
<1> HIDE DEF first, rest, rho, y
<1>11. CASE first = 0
  <2>1. ~(t.usable /\ t.price < spot)
    BY <1>1, <1>9, <1>10, <1>11
  <2>2. charged = fallback_fee
    BY <1>1, <1>2, <1>5, <2>1 DEF corrective
  <2>3. m * spot <= external * (PRECISION - SLACK)
    <3>1. ~(m * spot > external * (PRECISION - SLACK))
      BY <1>7, <1>11, <2>2 DEF MayProfitAtFallback
    <3>2. m * spot \in Int /\ external * (PRECISION - SLACK) \in Int
      BY <1>1, <1>2, <1>4
    <3> QED BY <3>1, <3>2
  <2>4. external * (PRECISION - SLACK) <= external * PRECISION
    BY <1>1, MulMonotone
  <2>5. /\ external * (PRECISION - SLACK) \in Int /\ external * PRECISION \in Nat
        /\ m * average \in Int /\ m * spot \in Int
    BY <1>1, <1>2, <1>4, MulNat
  <2>6. m > 0
    <3>1. m * average > 0
      BY <1>6, <2>5
    <3>2. \A u \in Int : u * average > 0 => u > 0
      BY <1>2
    <3> QED BY <1>1, <1>4, <3>1, <3>2
  <2>7. m * average <= m * spot
    BY <1>1, <1>2, <1>4, <2>6, MulMonotone
  <2> QED BY <1>6, <2>3, <2>4, <2>5, <2>7
<1>12. CASE first # 0
  <2>1. t.usable /\ t.price < spot /\ first = PRECISION - rest
        /\ rest \in 0 .. PRECISION - 1 /\ t.price \in Nat \ {0}
    BY <1>1, <1>9, <1>10, <1>12
  <2>2. rho \in Nat
    <3>1. external * PRECISION \in Nat
      BY <1>1, MulNat
    <3> QED BY <2>1, <3>1, DivNat DEF rho
  <2>3. PRECISION - first = rest
    BY <1>1, <2>1
  <2>4. Rejected(rest, t.weight, rho)
    BY <1>8, <1>12, <2>1, <2>3 DEF Rejected
  <2>5. m \in Int
    BY <1>1, <1>4
  <2>6. Gains(rest, rho, charged)
    BY <1>2, <1>3, <1>6, <2>1, <2>5, ProfitSelling DEF rho, rest, Gains
  <2>7. CASE charged = fallback_fee
    <3>1. rest \in 0 .. PRECISION
      BY <1>1, <2>1
    <3> QED BY <1>1, <1>4, <2>2, <2>4, <2>6, <2>7, <3>1, RejectedIsLost
  <2>8. CASE /\ corrective(s, t.price, swap)
             /\ charged = Aged(fresh_fee(Edge(average, t.price, 2)), t.weight)
    <3>1. t.price < average
      BY <1>1, <1>2, <2>8 DEF corrective
    <3>2. Edge(average, t.price, 2) = PRECISION - y
      BY <3>1 DEF Edge, y
    <3>3. y \in 0 .. PRECISION - 1
      BY <1>1, <1>2, <3>1, SmallQuotient DEF y
    <3>4. Gains(y, rho, charged)
      <4>1. average <= average
        BY <1>2
      <4> QED BY <1>2, <1>6, <2>1, <2>5, <4>1, ProfitSelling DEF rho, y, Gains
    <3>5. rest <= y
      <4>1. t.price * PRECISION \in Nat
        BY <1>1, MulNat
      <4>2. rest \in Nat /\ spot * rest <= t.price * PRECISION
        BY <1>3, <4>1, DivNat DEF rest
      <4>3. rest * average <= rest * spot
        BY <1>2, <4>2, MulMonotone
      <4>4. rest * average <= t.price * PRECISION
        <5>1. rest * spot = spot * rest /\ rest * spot \in Int
              /\ rest * average \in Int
          BY <1>2, <4>2
        <5> QED BY <4>1, <4>2, <4>3, <5>1
      <4> QED BY <1>2, <4>1, <4>2, <4>4, DivAtLeast DEF y
    <3>6. y \in rest .. PRECISION
      BY <1>1, <2>1, <3>3, <3>5
    <3>7. charged = Aged(fresh_fee(PRECISION - y), t.weight)
      BY <2>8, <3>2
    <3>8. rest \in 0 .. PRECISION
      BY <1>1, <2>1
    <3> QED BY <1>1, <1>4, <2>2, <2>4, <2>6, <3>4, <3>6, <3>7, <3>8,
               RejectedIsLost
  <2> QED BY <1>5, <2>7, <2>8
<1> QED BY <1>11, <1>12

(* Where rounding twice costs less than the slack: the first unit decides  *)
(* for every size of a swap, of either coin and at every external price.   *)
THEOREM RejectedSwapsLose ==
  ASSUME SLACK >= 2
  PROVE  Spec => []RejectsOnlyLosses
<1>1. Inv => RejectsOnlyLosses
  <2> SUFFICES ASSUME Inv, NEW coin_in \in {1, 2}, NEW external \in Levels,
                      ~context_may_profit(policy, research, coin_in, external),
                      NEW swap \in Swaps(coin_in)
               PROVE  ~Profits(swap, Fee(policy, research, swap), external)
    BY DEF RejectsOnlyLosses
  <2>1. policy \in Memory /\ research \in Context /\ external \in Nat \ {0}
    BY ReportInputAssumption DEF Inv
  <2>2. CASE coin_in = 1
    <3>1. policy.spot <= swap.average /\ swap.average < swap.after
      BY <2>2 DEF Swaps
    <3> QED BY <2>1, <2>2, <3>1, SwapTyped, RejectedBuying
  <2>3. CASE coin_in = 2
    <3>1. policy.spot >= swap.average /\ swap.average > swap.after
      BY <2>3 DEF Swaps
    <3> QED BY <2>1, <2>3, <3>1, SwapTyped, RejectedSelling
  <2> QED BY <2>2, <2>3
<1> QED BY <1>1, Invariance, PTL
=============================================================================
