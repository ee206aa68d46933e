---------------------------- MODULE ReportedPool ----------------------------
(***************************************************************************)
(* A pool with the report policy: reports arrive late, early, twice and    *)
(* out of order, the clock moves as its owner likes, and every touch of    *)
(* the pool shows the policy the report at hand.                           *)
(*                                                                         *)
(* Amounts are left out: the price after a touch and the pool's own oracle *)
(* are any of Prices, and whether a move pays is a choice.  The owner of a *)
(* pool of doubles sets its clock before the first call.                   *)
(***************************************************************************)
EXTENDS ReportLean

CONSTANTS
  adjustment_step_min, adjustment_step_max,
  Lifetimes,           (* values of report_lifetime                         *)
  Prices,              (* of the pool: last_prices, oracle, spot, scale     *)
  Reports,             (* prices reported; no price of the pool             *)
  ReportTimes, Timestamps,
  Levels,              (* where swaps end; prices of the outside market     *)
  MaxCalls             (* bound on the calls made                           *)

(* Reports carry the time of their observation: zero is no report's.       *)
ASSUME ReportInputAssumption ==
  /\ adjustment_step_min \in Nat /\ adjustment_step_max \in Nat
  /\ Prices \subseteq Nat \ {0} /\ Reports \subseteq Nat \ {0}
  /\ Prices \cap Reports = {} /\ Levels \subseteq Nat \ {0}
  /\ ReportTimes \subseteq Nat \ {0} /\ Timestamps \subseteq Nat
  /\ Lifetimes \subseteq Int
  /\ MaxCalls \in Nat

VARIABLES
  research,            (* the block time and the report at hand             *)
  last_timestamp,      (* when the pool's oracle moved last                 *)
  cached_price_scale, last_prices, policy, calls

vars == <<report_lifetime, research, last_timestamp, cached_price_scale,
          last_prices, policy, calls>>

Actuator == INSTANCE PriceScaleActuator

seeded == policy.price_scale > 0

Init ==
  /\ report_lifetime \in Lifetimes
  /\ \E start \in Timestamps :
       /\ research = [block_timestamp |-> start, feed |-> NoReport]
       /\ last_timestamp = start
  /\ cached_price_scale \in Prices
  /\ last_prices = cached_price_scale
  /\ policy = Untold
  /\ calls = 0

Call == calls < MaxCalls /\ calls' = calls + 1

(* refresh_policy_context with a report: at most a minute ahead.           *)
Deliver ==
  /\ Call
  /\ \E price \in Reports, t \in ReportTimes :
       /\ t <= research.block_timestamp + 60
       /\ research' = [research EXCEPT
                         !.feed = [price |-> price, timestamp |-> t]]
  /\ UNCHANGED <<last_timestamp, cached_price_scale, last_prices, policy>>

(* clear_policy_price_feed.                                                *)
Clear ==
  /\ Call /\ research' = [research EXCEPT !.feed = NoReport]
  /\ UNCHANGED <<last_timestamp, cached_price_scale, last_prices, policy>>

SetClock ==
  /\ Call
  /\ \E t \in Timestamps :
       /\ research' = [research EXCEPT !.block_timestamp = t]
       /\ last_timestamp' = IF seeded THEN last_timestamp ELSE t
  /\ UNCHANGED <<cached_price_scale, last_prices, policy>>

FirstDeposit ==
  /\ Call /\ ~seeded
  /\ policy' = ReportUpdate(policy, research, cached_price_scale,
                            last_prices, last_prices, last_prices)
  /\ UNCHANGED <<research, last_timestamp, cached_price_scale, last_prices>>

NewBlock == last_timestamp < research.block_timestamp

Settle(oracle, last) ==
  /\ policy' = ReportUpdate(policy, research, cached_price_scale, oracle,
                            last, last)
  /\ UNCHANGED cached_price_scale

Rebalance(oracle, last) ==
  /\ NewBlock
  /\ cached_price_scale' =
       Actuator!NewPriceScale(ReportTarget(policy, research, last), oracle,
                              cached_price_scale)
  /\ cached_price_scale' # cached_price_scale
  /\ \E spot \in Prices :
       policy' = ReportUpdate(policy, research, cached_price_scale', oracle,
                              last, spot)

(* exchange, add_liquidity, remove_liquidity_fixed_out and tick.           *)
Touch ==
  /\ Call /\ seeded
  /\ last_timestamp' =
       IF NewBlock THEN research.block_timestamp ELSE last_timestamp
  /\ \E oracle, last \in Prices :
       /\ last_prices' = last
       /\ Settle(oracle, last) \/ Rebalance(oracle, last)
  /\ UNCHANGED research

(* remove_liquidity leaves the prices where they are.                      *)
Exit ==
  /\ Call /\ seeded
  /\ policy' = ReportUpdate(policy, research, cached_price_scale,
                            last_prices, last_prices, policy.spot)
  /\ UNCHANGED <<research, last_timestamp, cached_price_scale, last_prices>>

Next ==
  /\ Deliver \/ Clear \/ SetClock \/ FirstDeposit \/ Touch \/ Exit
  /\ UNCHANGED report_lifetime

Spec == Init /\ [][Next]_vars

-----------------------------------------------------------------------------
(* Swaps from the committed spot: the average price lies on the way.       *)
Swaps(coin_in) ==
  {swap \in [coin_in : {coin_in}, average : Levels, after : Levels] :
     IF coin_in = 1
       THEN policy.spot <= swap.average /\ swap.average < swap.after
       ELSE policy.spot >= swap.average /\ swap.average > swap.after}

(* The floor an arbitrageur sizes with is under the fee of every swap of   *)
(* that coin, whatever report is stored or at hand, and the fee is between *)
(* base_fee and fallback_fee (context_fee_floor, fee_floor).               *)
FeeAboveContextFloor ==
  seeded => \A coin_in \in {1, 2} : \A swap \in Swaps(coin_in) :
    LET charged == Fee(policy, research, swap)
    IN  /\ context_fee_floor(policy, research, coin_in) <= charged
        /\ base_fee <= charged /\ charged <= fallback_fee

Profits(swap, charged, external) ==
  IF swap.coin_in = 1
    THEN (PRECISION - charged) * external > swap.average * PRECISION
    ELSE (PRECISION - charged) * swap.average > external * PRECISION

(* A swap rejected without being sized would have lost money at every      *)
(* size: large swaps pay the fallback past the report and small ones less, *)
(* but the first unit decides (context_may_profit).                        *)
RejectsOnlyLosses ==
  seeded => \A coin_in \in {1, 2}, external \in Levels :
    ~context_may_profit(policy, research, coin_in, external) =>
      \A swap \in Swaps(coin_in) :
        ~Profits(swap, Fee(policy, research, swap), external)

(* Waiting never makes a swap cheaper: while no other report arrives, the  *)
(* fee at a later time is at least the fee now (report_terms).             *)
AgeingNeverCheapens ==
  seeded => \A coin_in \in {1, 2} : \A swap \in Swaps(coin_in) :
    LET at(t) == [block_timestamp |-> t, feed |-> NoReport]
    IN  \A t1, t2 \in Timestamps :
          /\ t1 <= t2
          /\ policy.report.timestamp <= t1 + FUTURE_WINDOW_S
          => Fee(policy, at(t1), swap) <= Fee(policy, at(t2), swap)

(* A report is taken in once: however the clock is set and reports are     *)
(* repeated, the stored one is only replaced by a newer observation, at    *)
(* hand and inside the window at that moment (admissible, update_state).   *)
ReportsTakenInOrder ==
  [][policy'.report # policy.report =>
       /\ policy'.report = research.feed
       /\ policy'.report.timestamp > policy.report.timestamp
       /\ Age(policy'.report, research)
            \in -FUTURE_WINDOW_S .. ADMISSION_S]_vars

(* The pool is asked to move on exactly what the update then remembers:    *)
(* the target follows from the averages and the observation stored by the  *)
(* same touch (get_price_scale, update_state).                             *)
TargetIsRemembered ==
  [][cached_price_scale' # cached_price_scale =>
       LET e == [fast |-> policy'.fast_ema, slow |-> policy'.slow_ema]
           target == Pursue(cached_price_scale,
                            TrendTarget(e, policy'.last_prices))
       IN  \E oracle \in Prices :
             cached_price_scale' =
               Actuator!NewPriceScale(target, oracle, cached_price_scale)]_vars
=============================================================================
