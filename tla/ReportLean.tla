----------------------------- MODULE ReportLean -----------------------------
(***************************************************************************)
(* report_lean.hpp: a policy fed with price reports from outside.  A swap  *)
(* that moves the pool towards a fresh report pays less than the fallback  *)
(* fee, and the price scale follows two averages of reports and prices.    *)
(*                                                                         *)
(* The code computes in doubles; here PRECISION is one.  `s` is the State  *)
(* of the policy, `x` its PolicyResearchContext.  Of a swap only what the  *)
(* fee tells apart is kept: the coin that comes in, the average price paid *)
(* and the spot price after it; the committed xp and D stand behind        *)
(* s.spot.                                                                 *)
(***************************************************************************)
EXTENDS Integers

CONSTANTS
  PRECISION, SLACK,
  base_fee, capture, fallback_fee, relax_time,
  fast_half_life, slow_half_life, trend_gate, step_cap,
  report_max_age,
  ADMISSION_S, FUTURE_WINDOW_S,
  DECAY,                       (* DECAY[half_life][dt] is 2^(-dt/half_life) *)
  AGEING                       (* AGEING[age] is the root of age/relax_time *)

(* A parameter like the others, but of either kind in one run: how long a  *)
(* stored report drives the averages; negative for delivered ones only.    *)
VARIABLE report_lifetime

validate_params ==
  /\ PRECISION \in Nat \ {0} /\ SLACK \in Nat
  /\ base_fee \in Nat /\ fallback_fee \in base_fee .. PRECISION
  /\ capture \in 0 .. PRECISION /\ relax_time \in Nat \ {0}
  /\ fast_half_life <= slow_half_life
  /\ trend_gate \in Nat /\ step_cap \in Nat
  /\ report_max_age \in Nat
  /\ ADMISSION_S \in Nat /\ FUTURE_WINDOW_S \in Nat

ASSUME ReportPolicyAssumption == validate_params

ASSUME TableAssumption ==
  /\ \A half_life \in {fast_half_life, slow_half_life} :
       \A dt \in DOMAIN DECAY[half_life] :
         DECAY[half_life][dt] \in 0 .. PRECISION
  /\ DOMAIN AGEING = 1 .. relax_time
  /\ \A a, b \in 1 .. relax_time :
       AGEING[a] \in 0 .. PRECISION /\ (a <= b => AGEING[a] <= AGEING[b])

Smaller(a, b) == IF a < b THEN a ELSE b
Larger(a, b) == IF a > b THEN a ELSE b
Between(lo, a, hi) == Larger(lo, Smaller(a, hi))
Away(a, b) == IF a > b THEN a - b ELSE b - a

NoReport == [price |-> 0, timestamp |-> 0]

Untold ==
  [report |-> NoReport, last_update_ts |-> 0, last_prices |-> 0,
   fast_ema |-> 0, slow_ema |-> 0, price_scale |-> 0, spot |-> 0]

-----------------------------------------------------------------------------
(* Reports.                                                                *)

Age(r, x) == x.block_timestamp - r.timestamp

AdmissibleAgain(stored, x) ==                      (* Mutant: not newer     *)
  LET age == Age(x.feed, x)
  IN  /\ x.feed.price > 0
      /\ -FUTURE_WINDOW_S <= age /\ age <= ADMISSION_S
      /\ age <= report_max_age

admissible(stored, x) ==
  LET age == Age(x.feed, x)
  IN  /\ x.feed.price > 0
      /\ -FUTURE_WINDOW_S <= age /\ age <= ADMISSION_S
      /\ age <= report_max_age
      /\ stored.price > 0 => x.feed.timestamp > stored.timestamp

Effective(s, x) == IF admissible(s.report, x) THEN x.feed ELSE s.report

delivered(s, x) == IF admissible(s.report, x) THEN x.feed.price ELSE 0

(* The report the averages observe on this touch, 0 for none.              *)
driver_report(s, x) ==
  LET r == Effective(s, x)
  IN  IF report_lifetime < 0 THEN delivered(s, x)
      ELSE IF /\ -FUTURE_WINDOW_S <= Age(r, x)
              /\ Larger(0, Age(r, x)) < report_lifetime
        THEN r.price ELSE 0

-----------------------------------------------------------------------------
(* Fees.                                                                   *)

Weight(age) == IF age <= 0 THEN 0 ELSE AGEING[Smaller(age, relax_time)]

report_terms(s, x) ==
  LET r == Effective(s, x)
      usable == /\ r.price > 0
                /\ -FUTURE_WINDOW_S <= Age(r, x) /\ Age(r, x) < relax_time
  IN  [usable |-> usable, price |-> r.price,
       weight |-> IF usable THEN Weight(Age(r, x)) ELSE PRECISION]

(* Capture of the edge above the base fee, at most the fallback.           *)
fresh_fee(edge) ==
  Smaller(fallback_fee,
          base_fee + (capture * Larger(0, edge - base_fee)) \div PRECISION)

AgedBackwards(fee, weight) ==                      (* Mutant: swapped       *)
  (weight * fee + (PRECISION - weight) * fallback_fee) \div PRECISION

Aged(fee, weight) ==
  ((PRECISION - weight) * fee + weight * fallback_fee) \div PRECISION

(* What trading at `price` gains against the report: one minus input over  *)
(* output, 0 for a loss.  Coin 1 buys the second coin, coin 2 sells it.    *)
Edge(price, report, coin_in) ==
  IF coin_in = 1
    THEN IF report > price THEN PRECISION - (price * PRECISION) \div report
                           ELSE 0
    ELSE IF price > report THEN PRECISION - (report * PRECISION) \div price
                           ELSE 0

(* The swap moves the spot towards the report without passing it.          *)
corrective(s, report, swap) ==
  IF swap.coin_in = 1 THEN s.spot < swap.after /\ swap.after <= report
                      ELSE s.spot > swap.after /\ swap.after >= report

Fee(s, x, swap) ==
  LET t == report_terms(s, x)
      edge == Edge(swap.average, t.price, swap.coin_in)
  IN  IF t.usable /\ edge > 0 /\ corrective(s, t.price, swap)
        THEN Aged(fresh_fee(edge), t.weight)
        ELSE fallback_fee

FloorAtSpotEdge(s, x, coin_in) ==                  (* Mutant: a spot fee    *)
  LET t == report_terms(s, x)
  IN  IF t.usable THEN Aged(fresh_fee(Edge(s.spot, t.price, coin_in)),
                            t.weight)
                  ELSE fallback_fee

(* A floor for every swap of coin_in.                                      *)
context_fee_floor(s, x, coin_in) ==
  LET t == report_terms(s, x)
      behind == IF coin_in = 1 THEN t.price <= s.spot ELSE t.price >= s.spot
  IN  IF ~t.usable \/ (s.spot > 0 /\ behind) THEN fallback_fee
      ELSE Aged(base_fee, t.weight)

MayProfitAtFallback(s, x, coin_in, external) ==    (* Mutant: fresh ignored *)
  IF coin_in = 1
    THEN (PRECISION - fallback_fee) * external > s.spot * (PRECISION - SLACK)
    ELSE (PRECISION - fallback_fee) * s.spot > external * (PRECISION - SLACK)

(* FALSE when no swap of coin_in profits against `external`: decided at    *)
(* the edge of the first unit.                                             *)
context_may_profit(s, x, coin_in, external) ==
  LET t == report_terms(s, x)
      edge == IF t.usable THEN Edge(s.spot, t.price, coin_in) ELSE 0
      rho == IF coin_in = 1 THEN (t.price * PRECISION) \div external
                            ELSE (external * PRECISION) \div t.price
      cost == (rho * (PRECISION - edge)) \div PRECISION
  IN  IF s.spot = 0 THEN TRUE
      ELSE IF edge = 0 THEN MayProfitAtFallback(s, x, coin_in, external)
      ELSE PRECISION - cost - Aged(fresh_fee(edge), t.weight) > -SLACK

-----------------------------------------------------------------------------
(* The price scale.                                                        *)

Observation(s, x, last) ==
  IF driver_report(s, x) > 0 THEN driver_report(s, x) ELSE last

ema_alpha(dt, half_life) ==
  IF dt \in DOMAIN DECAY[half_life] THEN DECAY[half_life][dt] ELSE 0

(* Both averages at `now`.  A clock behind the policy's leaves them alone. *)
emas(s, obs, now) ==
  LET o == Between(s.price_scale \div 2, obs, 2 * s.price_scale)
      ema(old, half_life) ==
        LET alpha == ema_alpha(now - s.last_update_ts, half_life)
        IN  (o * (PRECISION - alpha) + old * alpha) \div PRECISION
  IN  IF now <= s.last_update_ts
        THEN [fast |-> s.fast_ema, slow |-> s.slow_ema]
        ELSE [fast |-> ema(s.fast_ema, fast_half_life),
              slow |-> ema(s.slow_ema, slow_half_life)]

(* The fast average while prices range, the observation once the averages  *)
(* are trend_gate apart.                                                   *)
TrendTarget(e, obs) ==
  LET w == Smaller(PRECISION,
                   (Away((e.fast * PRECISION) \div e.slow, PRECISION)
                      * PRECISION) \div trend_gate)
      pull == (w * Away(obs, e.fast)) \div PRECISION
  IN  IF trend_gate = 0 \/ e.slow = 0 THEN e.fast
      ELSE IF obs >= e.fast THEN e.fast + pull ELSE e.fast - pull

(* Half of the gap, at most step_cap, times the five of the pool.          *)
Pursue(scale, target) ==
  LET move == Smaller(Away(target, scale) \div 2,
                      (scale * step_cap) \div PRECISION)
  IN  IF target >= scale THEN scale + 5 * move ELSE scale - 5 * move

(* get_price_scale, 0 before the first update.                             *)
ReportTarget(s, x, last) ==
  LET obs == Observation(s, x, last)
  IN  IF s.price_scale = 0 THEN 0
      ELSE Pursue(s.price_scale,
                  TrendTarget(emas(s, obs, x.block_timestamp), obs))

StoreThenObserve(s, x, scale, oracle, last, spot) ==   (* Mutant: order     *)
  LET told == [s EXCEPT !.report = Effective(s, x)]
      obs == Observation(told, x, last)
      e == IF s.price_scale = 0 THEN [fast |-> oracle, slow |-> oracle]
           ELSE emas(s, obs, x.block_timestamp)
  IN  [report |-> told.report, last_update_ts |-> x.block_timestamp,
       last_prices |-> obs, fast_ema |-> e.fast, slow_ema |-> e.slow,
       price_scale |-> scale, spot |-> spot]

(* update_state: the report is judged against the stored one, then stored. *)
ReportUpdate(s, x, scale, oracle, last, spot) ==
  LET obs == Observation(s, x, last)
      e == IF s.price_scale = 0 THEN [fast |-> oracle, slow |-> oracle]
           ELSE emas(s, obs, x.block_timestamp)
  IN  [report |-> Effective(s, x), last_update_ts |-> x.block_timestamp,
       last_prices |-> obs, fast_ema |-> e.fast, slow_ema |-> e.slow,
       price_scale |-> scale, spot |-> spot]
=============================================================================
