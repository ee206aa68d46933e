---------------------------- MODULE TwocryptoViews ----------------------------
(***************************************************************************)
(* The read-only functions of TwoCryptoPool<uint256>: quotes of a trade in *)
(* both directions, and the oracle projected to a later time.               *)
(* As elsewhere, a call that throws has no outcome.                        *)
(***************************************************************************)
EXTENDS Twocrypto

CONSTANTS
  Wanted,         (* the dy that get_dx is asked for                        *)
  N_ITER,         (* its rounds: 5 unless the action says otherwise         *)
  QuoteError      (* how far get_dx may be off, in units of input           *)

ASSUME ViewAssumption ==
  /\ Wanted \subseteq Nat \ {0}
  /\ N_ITER \in 0 .. 100
  /\ QuoteError \in Nat

-----------------------------------------------------------------------------
(* A scaled amount in units of coin k.                                     *)
Unscaled(v, k) ==
  (IF k = 1 THEN v ELSE (v * PRECISION) \div cached_price_scale)
    \div precisions[k]

QuoteBeforeTrade(i, dx) ==                         (* Mutant: fee of old xp *)
  LET j == Other(i)
      xp == XP(Plus(balances, Only(i, dx)), cached_price_scale)
      NetOf(gross, rate) == gross - (rate * gross) \div FEE_PRECISION
  IN  UNION {{NetOf(Unscaled(xp[j] - y - 1, j), rate) : rate \in fee(xp)}
               : y \in {z \in get_y(xp, D, j) : z < xp[j]}}

get_dy(i, dx) ==
  LET j == Other(i)
      xp == XP(Plus(balances, Only(i, dx)), cached_price_scale)
      NetOf(gross, rate) == gross - (rate * gross) \div FEE_PRECISION
  IN  UNION {{NetOf(Unscaled(xp[j] - y - 1, j), rate)
                : rate \in fee([xp EXCEPT ![j] = y])}
               : y \in {z \in get_y(xp, D, j) : z < xp[j]}}

InputForNoFee(i, dy, dy_with_fee) ==               (* Mutant: fee forgotten *)
  LET j == Other(i)
      xp == XP(Minus(balances, Only(j, dy_with_fee)), cached_price_scale)
  IN  IF balances[j] < dy_with_fee THEN {}
      ELSE {[dx |-> Unscaled(x - xp[i], i), dy_with_fee |-> dy + 1]
              : x \in {z \in get_y(xp, D, i) : z >= xp[i]}}

(* One round of get_dx: the input for dy_with_fee, and the gross output    *)
(* that would leave dy after the fee of the state reached.                 *)
InputFor(i, dy, dy_with_fee) ==
  LET j == Other(i)
      xp == XP(Minus(balances, Only(j, dy_with_fee)), cached_price_scale)
      Found(x) == {[dx |-> Unscaled(x - xp[i], i),
                    dy_with_fee |-> dy + (rate * dy_with_fee) \div FEE_PRECISION
                                      + 1]
                     : rate \in fee([xp EXCEPT ![i] = x])}
  IN  IF balances[j] < dy_with_fee THEN {}
      ELSE UNION {Found(x) : x \in {z \in get_y(xp, D, i) : z >= xp[i]}}

get_dx(i, dy) ==
  LET rounds[n \in 0 .. N_ITER] ==
        IF n = 0 THEN {[dx |-> 0, dy_with_fee |-> dy]}
        ELSE UNION {InputFor(i, dy, q.dy_with_fee) : q \in rounds[n - 1]}
  IN  {q.dx : q \in rounds[N_ITER]}

-----------------------------------------------------------------------------
(* Prices.                                                                 *)

projected_price_oracle_at(now) ==
  IF last_timestamp >= now THEN cached_price_oracle ELSE ema(now - last_timestamp)

-----------------------------------------------------------------------------
(* Properties.                                                             *)

(* An exchange pays exactly what get_dy quoted on the state before it.     *)
PaysTheQuote ==
  [][\A i \in Coin, dx \in Trades, min \in Minimums :
       Exchange(i, dx, min)
         => vault[Other(i)] - vault'[Other(i)] \in get_dy(i, dx)]_vars

(* The input get_dx names is the one that buys what was asked for, to      *)
(* within QuoteError units of input, though the fee that depends on the    *)
(* trade is approached by a handful of rounds only.                        *)
InputBuysWanted ==
  \A i \in Coin, dy \in Wanted : \A dx \in get_dx(i, dy) :
    /\ \A out \in get_dy(i, dx + QuoteError) : out >= dy
    /\ dx > QuoteError => \A out \in get_dy(i, dx - QuoteError) : out <= dy

(* Nothing a caller does within one second moves the oracle of that second *)
(* on a seeded pool: it averages over prices of earlier seconds only.      *)
OracleSteadyWithinSecond ==
  [][totalSupply > 0 /\ block_timestamp' = block_timestamp
       => projected_price_oracle_at(block_timestamp)'
            = projected_price_oracle_at(block_timestamp)]_vars

=============================================================================
