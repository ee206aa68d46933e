------------------------------ MODULE Twocrypto ------------------------------
(***************************************************************************)
(* TwoCryptoPool<uint256>: a two-coin pool that concentrates liquidity     *)
(* around price_scale, moves the scale towards its price oracle when the   *)
(* profit of the LPs pays for the move, and spends donated shares on it.   *)
(* The pool has no policy (PolicyKind::None).                              *)
(*                                                                         *)
(* One action is one call by the single caller of the program, from the    *)
(* first check to the last write.  A call that throws is undone by         *)
(* with_mutable_rollback or add_liquidity_impl, so it is no step here; the *)
(* exception is tick, which nothing undoes (TickThrows).                   *)
(*                                                                         *)
(* As in StableswapMath, what may throw is a set of outcomes.              *)
(***************************************************************************)
EXTENDS StableswapMath

CONSTANTS
  FEE_PRECISION, NOISE_FEE, MINIMUM_LIQUIDITY,
  precisions,                      (* the multiplier of each coin           *)
  initial_price,
  mid_fee, out_fee, fee_gamma,
  adjustment_step_min, adjustment_step_max,
  ma_time,
  reserved_profit_fraction, admin_fee,
  donation_shares_max_ratio, donation_duration,
  donation_protection_period, donation_protection_lp_threshold,
  MIN_ADMIN_FEE_CLAIM_INTERVAL

(* The calls explored: what the caller may ask for, and the clock.         *)
CONSTANTS
  Seeds, Deposits, Donations,      (* amounts of the two coins              *)
  Trades,                          (* dx of an exchange                     *)
  Burns,                           (* LP tokens of a proportional exit      *)
  FixedOuts,                       (* <<token_amount, amount_i>>            *)
  Minimums,                        (* slippage bounds                       *)
  Seconds, Timestamps,             (* advance_time, set_block_timestamp     *)
  StartTime

PairsOfNat == Nat \X Nat
None == <<0, 0>>
Plus(a, b) == <<a[1] + b[1], a[2] + b[2]>>
Minus(a, b) == <<a[1] - b[1], a[2] - b[2]>>
Only(i, x) == IF i = 1 THEN <<x, 0>> ELSE <<0, x>>

ASSUME FeeAssumption ==
  /\ FEE_PRECISION \in Nat \ {0} /\ NOISE_FEE \in Nat
  /\ mid_fee \in Nat /\ out_fee \in Nat /\ fee_gamma \in Nat
  /\ mid_fee + NOISE_FEE < FEE_PRECISION
  /\ out_fee + NOISE_FEE < FEE_PRECISION
  /\ reserved_profit_fraction \in 0 .. FEE_PRECISION
  /\ admin_fee \in 0 .. FEE_PRECISION - 1

ASSUME PoolAssumption ==
  /\ precisions \in (Nat \ {0}) \X (Nat \ {0})
  /\ initial_price \in Nat \ {0}
  /\ MINIMUM_LIQUIDITY \in Nat \ {0}
  /\ adjustment_step_min \in Nat /\ adjustment_step_max \in Nat
  /\ ma_time \in Nat \ {0}
  /\ MIN_ADMIN_FEE_CLAIM_INTERVAL \in Nat

ASSUME DonationAssumption ==
  /\ donation_shares_max_ratio \in Nat \ {0}
  /\ donation_duration \in Nat \ {0}
  /\ donation_protection_period \in Nat \ {0}
  /\ donation_protection_lp_threshold \in Nat \ {0}

(* Clock readings are Unix times: later than one donation_duration.        *)
ASSUME InputAssumption ==
  /\ Seeds \subseteq PairsOfNat
  /\ Deposits \subseteq PairsOfNat /\ Donations \subseteq PairsOfNat
  /\ Trades \subseteq Nat /\ Burns \subseteq Nat
  /\ FixedOuts \subseteq Nat \X Nat
  /\ Minimums \subseteq Nat
  /\ Seconds \subseteq Nat
  /\ Timestamps \cup {StartTime} \subseteq Nat
  /\ \A t \in Timestamps \cup {StartTime} : t >= donation_duration

VARIABLES
  balances, D, totalSupply,
  cached_price_scale, cached_price_oracle, last_prices, last_timestamp,
  xcp_profit, lp_xcp_profit, virtual_price,
  admin_balances, last_admin_fee_claim_timestamp,
  block_timestamp,
  donation_shares, last_donation_release_ts,
  donation_protection_expiry_ts, donation_protection_extension_remainder,
  vault,      (* history: tokens received minus tokens paid out, per coin   *)
  issued      (* history: LP tokens handed to the caller minus those burned *)

priceVars == <<cached_price_scale, cached_price_oracle, last_prices,
               last_timestamp>>
profitVars == <<xcp_profit, lp_xcp_profit, virtual_price>>
adminVars == <<admin_balances, last_admin_fee_claim_timestamp>>
donationVars == <<donation_shares, last_donation_release_ts>>
protectionVars == <<donation_protection_expiry_ts,
                    donation_protection_extension_remainder>>
historyVars == <<vault, issued>>

(* MutableSnapshot: everything a failed call is restored from.             *)
vars == <<balances, D, totalSupply, priceVars, profitVars, adminVars,
          block_timestamp, donationVars, protectionVars, historyVars>>

Actuator == INSTANCE PriceScaleActuator

-----------------------------------------------------------------------------
(* Scaled balances and fees.                                               *)

XP(bal, price_scale) ==
  <<bal[1] * precisions[1],
    (bal[2] * precisions[2] * price_scale) \div PRECISION>>

clamp_fee(rate) == MinOf(FEE_PRECISION, MaxOf(NOISE_FEE, rate))

(* How balanced xp is: PRECISION at equal balances, 0 at the extreme.      *)
Balancedness(xp) ==
  LET S == xp[1] + xp[2]
  IN  (((PRECISION * N_COINS * N_COINS * xp[1]) \div S) * xp[2]) \div S

(* The weight of mid_fee against out_fee.  fee_gamma bends it.             *)
FeeWeightDivisor(B) == (fee_gamma * B) \div PRECISION + PRECISION - B

native_fee(xp) ==
  LET B == Balancedness(xp)
      weight == (fee_gamma * B) \div FeeWeightDivisor(B)
  IN  IF xp[1] + xp[2] = 0 THEN {out_fee}
      ELSE IF FeeWeightDivisor(B) = 0 THEN {}
      ELSE {(mid_fee * weight + out_fee * (PRECISION - weight))
              \div PRECISION}

fee(xp) == {clamp_fee(rate) : rate \in native_fee(xp)}

fee_lower_bound == clamp_fee(MinOf(mid_fee, out_fee))

(* _assert_balance: tighter than the guard of newton_D.                    *)
assert_balance(xp) ==
  /\ xp[1] > 0 /\ xp[2] > 0
  /\ MaxOf(xp[1], xp[2]) \div MinOf(xp[1], xp[2]) < 1000

-----------------------------------------------------------------------------
(* Donated shares: they unlock over donation_duration, and a deposit       *)
(* during the protection period holds part of them back.                   *)

(* _donation_shares(false).  A clock behind the release time makes the     *)
(* unsigned difference wrap, and then everything counts as unlocked.       *)
UnlockedShares(shares, release) ==
  IF shares = 0 THEN 0
  ELSE IF block_timestamp < release THEN shares
  ELSE MinOf((shares * (block_timestamp - release)) \div donation_duration,
             shares)

ProtectionFactor(expiry) ==
  IF expiry > block_timestamp
    THEN MinOf(((expiry - block_timestamp) * PRECISION)
                 \div donation_protection_period, PRECISION)
    ELSE 0

(* _donation_shares(true).                                                 *)
AvailableShares(shares, release, expiry) ==
  (UnlockedShares(shares, release) * (PRECISION - ProtectionFactor(expiry)))
    \div PRECISION

(* A release time under which `unlocked` of `shares` count as unlocked.    *)
ReleaseFor(unlocked, shares) ==
  block_timestamp -
    (IF shares > 0 THEN (unlocked * donation_duration) \div shares ELSE 0)

lp_balance_with_minimum == totalSupply - donation_shares   (* Mutant      *)

single_caller_lp_balance ==
  MaxOf(totalSupply - donation_shares - MINIMUM_LIQUIDITY, 0)

-----------------------------------------------------------------------------
(* Fees on a change of liquidity.                                          *)

(* The amounts in terms of the first coin at the ratio of `basis`.         *)
ScaledAmounts(amounts, basis) ==
  LET denom == basis[2] * precisions[2]
      ratio == IF denom > 0
                 THEN (basis[1] * precisions[1] * PRECISION) \div denom
                 ELSE 0
  IN  <<amounts[1] * precisions[1],
        (amounts[2] * precisions[2] * ratio) \div PRECISION>>

(* What a deposit pays on top while donated shares are protected.          *)
lp_spam_penalty_fee(fee_prime) ==
  IF donation_protection_expiry_ts > block_timestamp
    THEN MinOf(fee_prime,
               ((ProtectionFactor(donation_protection_expiry_ts)
                   * fee_prime * donation_shares) \div totalSupply)
                 \div donation_shares_max_ratio)
    ELSE 0

(* _calc_token_fee of a deposit or a withdrawal that is no donation.       *)
calc_token_fee(amounts, xp, basis, deposit) ==
  LET scaled == ScaledAmounts(amounts, basis)
      S == scaled[1] + scaled[2]
      avg == S \div N_COINS
      Sdiff == Distance(scaled[1], avg) + Distance(scaled[2], avg)
      Rate(fee_prime) ==
        IF S = 0 THEN NOISE_FEE
        ELSE (fee_prime * Sdiff) \div S + NOISE_FEE
               + (IF deposit THEN lp_spam_penalty_fee(fee_prime) ELSE 0)
  IN  {Rate((rate * N_COINS) \div (4 * (N_COINS - 1))) : rate \in fee(xp)}

(* The LP tokens withheld from d_token, rounded up.                        *)
LpFee(rate, d_token) == (rate * d_token) \div FEE_PRECISION + 1

(* _apply_admin_d_token_fee: the tokens that leave `bal` for the admin.    *)
AdminCut(bal, d_token_fee, fee_supply) ==
  LET cut == (d_token_fee * reserved_profit_fraction * admin_fee)
               \div (FEE_PRECISION * FEE_PRECISION)
  IN  IF cut > 0 /\ fee_supply > 0
        THEN <<(bal[1] * cut) \div fee_supply, (bal[2] * cut) \div fee_supply>>
        ELSE None

ChargesAdmin == reserved_profit_fraction > 0 /\ admin_fee > 0

(* What a call leaves in the pool of what it found, received and paid, and *)
(* of what it set aside for the admin.                                     *)
RetainedWithCut(found, received, paid, cut) ==     (* Mutant: cut not taken *)
  Minus(Plus(found, received), paid)

Retained(found, received, paid, cut) ==
  Minus(Minus(Plus(found, received), paid), cut)

-----------------------------------------------------------------------------
(* tweak_price, which every call that changes D except a proportional exit *)
(* ends in.  The caller passes the LP ledger it has committed so far: the  *)
(* supply, the donated shares among it and their release time.             *)

Book(supply, shares, release) ==
  [supply |-> supply, shares |-> shares, release |-> release]

VirtualPrice(x, supply) ==
  IF supply > 0 THEN (PRECISION * x) \div supply ELSE PRECISION

(* The moving average, towards the last price capped at 1/2 .. 2 scales.   *)
CappedLastPrice ==
  MinOf(MaxOf(last_prices, cached_price_scale \div 2), 2 * cached_price_scale)

ema(dt) ==
  LET alpha == wad_exp((dt * PRECISION) \div ma_time)
  IN  (CappedLastPrice * (PRECISION - alpha) + cached_price_oracle * alpha)
        \div PRECISION

UpdateOracleEachCall ==                            (* Mutant: clock stays   *)
  /\ cached_price_oracle' = IF last_timestamp < block_timestamp
                               THEN ema(block_timestamp - last_timestamp)
                               ELSE cached_price_oracle
  /\ UNCHANGED last_timestamp

UpdateOracle ==
  IF last_timestamp < block_timestamp
    THEN /\ cached_price_oracle' = ema(block_timestamp - last_timestamp)
         /\ last_timestamp' = block_timestamp
    ELSE UNCHANGED <<cached_price_oracle, last_timestamp>>

(* Profit and the part of it that belongs to the LPs, once vp is known.    *)
AccruedProfit(vp) ==
  IF vp > virtual_price
    THEN xcp_profit + vp - virtual_price
    ELSE MaxOf(xcp_profit - (virtual_price - vp), 0)

LpShare(d_profit) ==
  (d_profit * reserved_profit_fraction * (FEE_PRECISION - admin_fee))
    \div (FEE_PRECISION * FEE_PRECISION - reserved_profit_fraction * admin_fee)

AccruedLpProfit(vp) ==
  LET vp_delta == virtual_price - vp
      baseline == MaxOf(xcp_profit, PRECISION)
  IN  IF vp > virtual_price
        THEN IF AccruedProfit(vp) > baseline
               THEN lp_xcp_profit + LpShare(AccruedProfit(vp) - baseline)
               ELSE lp_xcp_profit
        ELSE IF lp_xcp_profit > PRECISION
                /\ vp_delta <= lp_xcp_profit - PRECISION
               THEN lp_xcp_profit - vp_delta
               ELSE PRECISION

AccrueProfit(vp) ==
  /\ xcp_profit' = AccruedProfit(vp)
  /\ lp_xcp_profit' = AccruedLpProfit(vp)

SpendableUnprotected(book) ==                      (* Mutant: no protection *)
  UnlockedShares(book.shares, book.release)

(* The shares a rebalance may spend.  The caller has written the expiry.   *)
Spendable(book) ==
  AvailableShares(book.shares, book.release, donation_protection_expiry_ts')

BoostedPrice(x, book, vp) ==
  LET locked_supply == book.supply - Spendable(book)
  IN  IF locked_supply > 0 THEN (PRECISION * x) \div locked_supply ELSE vp

p_new_from_last_price ==                           (* Mutant: no average    *)
  Actuator!NewPriceScale(0, last_prices', cached_price_scale)

p_new ==
  Actuator!NewPriceScale(0, cached_price_oracle', cached_price_scale)

RebalancesAnyTime(x, book, vp) ==                  (* Mutant: no block guard *)
  /\ BoostedPrice(x, book, vp) > lp_xcp_profit'
  /\ p_new # cached_price_scale

Rebalances(x, book, vp) ==
  /\ BoostedPrice(x, book, vp) > lp_xcp_profit'
  /\ last_timestamp < block_timestamp
  /\ p_new # cached_price_scale

BurnedOffBook(book, burn) ==                       (* Mutant: supply stays  *)
  IF burn = 0 THEN book ELSE Book(book.supply, book.shares - burn, book.release)

(* The book after `burn` of the unlocked shares are gone.                  *)
Burned(book, burn) ==
  LET shares_unlocked == UnlockedShares(book.shares, book.release)
      left == shares_unlocked
                - (burn * shares_unlocked) \div Spendable(book)
  IN  IF burn = 0 THEN book
      ELSE Book(book.supply - burn, book.shares - burn,
                ReleaseFor(left, book.shares - burn))

gate_without_profit(new_vp) == new_vp > PRECISION  (* Mutant: half the gate *)

lp_gate_passed(new_vp) == new_vp > PRECISION /\ new_vp >= lp_xcp_profit'

BurnOneMore(new_xcp, goal_vp, book) ==             (* Mutant: off by one    *)
  MinOf(book.supply - (PRECISION * new_xcp) \div goal_vp + 1, Spendable(book))

(* How many shares to burn for new_xcp to be worth the goal again.         *)
BurnFor(new_xcp, goal_vp, book) ==
  MinOf(book.supply - (PRECISION * new_xcp) \div goal_vp, Spendable(book))

PriceBeforeBurn(new_xcp, supply, burn) ==          (* Mutant: burn ignored  *)
  (PRECISION * new_xcp) \div supply

PriceAfterBurn(new_xcp, supply, burn) ==
  (PRECISION * new_xcp) \div (supply - burn)

(* The two ways out of tweak_price: the scale stays, or it moves.  Each    *)
(* throws on unbalanced xp.                                                *)
Keep(xp, D_, book, vp) ==
  IF assert_balance(xp)
    THEN {[D |-> D_, vp |-> vp, scale |-> cached_price_scale, book |-> book]}
    ELSE {}

Move(xp, D_, book, vp) ==
  LET xp_new == [xp EXCEPT ![2] = (xp[2] * p_new) \div cached_price_scale]
      goal_vp == MaxOf(lp_xcp_profit', vp)
      Outcome(new_D, new_xcp) ==
        LET short == VirtualPrice(new_xcp, book.supply) < goal_vp
            burn == IF short THEN BurnFor(new_xcp, goal_vp, book) ELSE 0
            new_vp == PriceAfterBurn(new_xcp, book.supply, burn)
        IN  IF short /\ (PRECISION * new_xcp) \div goal_vp >= book.supply
              THEN {}
            ELSE IF ~lp_gate_passed(new_vp) THEN Keep(xp, D_, book, vp)
            ELSE IF assert_balance(xp_new)
              THEN {[D |-> new_D, vp |-> new_vp, scale |-> p_new,
                     book |-> Burned(book, burn)]}
              ELSE {}
  IN  UNION {UNION {Outcome(new_D, new_xcp) : new_xcp \in xcp(new_D, p_new)}
               : new_D \in newton_D(xp_new)}

Settlements(xp, D_, x, book, vp) ==
  IF Rebalances(x, book, vp) THEN Move(xp, D_, book, vp)
                             ELSE Keep(xp, D_, book, vp)

Commit(s) ==
  /\ D' = s.D
  /\ virtual_price' = s.vp
  /\ cached_price_scale' = s.scale
  /\ totalSupply' = s.book.supply
  /\ donation_shares' = s.book.shares
  /\ last_donation_release_ts' = s.book.release

tweak_price(xp, D_, book, vp_preop) ==
  /\ UpdateOracle
  /\ \E p \in get_p(xp, D_) :
       last_prices' = (p * cached_price_scale) \div PRECISION
  /\ \E x \in xcp(D_, cached_price_scale) :
       LET vp == VirtualPrice(x, book.supply)
       IN  /\ vp >= vp_preop
           /\ vp >= virtual_price
           /\ AccrueProfit(vp)
           /\ \E s \in Settlements(xp, D_, x, book, vp) : Commit(s)

-----------------------------------------------------------------------------
(* The calls.                                                              *)

LiveVirtualPrices == {VirtualPrice(x, totalSupply) :
                        x \in xcp(D, cached_price_scale)}

Init ==
  /\ balances = None /\ admin_balances = None
  /\ D = 0 /\ totalSupply = 0
  /\ cached_price_scale = initial_price
  /\ cached_price_oracle = initial_price
  /\ last_prices = initial_price
  /\ xcp_profit = PRECISION
  /\ lp_xcp_profit = PRECISION
  /\ virtual_price = PRECISION
  /\ block_timestamp = StartTime /\ last_timestamp = StartTime
  /\ last_admin_fee_claim_timestamp = 0
  /\ donation_shares = 0 /\ last_donation_release_ts = 0
  /\ donation_protection_expiry_ts = 0
  /\ donation_protection_extension_remainder = 0
  /\ vault = None /\ issued = 0

(* add_liquidity on an empty pool.  MINIMUM_LIQUIDITY is minted to nobody. *)
InitialDeposit(amounts, min_mint) ==
  /\ D = 0
  /\ amounts[1] + amounts[2] > 0
  /\ LET deposited == Plus(balances, amounts)
     IN  /\ balances' = deposited
         /\ \E D_new \in newton_D(XP(deposited, cached_price_scale)) :
              /\ D' = D_new
              /\ \E d_token \in xcp(D_new, cached_price_scale) :
                   /\ d_token > MINIMUM_LIQUIDITY
                   /\ d_token - MINIMUM_LIQUIDITY >= min_mint
                   /\ totalSupply' = totalSupply + d_token
                   /\ issued' = issued + d_token - MINIMUM_LIQUIDITY
  /\ xcp_profit' = PRECISION
  /\ lp_xcp_profit' = PRECISION
  /\ virtual_price' = PRECISION
  /\ vault' = Plus(vault, amounts)
  /\ UNCHANGED <<priceVars, adminVars, block_timestamp, donationVars,
                 protectionVars>>

(* The LP tokens an invariant of D_new is worth, before fees.  A deposit   *)
(* that lowers D wraps here; its call ends in "virtual price decreased".   *)
MintedFor(D_new) == (totalSupply * D_new) \div D - totalSupply

RawExtension(minted) ==
  ((minted * PRECISION) \div (totalSupply + minted))
      * donation_protection_period
    + donation_protection_extension_remainder

ProtectFromNow(minted) ==                          (* Mutant: expiry reset  *)
  IF donation_shares > 0
    THEN /\ donation_protection_expiry_ts' = block_timestamp +
              RawExtension(minted) \div donation_protection_lp_threshold
         /\ UNCHANGED donation_protection_extension_remainder
    ELSE UNCHANGED protectionVars

KeepRemainder(minted) ==                           (* Mutant: no modulo     *)
  IF donation_shares > 0
    THEN /\ UNCHANGED donation_protection_expiry_ts
         /\ donation_protection_extension_remainder' = RawExtension(minted)
    ELSE UNCHANGED protectionVars

(* A deposit while shares are donated prolongs their protection by whole   *)
(* seconds, and carries the fraction of a second in the remainder.         *)
ExtendProtection(minted) ==
  LET raw == RawExtension(minted)
      latest == block_timestamp + donation_protection_period
      expiry == MaxOf(donation_protection_expiry_ts, block_timestamp)
                  + raw \div donation_protection_lp_threshold
  IN  IF donation_shares > 0
           /\ (minted * PRECISION) \div (totalSupply + minted) > 0
        THEN /\ donation_protection_expiry_ts' = MinOf(expiry, latest)
             /\ donation_protection_extension_remainder' =
                  IF expiry >= latest
                    THEN 0 ELSE raw % donation_protection_lp_threshold
        ELSE UNCHANGED protectionVars

AddLiquidity(amounts, min_mint) ==
  LET deposited == Plus(balances, amounts)
      xp == XP(deposited, cached_price_scale)
  IN  /\ D > 0
      /\ amounts[1] + amounts[2] > 0
      /\ \E D_new \in newton_D(xp),
            rate \in calc_token_fee(amounts, xp, balances, TRUE) :
           LET d_token == MintedFor(D_new)
               d_token_fee == LpFee(rate, d_token)
               minted == d_token - d_token_fee
               cut == AdminCut(deposited, d_token_fee, totalSupply + d_token)
               kept == Retained(balances, amounts, None, cut)
               xp_kept == XP(kept, cached_price_scale)
           IN  /\ d_token > 0
               /\ minted >= min_mint
               /\ balances' = kept
               /\ admin_balances' = Plus(admin_balances, cut)
               /\ issued' = issued + minted
               /\ ExtendProtection(minted)
               /\ \E D_kept \in newton_D(xp_kept), vp \in LiveVirtualPrices :
                    tweak_price(xp_kept, D_kept,
                                Book(totalSupply + minted, donation_shares,
                                     last_donation_release_ts),
                                vp)
      /\ vault' = Plus(vault, amounts)
      /\ UNCHANGED <<last_admin_fee_claim_timestamp, block_timestamp>>

DonatedBookReleasing(minted) ==                    (* Mutant: clock kept    *)
  Book(totalSupply + minted, donation_shares + minted, last_donation_release_ts)

DonatedBookUncounted(minted) ==                    (* Mutant: to the caller *)
  Book(totalSupply + minted, donation_shares, last_donation_release_ts)

(* The ledger after a donation: what was unlocked stays unlocked.          *)
DonatedBook(minted) ==
  Book(totalSupply + minted, donation_shares + minted,
       ReleaseFor(UnlockedShares(donation_shares, last_donation_release_ts),
                  donation_shares + minted))

DonationBelowCapAlone(minted) ==                   (* Mutant: of the old    *)
  (donation_shares * PRECISION) \div totalSupply <= donation_shares_max_ratio

DonationBelowCap(minted) ==
  ((donation_shares + minted) * PRECISION) \div (totalSupply + minted)
    <= donation_shares_max_ratio

(* add_liquidity with donation: the pool itself owns the minted shares.    *)
Donate(amounts, min_mint) ==
  LET deposited == Plus(balances, amounts)
      xp == XP(deposited, cached_price_scale)
  IN  /\ D > 0
      /\ amounts[1] + amounts[2] > 0
      /\ UNCHANGED protectionVars
      /\ \E D_new \in newton_D(xp), vp \in LiveVirtualPrices :
           LET d_token == MintedFor(D_new)
               minted == d_token - LpFee(NOISE_FEE, d_token)
           IN  /\ d_token > 0
               /\ DonationBelowCap(minted)
               /\ minted >= min_mint
               /\ tweak_price(xp, D_new, DonatedBook(minted), vp)
      /\ balances' = deposited
      /\ vault' = Plus(vault, amounts)
      /\ UNCHANGED <<adminVars, block_timestamp, issued>>

(* The part of x that `amount` of the supply stands for, rounded down.     *)
ProRataUp(x, amount) ==                            (* Mutant: rounded up    *)
  (x * amount + totalSupply - 1) \div totalSupply

ProRataOfTheRest(x, amount) ==                     (* Mutant: new supply   *)
  (x * amount) \div (totalSupply - amount)

ProRata(x, amount) == (x * amount) \div totalSupply

(* remove_liquidity: the safe exit, without fees or tweak_price.           *)
RemoveLiquidity(amount, min_amount) ==
  LET withdrawn == <<ProRata(balances[1], amount), ProRata(balances[2], amount)>>
  IN  /\ totalSupply > 0
      /\ amount <= single_caller_lp_balance
      /\ \A i \in Coin : withdrawn[i] >= min_amount
      /\ totalSupply' = totalSupply - amount
      /\ D' = D - ProRata(D, amount)
      /\ balances' = Minus(balances, withdrawn)
      /\ vault' = Minus(vault, withdrawn)
      /\ issued' = issued - amount
      /\ UNCHANGED <<priceVars, profitVars, adminVars, block_timestamp,
                     donationVars, protectionVars>>

(* _claim_admin_fees, the first thing a fixed-out withdrawal does.         *)
ClaimDue ==
  /\ block_timestamp >= last_admin_fee_claim_timestamp
                          + MIN_ADMIN_FEE_CLAIM_INTERVAL
  /\ admin_balances # None

Claimed == IF ClaimDue THEN admin_balances ELSE None

(* What one unit of a scaled balance is worth in the coin.                 *)
CoinScale(i) == IF i = 1 THEN PRECISION * precisions[1]
                         ELSE cached_price_scale * precisions[2]

(* The first pass of a fixed-out withdrawal: the amounts and balances that *)
(* the burn of dD would give without a fee.                                *)
PreliminaryExits(dD, i, amount_i) ==
  LET j == Other(i)
      xp == XP(balances, cached_price_scale)
      taken == (amount_i * CoinScale(i) + PRECISION - 1) \div PRECISION
      xp_i == [xp EXCEPT ![i] = xp[i] - taken]
      Received(y) ==
        IF i = 1
          THEN (((xp[2] - y) * PRECISION) \div precisions[2])
                 \div cached_price_scale
          ELSE (xp[1] - y) \div precisions[1]
      Exit(y) == [xp |-> [xp_i EXCEPT ![j] = y],
                  amounts |-> Plus(Only(i, amount_i), Only(j, Received(y)))]
  IN  IF xp[i] < taken THEN {}
      ELSE {Exit(y + 1) : y \in {z \in get_y(xp_i, D - dD, j) : z < xp[j]}}

(* remove_liquidity_fixed_out: burn token_amount, take amount_i of coin i  *)
(* and what is left of the burn in the other coin.                         *)
RemoveLiquidityFixedOut(token_amount, i, amount_i, min_amount_j) ==
  LET j == Other(i)
      xp == XP(balances, cached_price_scale)
      dD == (token_amount * D) \div totalSupply
  IN  /\ totalSupply > 0
      /\ token_amount <= single_caller_lp_balance
      /\ UNCHANGED <<protectionVars, block_timestamp>>
      /\ issued' = issued - token_amount
      /\ last_admin_fee_claim_timestamp' =
           IF ClaimDue THEN block_timestamp ELSE last_admin_fee_claim_timestamp
      /\ \E exit \in PreliminaryExits(dD, i, amount_i) :
           /\ exit.amounts[1] + exit.amounts[2] > 0
           /\ \A k \in Coin : exit.amounts[k] <= balances[k]
           /\ \E rate \in calc_token_fee(exit.amounts, exit.xp,
                              Minus(balances, exit.amounts), FALSE) :
                LET dD_fee == (dD * rate) \div FEE_PRECISION + 1
                    D_new == D - (dD - dD_fee)
                    d_token_fee == LpFee(rate, token_amount)
                IN  /\ dD >= dD_fee
                    /\ \E y \in get_y(exit.xp, D_new, j) :
                         LET dy == ((xp[j] - (y + 1)) * PRECISION)
                                     \div CoinScale(j)
                             paid == Plus(Only(i, amount_i), Only(j, dy))
                             cut == AdminCut(Minus(balances, paid), d_token_fee,
                                      totalSupply - token_amount + d_token_fee)
                             kept == Retained(balances, None, paid, cut)
                             xp_kept == IF ChargesAdmin
                               THEN XP(kept, cached_price_scale)
                               ELSE [exit.xp EXCEPT ![j] = y + 1]
                         IN  /\ y < xp[j]
                             /\ dy >= min_amount_j
                             /\ \A k \in Coin : paid[k] <= balances[k]
                             /\ balances' = kept
                             /\ admin_balances' =
                                  Plus(Minus(admin_balances, Claimed), cut)
                             /\ vault' = Minus(Minus(vault, paid), Claimed)
                             /\ \E D_kept \in
                                     IF ChargesAdmin THEN newton_D(xp_kept)
                                                     ELSE {D_new},
                                   vp \in LiveVirtualPrices :
                                  tweak_price(xp_kept, D_kept,
                                    Book(totalSupply - token_amount,
                                         donation_shares,
                                         last_donation_release_ts),
                                    vp)

GrossOutputWhole(xp, y, j) ==                 (* Mutant: nothing kept back *)
  LET dy == xp[j] - y
  IN  (IF j = 1 THEN dy ELSE (dy * PRECISION) \div cached_price_scale)
        \div precisions[j]

(* What an exchange pays before its fee, from y scaled balance left in j.  *)
GrossOutput(xp, y, j) ==
  LET dy == xp[j] - y - 1
  IN  (IF j = 1 THEN dy ELSE (dy * PRECISION) \div cached_price_scale)
        \div precisions[j]

Exchange(i, dx, min_dy) ==
  LET j == Other(i)
      xp == XP(Plus(balances, Only(i, dx)), cached_price_scale)
  IN  /\ dx > 0
      /\ UNCHANGED protectionVars
      /\ \E y \in get_y(xp, D, j) :
           /\ y < xp[j]
           /\ \E rate \in fee([xp EXCEPT ![j] = y]) :
                LET gross == GrossOutput(xp, y, j)
                    charged == (rate * gross) \div FEE_PRECISION
                    dy == gross - charged
                    cut == Only(j, (charged * reserved_profit_fraction
                                      * admin_fee)
                                     \div (FEE_PRECISION * FEE_PRECISION))
                    kept == Retained(balances, Only(i, dx), Only(j, dy), cut)
                    xp_kept == XP(kept, cached_price_scale)
                IN  /\ dy >= min_dy
                    /\ balances' = kept
                    /\ admin_balances' = Plus(admin_balances, cut)
                    /\ vault' = Minus(Plus(vault, Only(i, dx)), Only(j, dy))
                    /\ \E D_new \in newton_D(xp_kept),
                          vp \in IF totalSupply > 0 THEN LiveVirtualPrices
                                                    ELSE {virtual_price} :
                         tweak_price(xp_kept, D_new,
                           Book(totalSupply, donation_shares,
                                last_donation_release_ts), vp)
      /\ UNCHANGED <<last_admin_fee_claim_timestamp, block_timestamp, issued>>

(* tick: refresh the oracle, and perhaps the scale, without a trade.       *)
CurrentXP == XP(balances, cached_price_scale)
CurrentBook == Book(totalSupply, donation_shares, last_donation_release_ts)

Tick ==
  /\ UNCHANGED protectionVars
  /\ \E vp \in LiveVirtualPrices :
       tweak_price(CurrentXP, D, CurrentBook, vp)
  /\ UNCHANGED <<balances, adminVars, block_timestamp, historyVars>>

(* A tick that throws keeps what tweak_price wrote before the throw, which  *)
(* comes from get_p, a fallen virtual price or the end of tweak_price.     *)
TickThrows ==
  /\ UNCHANGED protectionVars
  /\ UpdateOracle
  /\ LET prices == get_p(CurrentXP, D)
     IN  /\ last_prices' \in
              IF prices = {} THEN {last_prices}
              ELSE {(p * cached_price_scale) \div PRECISION : p \in prices}
         /\ \E vp \in LiveVirtualPrices, x \in xcp(D, cached_price_scale) :
              IF prices = {} \/ vp < virtual_price
                THEN UNCHANGED <<xcp_profit, lp_xcp_profit>>
                ELSE /\ AccrueProfit(vp)
                     /\ Settlements(CurrentXP, D, x, CurrentBook, vp) = {}
  /\ UNCHANGED <<balances, D, totalSupply, cached_price_scale, virtual_price,
                 adminVars, block_timestamp, donationVars, historyVars>>

(* The clock of an empty pool drags the oracle's clock along.              *)
SetBlockTimestamp(ts) ==
  /\ block_timestamp' = ts
  /\ last_timestamp' = IF D = 0 /\ totalSupply = 0 THEN ts ELSE last_timestamp
  /\ UNCHANGED <<balances, D, totalSupply, cached_price_scale,
                 cached_price_oracle, last_prices, profitVars, adminVars,
                 donationVars, protectionVars, historyVars>>

AdvanceTime(s) == SetBlockTimestamp(block_timestamp + s)

-----------------------------------------------------------------------------
(* The harness restores the pool after any exception: its calls are steps  *)
(* only when they succeed.  RawNext is the pool without that net.          *)
Next ==
  \/ \E amounts \in Seeds, min \in Minimums : InitialDeposit(amounts, min)
  \/ \E amounts \in Deposits, min \in Minimums : AddLiquidity(amounts, min)
  \/ \E amounts \in Donations, min \in Minimums : Donate(amounts, min)
  \/ \E amount \in Burns, min \in Minimums : RemoveLiquidity(amount, min)
  \/ \E burn \in FixedOuts, i \in Coin, min \in Minimums :
       RemoveLiquidityFixedOut(burn[1], i, burn[2], min)
  \/ \E i \in Coin, dx \in Trades, min \in Minimums : Exchange(i, dx, min)
  \/ Tick
  \/ \E s \in Seconds : AdvanceTime(s)
  \/ \E ts \in Timestamps : SetBlockTimestamp(ts)

Spec == Init /\ [][Next]_vars

RawNext == Next \/ TickThrows

RawSpec == Init /\ [][RawNext]_vars

-----------------------------------------------------------------------------
(* Properties.                                                             *)

TypeOK ==
  /\ balances \in PairsOfNat /\ admin_balances \in PairsOfNat
  /\ vault \in PairsOfNat
  /\ D \in Nat /\ totalSupply \in Nat /\ issued \in Nat
  /\ cached_price_scale \in Nat /\ cached_price_oracle \in Nat
  /\ last_prices \in Nat
  /\ last_timestamp \in Nat /\ block_timestamp \in Nat
  /\ last_admin_fee_claim_timestamp \in Nat
  /\ xcp_profit \in Nat /\ lp_xcp_profit \in Nat /\ virtual_price \in Nat
  /\ donation_shares \in Nat /\ last_donation_release_ts \in Nat
  /\ donation_protection_expiry_ts \in Nat
  /\ donation_protection_extension_remainder
       \in 0 .. donation_protection_lp_threshold - 1

(* The pool keeps no balance of its caller: single_caller_lp_balance       *)
(* derives it from the supply.  Through every mint, fee, donation and burn *)
(* of donated shares that is exactly what the caller was given and has not *)
(* returned, and MINIMUM_LIQUIDITY stays out of everyone's reach.          *)
SharesAccounted ==
  totalSupply = IF D = 0 THEN 0
                ELSE issued + donation_shares + MINIMUM_LIQUIDITY

(* Tokens are conserved: what came in and was not paid out is in balances  *)
(* or set aside for the admin, whatever was cut, claimed or rounded.       *)
Custody == vault = Plus(balances, admin_balances)

(* The profit reserved for the LPs never falls below one, never exceeds    *)
(* the profit it is a share of, and is always covered by virtual_price: no *)
(* rebalance has spent it.                                                 *)
LPProfitProtected ==
  /\ PRECISION <= lp_xcp_profit
  /\ lp_xcp_profit <= xcp_profit
  /\ lp_xcp_profit <= virtual_price

(* The tests "D > 0" and "totalSupply > 0" of the code agree, and a pool   *)
(* once seeded is never drained into being seeded again.                   *)
NeverDrained ==
  [][/\ D' = 0 <=> totalSupply' = 0
     /\ D > 0 => /\ D' > 0
                 /\ totalSupply' >= MINIMUM_LIQUIDITY
                 /\ balances'[1] > 0 /\ balances'[2] > 0]_vars

(* No call that leaves the scale alone makes a share of a seeded pool      *)
(* worth less: rounding, fees and exits favour those who stay.             *)
SharesNeverDiluted ==
  [][totalSupply > 0 /\ cached_price_scale' = cached_price_scale
       => \/ D' * totalSupply >= D * totalSupply'
          \/ \A before \in LiveVirtualPrices, after \in LiveVirtualPrices' :
               after >= before]_vars

(* Whenever a call writes virtual_price, D grows or the scale moves, the   *)
(* cached price agrees with D, the supply and the scale written with it,   *)
(* though tweak_price computes it from locals before the burn is booked.   *)
VirtualPriceIsLive ==
  [][D' > D \/ virtual_price' # virtual_price
       \/ cached_price_scale' # cached_price_scale
       => LiveVirtualPrices' = {virtual_price'}]_vars

(* A rebalance goes towards the oracle, at most a fifth of the way.        *)
ScaleMovesTowardsOracle ==
  [][LET moved == Distance(cached_price_scale', cached_price_scale)
         away == Distance(cached_price_oracle', cached_price_scale)
     IN  moved > 0 =>
           /\ cached_price_scale' > cached_price_scale
                <=> cached_price_oracle' > cached_price_scale
           /\ 5 * (moved - 1) <= away]_vars

(* Each rebalance moves the oracle's clock forward, which never goes back  *)
(* on a seeded pool: no two rebalances share a timestamp, even when the    *)
(* caller sets the clock back between them.                                *)
RebalanceAdvancesOracleClock ==
  [][/\ totalSupply > 0 => last_timestamp' >= last_timestamp
     /\ cached_price_scale' # cached_price_scale
          => /\ last_timestamp' > last_timestamp
             /\ last_timestamp' = block_timestamp]_vars

(* Donated shares are spent by a rebalance only, and only those that the   *)
(* release schedule and the protection left by this very call make         *)
(* available.                                                              *)
BurnsOnlyAvailable ==
  [][donation_shares' < donation_shares
       => /\ cached_price_scale' # cached_price_scale
          /\ donation_shares - donation_shares'
               <= AvailableShares(donation_shares, last_donation_release_ts,
                                  donation_protection_expiry_ts')]_vars

(* A tick, the one call that burns though no token or LP token of anyone   *)
(* else moves, burns no share more than brings the price back to its goal. *)
SpendsNoMoreThanNeeded ==
  [][donation_shares' < donation_shares /\ UNCHANGED historyVars
       => \A vp \in LiveVirtualPrices, x \in xcp(D', cached_price_scale') :
            PRECISION * x < (totalSupply' + 1) * MaxOf(lp_xcp_profit', vp)]_vars

(* Only the clock unlocks donated shares.  A donation keeps what was       *)
(* unlocked, up to rounding down, by moving the release time; a burn takes *)
(* at least what it burns out of the unlocked part.                        *)
UnlockNeverGrows ==
  [][block_timestamp' = block_timestamp
       => UnlockedShares(donation_shares', last_donation_release_ts')
            + MaxOf(donation_shares - donation_shares', 0)
          <= UnlockedShares(donation_shares, last_donation_release_ts)]_vars

(* While the clock runs forward the protection a deposit started is never  *)
(* cut short by a later one, though the code recomputes and caps it.       *)
ProtectionNeverShortens ==
  [][donation_protection_expiry_ts' >= donation_protection_expiry_ts]_vars

(* While clocks are only advanced, no elapsed time wraps: nothing a pool   *)
(* remembers lies ahead of its clock (_donation_shares, _claim_admin_fees  *)
(* and the oracle subtract these times from it), nor does it when a run    *)
(* starts from an export (the source_timestamp checks, in Checkpoint).     *)
NothingAheadOfTheClock ==
  /\ last_timestamp <= block_timestamp
  /\ last_donation_release_ts <= block_timestamp
  /\ last_admin_fee_claim_timestamp <= block_timestamp
  /\ donation_protection_expiry_ts
       <= block_timestamp + donation_protection_period

(* Floored exits may leave the live virtual price behind the cached one,   *)
(* and then every trade throws.  The pool is never more than one unit of   *)
(* xcp short, however many exits, burns and rebalances came before.        *)
ShortByOneUnitAtMost ==
  \A x \in xcp(D, cached_price_scale) :
    D > 0 => virtual_price * totalSupply < PRECISION * (x + 1)

(* The cap on donated shares is checked by donations only.  Their ratio    *)
(* exceeds it, or rises further above it, only when the caller withdraws:  *)
(* no fee, burn or donation gets past the check.                           *)
DonatedRatio == (donation_shares * PRECISION) \div totalSupply

CapExceededByExitsOnly ==
  [][totalSupply > 0 /\ DonatedRatio' > MaxOf(DonatedRatio, donation_shares_max_ratio)
       => single_caller_lp_balance' < single_caller_lp_balance]_vars

(* gross of the other coin could leave for dx of coin i, and the pool would *)
(* still stand strictly above the curve of the D and the scale it had; the *)
(* trader takes no more than gross less the least fee on it, and the pool  *)
(* parts with no more than gross.                                          *)
TradesWithinTheCurve(i, dx, gross) ==
  LET j == Other(i)
      left == XP(Minus(Plus(balances, Only(i, dx)), Only(j, gross)),
                 cached_price_scale)
  IN  /\ vault[j] - vault'[j]
           <= gross - (fee_lower_bound * gross) \div FEE_PRECISION
      /\ balances'[j] >= balances[j] - gross
      /\ OffRoot(left[i], D, left[j]) > 0

(* What a fixed-out exit leaves in the pool, the admin's cut included, is  *)
(* strictly above the curve of a D that is more than what the remaining    *)
(* shares had of it.                                                       *)
LeftByExit == XP(Minus(vault', Minus(admin_balances, Claimed)), cached_price_scale)

ExitsWithinTheCurve(token_amount, i) ==
  \E d \in D - (token_amount * D) \div totalSupply + 1 .. D :
    OffRoot(LeftByExit[i], d, LeftByExit[Other(i)]) > 0

(* No payment crosses the curve: after the roundings of the scaled         *)
(* balances, of get_y and of the output, a trader has paid his whole fee   *)
(* above the curve he found, whatever the policy asked for and the admin   *)
(* is due, and who exits in coins of his choice takes nothing of those who *)
(* stay.                                                                   *)
CurveIsNeverCrossed ==
  [][/\ \A i \in Coin, dx \in Trades, min \in Minimums :
          Exchange(i, dx, min)
            => \E gross \in 0 .. balances[Other(i)] :
                 TradesWithinTheCurve(i, dx, gross)
     /\ \A burn \in FixedOuts, i \in Coin, min \in Minimums :
          RemoveLiquidityFixedOut(burn[1], i, burn[2], min)
            => ExitsWithinTheCurve(burn[1], i)]_vars

(* What the calls do to the holders, in the terms of LpLedger.  The        *)
(* caller's shares and the dead ones are those the code derives.           *)
Ledger == INSTANCE LpLedger WITH
  tokens <- Plus(balances, admin_balances),
  shares <- single_caller_lp_balance,
  donated <- donation_shares,
  dead <- totalSupply - donation_shares - single_caller_lp_balance,
  scale <- cached_price_scale,
  price <- virtual_price,
  floor <- lp_xcp_profit

(* Every call is one of the moves of the ledger: deposits, donations,      *)
(* withdrawals, trades and rebalances take from no holder what the ledger  *)
(* does not let them take, though the pool stores no account of anyone.    *)
HonoursLedger == Ledger!Spec

(* tweak_price is said to check the balance before it commits anything: a  *)
(* tick that fails the check would leave the pool as it was.               *)
CheckedBeforeCommit ==
  [][TickThrows /\ ~assert_balance(CurrentXP) => UNCHANGED vars]_vars

(* A burn is said to lower the available shares by exactly the burn.       *)
DropsByExactlyTheBurn ==
  [][donation_shares' < donation_shares /\ balances' = balances
       => LET expiry == donation_protection_expiry_ts'
          IN  AvailableShares(donation_shares', last_donation_release_ts',
                              expiry)
              = AvailableShares(donation_shares, last_donation_release_ts,
                                expiry)
                - (donation_shares - donation_shares')]_vars

(* fee_gamma = 0 is said to yield out_fee, at every balance of the pool.   *)
GammaZeroYieldsOutFee ==
  fee_gamma = 0 /\ D > 0 => native_fee(CurrentXP) = {out_fee}
=============================================================================
