--------------------------- MODULE TwocryptoProofs ---------------------------
(***************************************************************************)
(* The properties of Twocrypto, of its views and of a pool that is resumed *)
(* from an export, proved for all amounts, prices, fees and schedules that *)
(* meet the assumptions.                                                   *)
(***************************************************************************)
EXTENDS TwocryptoLemmas, TwocryptoViews, Checkpoint

(* The inductive invariant.  An empty pool holds and owes nothing, so only *)
(* a first deposit gets it going; the scale is never zero, so no call      *)
(* divides by it; a seeded pool has some of either coin, whatever was paid *)
(* out; the clock is past one donation_duration, so no release time is     *)
(* negative.                                                               *)
(*                                                                         *)
(* The profit reserved for LPs is its own part: ProfitCovered, that it is  *)
(* paid for, is kept by every call that succeeds, but not by a tick that   *)
(* throws and is not undone, and Inv is to hold of such pools too.         *)
ProfitReserved ==
  /\ PRECISION <= lp_xcp_profit /\ lp_xcp_profit <= xcp_profit
  /\ PRECISION <= virtual_price

ProfitCovered == lp_xcp_profit <= virtual_price

Inv ==
  /\ TypeOK
  /\ SharesAccounted
  /\ ProfitReserved
  /\ Custody
  /\ D = 0 => balances = None /\ issued = 0 /\ donation_shares = 0
  /\ D > 0 => balances[1] > 0 /\ balances[2] > 0
  /\ cached_price_scale > 0
  /\ block_timestamp >= donation_duration

-----------------------------------------------------------------------------
(* One more share would leave the price below the goal of the burn.        *)
BurnIsNeeded(D_, book) ==
  \A before \in xcp(D_, cached_price_scale), x \in xcp(D', cached_price_scale') :
    PRECISION * x < (totalSupply' + 1)
                      * MaxOf(lp_xcp_profit', VirtualPrice(before, book.supply))

(* What a successful tweak_price writes, given the ledger of its caller.   *)
SoundTweak(D_, book, vp_preop) ==
  /\ UpdateOracle
  /\ cached_price_oracle' \in Nat /\ last_prices' \in Nat
  /\ last_timestamp' \in Nat /\ last_timestamp' >= last_timestamp
  /\ xcp_profit' \in Nat /\ lp_xcp_profit' \in Nat /\ virtual_price' \in Nat
  /\ ProfitReserved' /\ lp_xcp_profit' >= lp_xcp_profit
  /\ ProfitCovered \/ cached_price_scale' # cached_price_scale => ProfitCovered'
  /\ D' \in Nat \ {0} /\ cached_price_scale' \in Nat \ {0}
  /\ last_donation_release_ts' \in Nat
  /\ \/ last_donation_release_ts' = book.release
     \/ last_donation_release_ts' <= block_timestamp
  /\ LiveVirtualPrices' = {virtual_price'}
  /\ \E x \in Nat : /\ xcp(D', cached_price_scale') = {x}
                    /\ virtual_price' = VirtualPrice(x, totalSupply')
  /\ \E burn \in 0 .. Spendable(book) :
       /\ totalSupply' = book.supply - burn
       /\ donation_shares' = book.shares - burn
       /\ UnlockedShares(donation_shares', last_donation_release_ts') + burn
            <= UnlockedShares(book.shares, book.release)
       /\ burn > 0 =>
            /\ cached_price_scale' # cached_price_scale
            /\ BurnIsNeeded(D_, book)
  /\ \/ /\ cached_price_scale' = cached_price_scale
        /\ D' = D_ /\ virtual_price' >= vp_preop
        /\ virtual_price' >= virtual_price
     \/ /\ cached_price_scale' = p_new /\ p_new # cached_price_scale
        /\ last_timestamp' = block_timestamp
        /\ last_timestamp' > last_timestamp

LEMMA TweakPriceSound ==
  ASSUME Inv, donation_protection_expiry_ts' \in Nat,
         NEW xp, NEW D_ \in Nat, NEW book, SoundBook(book), NEW vp_preop,
         tweak_price(xp, D_, book, vp_preop)
  PROVE  SoundTweak(D_, book, vp_preop)
<1>1. /\ cached_price_oracle' \in Nat /\ last_timestamp' \in Nat
      /\ last_timestamp' >= last_timestamp
      /\ last_timestamp < block_timestamp => last_timestamp' = block_timestamp
  BY EmaNat DEF tweak_price, UpdateOracle, Inv, TypeOK
<1>2. last_prices' \in Nat
  <2>1. PICK p \in get_p(xp, D_) :
          last_prices' = (p * cached_price_scale) \div PRECISION
    BY DEF tweak_price
  <2>2. p \in Nat /\ cached_price_scale \in Nat
    BY GetPNat DEF Inv, TypeOK
  <2> QED BY <2>1, <2>2, MulNat, DivNat, PrecisionAssumption
<1> DEFINE vpOf(x) == VirtualPrice(x, book.supply)
<1>3. PICK x \in xcp(D_, cached_price_scale) :
        /\ vpOf(x) >= vp_preop /\ vpOf(x) >= virtual_price
        /\ AccrueProfit(vpOf(x))
        /\ \E s \in Settlements(xp, D_, x, book, vpOf(x)) : Commit(s)
  BY DEF tweak_price
<1> DEFINE vp == vpOf(x)
<1>4. vp \in Nat
  <2>1. book.supply \in Nat /\ x \in Nat /\ PRECISION * x \in Nat
    BY XcpNat, MulNat, PrecisionAssumption DEF SoundBook
  <2> QED BY <2>1, DivNat, PrecisionAssumption DEF VirtualPrice
<1>5. PICK s \in Settlements(xp, D_, x, book, vp) : Commit(s)
  BY <1>3
<1>6. vp >= vp_preop /\ vp >= virtual_price /\ AccrueProfit(vp) /\ vp = VirtualPrice(x, book.supply)
  BY <1>3
<1> HIDE DEF vp
<1>7. /\ xcp_profit' \in Nat /\ lp_xcp_profit' \in Nat
      /\ PRECISION <= lp_xcp_profit' /\ lp_xcp_profit' <= xcp_profit'
      /\ ProfitCovered => lp_xcp_profit' <= vp
      /\ lp_xcp_profit' >= lp_xcp_profit /\ PRECISION <= vp
  BY <1>4, <1>6, AccrualProtects, PrecisionAssumption
     DEF AccrueProfit, Inv, TypeOK, ProfitReserved, ProfitCovered
<1>8. SoundSettlement(D_, book, vp, s)
  <2>1. /\ block_timestamp \in Nat /\ block_timestamp >= donation_duration
        /\ cached_price_scale \in Nat \ {0}
    BY DEF Inv, TypeOK
  <2> QED BY <2>1, <1>1, <1>5, <1>6, <1>7, SettlementsSound
<1>9. /\ D' = s.D /\ virtual_price' = s.vp /\ cached_price_scale' = s.scale
      /\ totalSupply' = s.book.supply /\ donation_shares' = s.book.shares
      /\ last_donation_release_ts' = s.book.release
  BY <1>5 DEF Commit
<1>live. PICK y \in Nat :
           /\ xcp(D', cached_price_scale') = {y}
           /\ virtual_price' = VirtualPrice(y, totalSupply')
           /\ totalSupply' < book.supply
                => PRECISION * y < (totalSupply' + 1) * MaxOf(lp_xcp_profit', vp)
  BY <1>8, <1>9 DEF SoundSettlement
<1>10. LiveVirtualPrices' = {virtual_price'}
  <2>2. xcp(D', cached_price_scale') = {y}
        /\ virtual_price' = VirtualPrice(y, totalSupply')
    BY <1>live
  <2>3. LiveVirtualPrices' = {VirtualPrice(z, totalSupply') :
                                z \in xcp(D', cached_price_scale')}
    BY DEF LiveVirtualPrices
  <2> QED BY <2>2, <2>3
<1>11. PICK burn \in 0 .. Spendable(book) : s.book = Burned(book, burn)
  BY <1>8 DEF SoundSettlement
<1>12. /\ totalSupply' = book.supply - burn
       /\ donation_shares' = book.shares - burn
       /\ last_donation_release_ts' \in Nat
       /\ \/ last_donation_release_ts' = book.release
          \/ last_donation_release_ts' <= block_timestamp
       /\ UnlockedShares(donation_shares', last_donation_release_ts') + burn
            <= UnlockedShares(book.shares, book.release)
  BY <1>9, <1>11, BurnedSound DEF Inv, TypeOK, SoundBook
<1>13. \/ /\ cached_price_scale' = cached_price_scale
          /\ D' = D_ /\ s.book = book /\ virtual_price' = vp
       \/ /\ cached_price_scale' = p_new /\ p_new # cached_price_scale
          /\ last_timestamp < block_timestamp
  BY <1>8, <1>9 DEF SoundSettlement
<1>needed. ASSUME burn > 0 PROVE BurnIsNeeded(D_, book)
  <2>1. book.supply \in Nat /\ burn \in Nat
    BY SpendableBounded DEF Inv, TypeOK, SoundBook
  <2>2. totalSupply' < book.supply
    BY <1>12, <1>needed, <2>1
  <2>3. xcp(D_, cached_price_scale) = {x}
    BY XcpNat
  <2> QED BY <1>6, <1>live, <2>2, <2>3 DEF BurnIsNeeded
<1>14. burn > 0 => cached_price_scale' # cached_price_scale
  <2> SUFFICES ASSUME cached_price_scale' = cached_price_scale, burn > 0
               PROVE  FALSE
    OBVIOUS
  <2>1. s.book = book
    BY <1>13
  <2>2. book.supply = book.supply - burn
    BY <2>1, <1>9, <1>12
  <2>3. Spendable(book) \in Int /\ book.supply \in Int
    BY SpendableBounded DEF Inv, TypeOK, SoundBook
  <2> QED BY <2>2, <2>3
<1>15. /\ D' \in Nat \ {0} /\ cached_price_scale' \in Nat \ {0}
       /\ virtual_price' \in Nat /\ PRECISION <= virtual_price'
       /\ ProfitCovered \/ cached_price_scale' # cached_price_scale => ProfitCovered'
  BY <1>7, <1>8, <1>9 DEF SoundSettlement, ProfitCovered
<1>16. ProfitReserved'
  BY <1>7, <1>15 DEF ProfitReserved
<1>17. \/ /\ cached_price_scale' = cached_price_scale
          /\ D' = D_ /\ virtual_price' >= vp_preop
          /\ virtual_price' >= virtual_price
       \/ /\ cached_price_scale' = p_new /\ p_new # cached_price_scale
          /\ last_timestamp' = block_timestamp
          /\ last_timestamp' > last_timestamp
  BY <1>1, <1>6, <1>13
<1>18. \E b \in 0 .. Spendable(book) :
         /\ totalSupply' = book.supply - b
         /\ donation_shares' = book.shares - b
         /\ UnlockedShares(donation_shares', last_donation_release_ts') + b
              <= UnlockedShares(book.shares, book.release)
         /\ b > 0 => /\ cached_price_scale' # cached_price_scale
                     /\ BurnIsNeeded(D_, book)
  BY <1>11, <1>12, <1>14, <1>needed
<1> QED
  BY <1>1, <1>2, <1>7, <1>live, <1>10, <1>12, <1>15, <1>16, <1>17, <1>18 DEF SoundTweak, tweak_price

-----------------------------------------------------------------------------
(* What a call did before it came to tweak_price, with the tokens, the     *)
(* caller's shares and the ledger it passes on.                            *)
PaidIn == vault'[1] >= vault[1] /\ vault'[2] >= vault[2] /\ vault' # vault
PaidOut == vault'[1] <= vault[1] /\ vault'[2] <= vault[2]

Deposited(book) ==
  /\ PaidIn /\ issued' >= issued
  /\ book.shares = donation_shares /\ book.supply >= totalSupply

Donated(book) ==
  /\ PaidIn /\ issued' = issued
  /\ (book.shares * PRECISION) \div book.supply <= donation_shares_max_ratio

Withdrew(book) ==
  /\ PaidOut /\ issued' < issued
  /\ book.shares = donation_shares

Traded(book) ==
  /\ ~PaidOut /\ issued' = issued
  /\ book.shares = donation_shares /\ book.supply = totalSupply

Ticked(D_, book) ==
  /\ vault' = vault /\ issued' = issued
  /\ D_ = D
  /\ book.shares = donation_shares /\ book.supply = totalSupply

(* The protection ends when it did, or later, or at the latest time there  *)
(* is for it.                                                              *)
ProtectionKept ==
  LET latest == block_timestamp + donation_protection_period
  IN  \/ donation_protection_expiry_ts' = donation_protection_expiry_ts
      \/ donation_protection_expiry_ts'
           \in MinOf(donation_protection_expiry_ts, latest) .. latest

(* A step of a seeded pool that ends in tweak_price: the ledger it passes  *)
(* on has no fewer donated shares, and no more of them unlocked.           *)
TweakedStep ==
  /\ D > 0
  /\ block_timestamp' = block_timestamp
  /\ donation_protection_expiry_ts' \in Nat /\ ProtectionKept
  /\ \E D_, book, vp :
       /\ LiveVirtualPrices = {vp}
       /\ SoundBook(book)
       /\ SoundTweak(D_, book, vp)
       /\ issued' + book.shares + MINIMUM_LIQUIDITY = book.supply
       /\ book.shares >= donation_shares
       /\ UnlockedShares(book.shares, book.release)
            <= UnlockedShares(donation_shares, last_donation_release_ts)
       /\ \/ book.release = last_donation_release_ts
          \/ book.release <= block_timestamp
       /\ \/ Deposited(book) \/ Donated(book) \/ Withdrew(book)
          \/ Traded(book) \/ Ticked(D_, book)

LEMMA SeededPool ==
  ASSUME Inv
  PROVE  /\ D > 0 <=> totalSupply > 0
         /\ D > 0 => totalSupply = issued + donation_shares + MINIMUM_LIQUIDITY
         /\ D \in Nat /\ totalSupply \in Nat /\ issued \in Nat
         /\ donation_shares \in Nat /\ MINIMUM_LIQUIDITY \in Nat \ {0}
BY PoolAssumption DEF Inv, TypeOK, SharesAccounted

LEMMA OpenUnlocked ==
  ASSUME Inv
  PROVE  UnlockedShares(donation_shares, last_donation_release_ts) \in Nat
<1>1. donation_shares \in Nat /\ last_donation_release_ts \in Nat
      /\ block_timestamp \in Nat
  BY DEF Inv, TypeOK
<1>2. UnlockedShares(donation_shares, last_donation_release_ts) \in 0 .. donation_shares
  BY <1>1, UnlockedBounded
<1> QED BY <1>1, <1>2

LEMMA LiveVirtualPriceUnique ==
  ASSUME totalSupply \in Nat, NEW vp \in LiveVirtualPrices
  PROVE  vp \in Nat /\ LiveVirtualPrices = {vp}
<1>1. PICK x \in xcp(D, cached_price_scale) : vp = VirtualPrice(x, totalSupply)
  BY DEF LiveVirtualPrices
<1>2. x \in Nat /\ xcp(D, cached_price_scale) = {x} /\ PRECISION * x \in Nat
  BY XcpNat, MulNat, PrecisionAssumption
<1>3. LiveVirtualPrices = {vp}
  BY <1>1, <1>2 DEF LiveVirtualPrices
<1>4. vp \in Nat
  BY <1>1, <1>2, DivNat, PrecisionAssumption DEF VirtualPrice
<1> QED BY <1>3, <1>4

LEMMA PairArithmetic ==
  ASSUME NEW a \in PairsOfNat, NEW b \in PairsOfNat
  PROVE  /\ Plus(a, b) \in PairsOfNat
         /\ Plus(a, b)[1] = a[1] + b[1] /\ Plus(a, b)[2] = a[2] + b[2]
         /\ b[1] <= a[1] /\ b[2] <= a[2] => Minus(a, b) \in PairsOfNat
         /\ Minus(a, b)[1] = a[1] - b[1] /\ Minus(a, b)[2] = a[2] - b[2]
         /\ a[1] \in Nat /\ a[2] \in Nat
         /\ a = <<a[1], a[2]>>
BY DEF PairsOfNat, Plus, Minus

LEMMA SinglePair ==
  ASSUME NEW x \in Nat, NEW i \in Coin
  PROVE  /\ Only(i, x) \in PairsOfNat /\ None \in PairsOfNat
         /\ Only(i, x)[i] = x /\ Only(i, x)[Other(i)] = 0
         /\ Other(i) \in Coin /\ Other(i) # i
BY DEF Only, None, PairsOfNat, Coin, Other

(* A payment of some of either coin is one.                                *)
LEMMA PaymentIn ==
  ASSUME NEW a \in PairsOfNat, NEW b \in PairsOfNat, b[1] + b[2] > 0
  PROVE  /\ Plus(a, b)[1] >= a[1] /\ Plus(a, b)[2] >= a[2]
         /\ Plus(a, b) # a
<1>1. /\ Plus(a, b)[1] = a[1] + b[1] /\ Plus(a, b)[2] = a[2] + b[2]
      /\ a[1] \in Nat /\ a[2] \in Nat /\ b[1] \in Nat /\ b[2] \in Nat
  BY PairArithmetic
<1> QED BY <1>1

(* What a call received less what it paid is what the pool now holds.      *)
LEMMA RetainedCustody ==
  ASSUME NEW found \in PairsOfNat, NEW received \in PairsOfNat,
         NEW paid \in PairsOfNat, NEW cut \in PairsOfNat,
         NEW set_aside \in PairsOfNat,
         paid[1] + cut[1] <= found[1] + received[1],
         paid[2] + cut[2] <= found[2] + received[2]
  PROVE  /\ Retained(found, received, paid, cut) \in PairsOfNat
         /\ Minus(Plus(Plus(found, set_aside), received), paid)
              = Plus(Retained(found, received, paid, cut), Plus(set_aside, cut))
BY DEF Retained, Plus, Minus, PairsOfNat

(* tweak_price throws without both coins.                                  *)
LEMMA TweakNeedsCoins ==
  ASSUME NEW bal \in PairsOfNat, NEW scale \in Nat,
         NEW D_, NEW book, NEW vp, tweak_price(XP(bal, scale), D_, book, vp)
  PROVE  bal[1] > 0 /\ bal[2] > 0
<1>1. XP(bal, scale)[1] > 0 /\ XP(bal, scale)[2] > 0
  BY GetPNat DEF tweak_price
<1> QED BY <1>1, CoinsBehindXP

(* Inv after a call that ends in tweak_price, from what the call itself    *)
(* has written.                                                            *)
LEMMA TweakKeepsInv ==
  ASSUME Inv, NEW D_ \in Nat, NEW vp_preop, NEW book, SoundBook(book),
         SoundTweak(D_, book, vp_preop),
         block_timestamp' = block_timestamp,
         balances' \in PairsOfNat, admin_balances' \in PairsOfNat,
         balances'[1] > 0, balances'[2] > 0,
         vault' = Plus(balances', admin_balances'),
         last_admin_fee_claim_timestamp' \in Nat,
         donation_protection_expiry_ts' \in Nat,
         donation_protection_extension_remainder'
           \in 0 .. donation_protection_lp_threshold - 1,
         issued' \in Nat,
         issued' + book.shares + MINIMUM_LIQUIDITY = book.supply
  PROVE  Inv'
<1>1. PICK burn \in 0 .. Spendable(book) :
        totalSupply' = book.supply - burn /\ donation_shares' = book.shares - burn
  BY DEF SoundTweak
<1>2. /\ Spendable(book) \in 0 .. UnlockedShares(book.shares, book.release)
      /\ UnlockedShares(book.shares, book.release) \in 0 .. book.shares
      /\ book.shares \in Nat /\ book.supply \in Nat /\ MINIMUM_LIQUIDITY \in Nat
  BY SpendableBounded, PoolAssumption DEF Inv, TypeOK, SoundBook
<1>3. burn \in Nat /\ burn <= book.shares
  BY <1>2
<1>4. /\ totalSupply' \in Nat /\ donation_shares' \in Nat
      /\ totalSupply' = issued' + donation_shares' + MINIMUM_LIQUIDITY
  BY <1>1, <1>2, <1>3
<1>5. D' \in Nat \ {0}
  BY DEF SoundTweak
<1>6. SharesAccounted'
  BY <1>4, <1>5 DEF SharesAccounted
<1>7. vault' \in PairsOfNat /\ Custody'
  BY PairArithmetic DEF Custody
<1>8. TypeOK'
  BY <1>4, <1>7 DEF TypeOK, SoundTweak, Inv
<1>9. ProfitReserved' /\ cached_price_scale' > 0
  BY DEF SoundTweak
<1>10. /\ (D = 0 => balances = None /\ issued = 0 /\ donation_shares = 0)'
       /\ (D > 0 => balances[1] > 0 /\ balances[2] > 0)'
       /\ (block_timestamp >= donation_duration)'
  BY <1>5 DEF Inv
<1> QED BY <1>6, <1>7, <1>8, <1>9, <1>10 DEF Inv

-----------------------------------------------------------------------------
(* Each call keeps the invariant.                                          *)

LEMMA InitInv == Init => Inv
<1> SUFFICES ASSUME Init PROVE Inv
  OBVIOUS
<1>1. None \in PairsOfNat /\ Plus(None, None) = None
  BY DEF None, PairsOfNat, Plus
<1>2. TypeOK
  BY <1>1, InputAssumption, PoolAssumption, PrecisionAssumption, DonationAssumption
     DEF Init, TypeOK
<1> QED
  BY <1>1, <1>2, InputAssumption, PoolAssumption, PrecisionAssumption
     DEF Init, Inv, SharesAccounted, ProfitReserved, Custody

LEMMA InitialDepositInv ==
  ASSUME Inv, NEW amounts \in Seeds, NEW min \in Minimums,
         InitialDeposit(amounts, min)
  PROVE  /\ Inv'
         /\ LiveVirtualPrices' = {virtual_price'}
         /\ D = 0
         /\ PaidIn /\ single_caller_lp_balance' > 0
         /\ virtual_price' = PRECISION /\ lp_xcp_profit' = PRECISION
<1>1. PICK D_new \in newton_D(XP(Plus(balances, amounts), cached_price_scale)) :
        /\ D' = D_new
        /\ \E d \in xcp(D_new, cached_price_scale) :
             /\ d > MINIMUM_LIQUIDITY
             /\ d - MINIMUM_LIQUIDITY >= min
             /\ totalSupply' = totalSupply + d
             /\ issued' = issued + d - MINIMUM_LIQUIDITY
  BY DEF InitialDeposit
<1>2. PICK d \in xcp(D_new, cached_price_scale) :
        /\ d > MINIMUM_LIQUIDITY
        /\ totalSupply' = totalSupply + d
        /\ issued' = issued + d - MINIMUM_LIQUIDITY
  BY <1>1
<1>3. D = 0 /\ totalSupply = 0
  BY DEF InitialDeposit, Inv, SharesAccounted
<1>4. /\ D_new \in Nat /\ d \in Nat /\ xcp(D_new, cached_price_scale) = {d}
      /\ MINIMUM_LIQUIDITY \in Nat \ {0} /\ cached_price_scale \in Nat
  BY NewtonNat, XcpNat, PoolAssumption DEF Inv, TypeOK
<1>5. D_new > 0
  BY <1>2, <1>4, XcpPositive
<1>6. amounts \in PairsOfNat
  BY InputAssumption
<1>7. /\ balances' = Plus(balances, amounts) /\ vault' = Plus(vault, amounts)
      /\ admin_balances' = admin_balances
  BY DEF InitialDeposit, adminVars
<1>8. Custody' /\ balances' \in PairsOfNat /\ vault' \in PairsOfNat
  <2>1. vault = Plus(balances, admin_balances)
        /\ balances \in PairsOfNat /\ admin_balances \in PairsOfNat
    BY DEF Inv, Custody, TypeOK
  <2>2. vault' = Plus(balances', admin_balances')
    BY <1>6, <1>7, <2>1 DEF Plus, PairsOfNat
  <2>3. balances' \in PairsOfNat
    BY <1>6, <1>7, <2>1, PairArithmetic
  <2> QED BY <1>7, <2>1, <2>2, <2>3, PairArithmetic DEF Custody
<1>9. /\ UNCHANGED <<cached_price_scale, cached_price_oracle, last_prices,
                     last_timestamp>>
      /\ UNCHANGED <<last_admin_fee_claim_timestamp, admin_balances>>
      /\ UNCHANGED <<donation_shares, last_donation_release_ts>>
      /\ UNCHANGED <<donation_protection_expiry_ts,
                     donation_protection_extension_remainder>>
      /\ block_timestamp' = block_timestamp
      /\ xcp_profit' = PRECISION /\ lp_xcp_profit' = PRECISION
      /\ virtual_price' = PRECISION
  BY DEF InitialDeposit, priceVars, adminVars, donationVars, protectionVars
<1>10. D' \in Nat \ {0} /\ totalSupply' = d
  BY <1>1, <1>2, <1>3, <1>4, <1>5
<1>11. issued = 0 /\ donation_shares = 0
  BY <1>3 DEF Inv
<1>12. issued' \in Nat /\ SharesAccounted'
  BY <1>2, <1>4, <1>9, <1>10, <1>11 DEF SharesAccounted
<1>13. TypeOK'
  BY <1>4, <1>8, <1>9, <1>10, <1>12, PrecisionAssumption DEF Inv, TypeOK
<1>14. ProfitReserved'
  BY <1>9, PrecisionAssumption DEF ProfitReserved
<1>coins. balances'[1] > 0 /\ balances'[2] > 0
  BY <1>1, <1>4, <1>7, <1>8, NewtonNat, CoinsBehindXP
<1>15. Inv'
  BY <1>8, <1>9, <1>10, <1>12, <1>13, <1>14, <1>coins DEF Inv
<1>16. LiveVirtualPrices' = {virtual_price'}
  <2>1. xcp(D', cached_price_scale') = {d}
    BY <1>1, <1>4, <1>9
  <2>2. VirtualPrice(d, totalSupply') = PRECISION
    <3>1. (PRECISION * d) \div d = PRECISION
      BY <1>2, <1>4, PrecisionAssumption
    <3> QED BY <3>1, <1>2, <1>4, <1>10 DEF VirtualPrice
  <2>3. LiveVirtualPrices' = {VirtualPrice(z, totalSupply') :
                                z \in xcp(D', cached_price_scale')}
    BY DEF LiveVirtualPrices
  <2> QED BY <1>9, <2>1, <2>2, <2>3
<1>17. PaidIn
  <2>1. vault \in PairsOfNat /\ amounts[1] + amounts[2] > 0
    BY DEF InitialDeposit, Inv, TypeOK
  <2> QED BY <1>6, <1>7, <2>1, PaymentIn DEF PaidIn
<1>18. single_caller_lp_balance' > 0
  <2>1. totalSupply' = d /\ donation_shares' = 0 /\ d > MINIMUM_LIQUIDITY
    BY <1>2, <1>9, <1>10, <1>11
  <2> QED BY <1>4, <2>1 DEF single_caller_lp_balance, MaxOf
<1> QED BY <1>3, <1>9, <1>15, <1>16, <1>17, <1>18

(* The protection of donated shares: types, and never a shorter one.       *)
LEMMA ExtendProtectionType ==
  ASSUME Inv, D > 0, NEW minted \in Nat, ExtendProtection(minted)
  PROVE  /\ donation_protection_expiry_ts' \in Nat
         /\ donation_protection_extension_remainder'
              \in 0 .. donation_protection_lp_threshold - 1
         /\ ProtectionKept
<1> DEFINE raw == RawExtension(minted)
<1>1. raw \in Nat
  <2>1. totalSupply + minted \in Nat \ {0}
    BY SeededPool
  <2>2. (minted * PRECISION) \div (totalSupply + minted) \in Nat
    BY <2>1, MulNat, DivNat, PrecisionAssumption
  <2>3. ((minted * PRECISION) \div (totalSupply + minted))
          * donation_protection_period \in Nat
    BY <2>2, MulNat, DonationAssumption
  <2> QED BY <2>3, DonationAssumption DEF RawExtension, Inv, TypeOK
<1>2. /\ raw \div donation_protection_lp_threshold \in Nat
      /\ raw % donation_protection_lp_threshold
           \in 0 .. donation_protection_lp_threshold - 1
  BY <1>1, DivNat, DonationAssumption
<1> HIDE DEF raw
<1>3. donation_protection_expiry_ts \in Nat /\ block_timestamp \in Nat
      /\ donation_protection_extension_remainder
           \in 0 .. donation_protection_lp_threshold - 1
  BY DEF Inv, TypeOK
<1> QED
  BY <1>2, <1>3, DonationAssumption
     DEF ExtendProtection, ProtectionKept, protectionVars, MaxOf, MinOf, raw

LEMMA AddLiquiditySound ==
  ASSUME Inv, NEW amounts \in Deposits, NEW min \in Minimums,
         AddLiquidity(amounts, min)
  PROVE  Inv' /\ TweakedStep
<1> DEFINE deposited == Plus(balances, amounts)
           xp == XP(deposited, cached_price_scale)
           Fee(r, d) == LpFee(r, d)
           Cut(r, d) == AdminCut(deposited, Fee(r, d), totalSupply + d)
           Kept(r, d) == Retained(balances, amounts, None, Cut(r, d))
           XPKept(r, d) == XP(Kept(r, d), cached_price_scale)
           BookOf(r, d) == Book(totalSupply + (d - Fee(r, d)), donation_shares,
                                last_donation_release_ts)
<1>1. D > 0
  BY DEF AddLiquidity
<1>2. /\ amounts \in PairsOfNat /\ min \in Nat
      /\ balances \in PairsOfNat /\ admin_balances \in PairsOfNat
      /\ vault = Plus(balances, admin_balances)
      /\ cached_price_scale \in Nat
      /\ donation_shares \in Nat /\ last_donation_release_ts \in Nat
      /\ block_timestamp \in Nat /\ donation_protection_expiry_ts \in Nat
      /\ last_admin_fee_claim_timestamp \in Nat
      /\ D \in Nat /\ totalSupply \in Nat \ {0} /\ issued \in Nat
      /\ totalSupply = issued + donation_shares + MINIMUM_LIQUIDITY
      /\ MINIMUM_LIQUIDITY \in Nat
  BY <1>1, SeededPool, InputAssumption DEF Inv, TypeOK, Custody
<1>3. deposited \in PairsOfNat /\ xp \in PairsOfNat
  BY <1>2, PairArithmetic, XPType
<1> HIDE DEF deposited, xp
<1>4. PICK D_new \in newton_D(xp), rate \in calc_token_fee(amounts, xp, balances, TRUE) :
        LET d_token == MintedFor(D_new)
            minted == d_token - Fee(rate, d_token)
        IN  /\ d_token > 0
            /\ minted >= min
            /\ balances' = Kept(rate, d_token)
            /\ admin_balances' = Plus(admin_balances, Cut(rate, d_token))
            /\ issued' = issued + minted
            /\ ExtendProtection(minted)
            /\ \E D_kept \in newton_D(XPKept(rate, d_token)), vp \in LiveVirtualPrices :
                 tweak_price(XPKept(rate, d_token), D_kept,
                             BookOf(rate, d_token), vp)
  BY DEF AddLiquidity, deposited, xp
<1> DEFINE d_token == MintedFor(D_new)
           fee_ == Fee(rate, d_token)
           minted == d_token - fee_
           cut == Cut(rate, d_token)
           kept == Kept(rate, d_token)
           book == BookOf(rate, d_token)
<1>5. PICK D_kept \in newton_D(XP(kept, cached_price_scale)), vp \in LiveVirtualPrices :
        tweak_price(XP(kept, cached_price_scale), D_kept, book, vp)
  BY <1>4
<1>6. D_new \in Nat /\ D_kept \in Nat /\ rate \in Nat
  <2>1. rate \in Nat
    BY <1>2, <1>3, CalcTokenFeeNat
  <2> QED BY <2>1, NewtonNat
<1>7. d_token \in Nat /\ d_token > 0
  <2>1. totalSupply * D_new \in Nat
    BY <1>2, <1>6, MulNat
  <2>2. (totalSupply * D_new) \div D \in Nat
    BY <1>1, <1>2, <2>1, DivNat
  <2>3. d_token > 0
    BY <1>4
  <2> QED BY <1>2, <2>2, <2>3 DEF MintedFor
<1> HIDE DEF d_token
<1>8. fee_ \in Nat
  <2>1. rate * d_token \in Nat
    BY <1>6, <1>7, MulNat
  <2> QED BY <2>1, DivNat, FeeAssumption DEF LpFee
<1>9. minted \in Nat /\ fee_ <= d_token /\ fee_ <= totalSupply + d_token
      /\ totalSupply + d_token \in Nat
  <2>1. minted >= min
    BY <1>4 DEF d_token
  <2> HIDE DEF fee_
  <2> QED BY <2>1, <1>2, <1>7, <1>8
<1>10. cut \in PairsOfNat /\ cut[1] <= deposited[1] /\ cut[2] <= deposited[2]
  BY <1>3, <1>8, <1>9, AdminCutBounded DEF Coin
<1>11. /\ balances' = kept /\ admin_balances' = Plus(admin_balances, cut)
       /\ issued' = issued + minted
       /\ ExtendProtection(minted)
  BY <1>4 DEF d_token
<1> HIDE DEF cut
<1>12. kept = Retained(balances, amounts, None, cut)
  BY DEF cut
<1>13. book = Book(totalSupply + minted, donation_shares, last_donation_release_ts)
  OBVIOUS
<1> HIDE DEF kept, book, fee_
<1>14. /\ kept \in PairsOfNat /\ None \in PairsOfNat
       /\ Minus(Plus(vault, amounts), None) = Plus(kept, Plus(admin_balances, cut))
  <2>1. None \in PairsOfNat /\ None[1] = 0 /\ None[2] = 0
    BY DEF None, PairsOfNat
  <2>2. /\ None[1] + cut[1] <= balances[1] + amounts[1]
        /\ None[2] + cut[2] <= balances[2] + amounts[2]
    BY <1>2, <1>10, <2>1, PairArithmetic DEF deposited
  <2>4. /\ Retained(balances, amounts, None, cut) \in PairsOfNat
        /\ Minus(Plus(Plus(balances, admin_balances), amounts), None)
             = Plus(Retained(balances, amounts, None, cut),
                    Plus(admin_balances, cut))
    BY <1>2, <1>10, <2>1, <2>2, RetainedCustody
  <2> QED BY <1>2, <1>12, <2>1, <2>4
<1>15. vault' = Plus(balances', admin_balances')
  <2>1. vault' = Plus(vault, amounts)
    BY DEF AddLiquidity
  <2>2. Minus(Plus(vault, amounts), None) = Plus(vault, amounts)
    <3>1. vault \in PairsOfNat
      BY DEF Inv, TypeOK
    <3> QED BY <1>2, <3>1 DEF Minus, Plus, None, PairsOfNat
  <2> QED BY <1>11, <1>14, <2>1, <2>2
<1>16. /\ balances' \in PairsOfNat /\ admin_balances' \in PairsOfNat
       /\ issued' \in Nat
       /\ donation_protection_expiry_ts' \in Nat /\ ProtectionKept
       /\ donation_protection_extension_remainder'
            \in 0 .. donation_protection_lp_threshold - 1
  BY <1>1, <1>2, <1>9, <1>10, <1>11, <1>14, PairArithmetic, ExtendProtectionType
<1>17. /\ SoundBook(book) /\ book.shares = donation_shares
       /\ book.release = last_donation_release_ts
       /\ book.supply = totalSupply + minted
  BY <1>2, <1>9, <1>13 DEF SoundBook, Book
<1>18. vp \in Nat /\ LiveVirtualPrices = {vp}
  BY <1>2, LiveVirtualPriceUnique
<1>19. SoundTweak(D_kept, book, vp)
  BY <1>5, <1>6, <1>16, <1>17, TweakPriceSound
<1>20. /\ block_timestamp' = block_timestamp
       /\ last_admin_fee_claim_timestamp' = last_admin_fee_claim_timestamp
  BY DEF AddLiquidity
<1>21. issued' + book.shares + MINIMUM_LIQUIDITY = book.supply
  BY <1>2, <1>9, <1>11, <1>17
<1>coins. balances'[1] > 0 /\ balances'[2] > 0
  BY <1>2, <1>5, <1>11, <1>14, TweakNeedsCoins
<1>22. Inv'
  BY <1>2, <1>6, <1>15, <1>16, <1>17, <1>19, <1>20, <1>21, <1>coins, TweakKeepsInv
<1>23. UnlockedShares(donation_shares, last_donation_release_ts) \in Nat
  BY OpenUnlocked
<1>24. TweakedStep
  <2>1. book.shares >= donation_shares
        /\ UnlockedShares(book.shares, book.release)
             <= UnlockedShares(donation_shares, last_donation_release_ts)
    BY <1>2, <1>17, <1>23
  <2>2. PaidIn
    <3>1. vault \in PairsOfNat /\ vault' = Plus(vault, amounts)
          /\ amounts[1] + amounts[2] > 0
      BY DEF AddLiquidity, Inv, TypeOK
    <3> QED BY <1>2, <3>1, PaymentIn DEF PaidIn
  <2>3. Deposited(book)
    BY <1>2, <1>9, <1>11, <1>17, <2>2 DEF Deposited
  <2> QED BY <1>1, <1>16, <1>17, <1>18, <1>19, <1>20, <1>21, <2>1, <2>3 DEF TweakedStep
<1> QED BY <1>22, <1>24

LEMMA MintedForInt ==
  ASSUME Inv, D > 0, NEW D_new \in Nat
  PROVE  MintedFor(D_new) \in Int
<1>1. totalSupply * D_new \in Nat /\ totalSupply \in Nat /\ D \in Nat \ {0}
  BY SeededPool, MulNat
<1>2. (totalSupply * D_new) \div D \in Nat
  BY <1>1, DivNat
<1> QED BY <1>1, <1>2 DEF MintedFor

LEMMA DonateSound ==
  ASSUME Inv, NEW amounts \in Donations, NEW min \in Minimums, Donate(amounts, min)
  PROVE  Inv' /\ TweakedStep
<1> DEFINE deposited == Plus(balances, amounts)
           xp == XP(deposited, cached_price_scale)
           u == UnlockedShares(donation_shares, last_donation_release_ts)
           MintedBy(d) == d - LpFee(NOISE_FEE, d)
<1>1. D > 0
  BY DEF Donate
<1>2. /\ amounts \in PairsOfNat /\ min \in Nat
      /\ balances \in PairsOfNat /\ admin_balances \in PairsOfNat
      /\ vault = Plus(balances, admin_balances)
      /\ donation_shares \in Nat /\ last_donation_release_ts \in Nat
      /\ block_timestamp \in Nat /\ block_timestamp >= donation_duration
      /\ totalSupply \in Nat \ {0} /\ issued \in Nat
      /\ totalSupply = issued + donation_shares + MINIMUM_LIQUIDITY
      /\ MINIMUM_LIQUIDITY \in Nat
  BY <1>1, SeededPool, InputAssumption DEF Inv, TypeOK, Custody
<1> HIDE DEF xp
<1>3. PICK D_new \in newton_D(xp), vp \in LiveVirtualPrices :
        LET d_token == MintedFor(D_new)
            minted == MintedBy(d_token)
        IN  /\ d_token > 0
            /\ DonationBelowCap(minted)
            /\ minted >= min
            /\ tweak_price(xp, D_new, DonatedBook(minted), vp)
  BY DEF Donate, xp
<1> DEFINE d_token == MintedFor(D_new)
           minted == MintedBy(d_token)
           book == DonatedBook(minted)
<1>4. D_new \in Nat
  BY NewtonNat
<1>5. minted \in Nat
  <2>1. d_token \in Int /\ d_token > 0
    BY <1>1, <1>3, <1>4, MintedForInt
  <2> HIDE DEF d_token
  <2>2. NOISE_FEE * d_token \in Nat
    BY <2>1, MulNat, FeeAssumption
  <2>3. LpFee(NOISE_FEE, d_token) \in Nat
    BY <2>2, DivNat, FeeAssumption DEF LpFee
  <2>4. minted >= min
    BY <1>3 DEF d_token
  <2> QED BY <1>2, <2>1, <2>3, <2>4
<1>6. tweak_price(xp, D_new, book, vp)
  BY <1>3
<1> HIDE DEF minted
<1>7. u \in 0 .. donation_shares /\ u \in Nat
  BY <1>2, UnlockedBounded, OpenUnlocked
<1> HIDE DEF u
<1>8. /\ book.supply = totalSupply + minted
      /\ book.shares = donation_shares + minted
      /\ book.release = ReleaseFor(u, donation_shares + minted)
      /\ book = Book(book.supply, book.shares, book.release)
  BY DEF DonatedBook, Book, u
<1>9. /\ ReleaseFor(u, donation_shares + minted) \in 0 .. block_timestamp
      /\ ReleaseFor(u, donation_shares + minted) \in Nat
      /\ UnlockedShares(donation_shares + minted,
                        ReleaseFor(u, donation_shares + minted)) <= u
  <2>1. donation_shares + minted \in Nat /\ u \in 0 .. donation_shares + minted
    BY <1>2, <1>5, <1>7
  <2> QED BY <1>2, <2>1, ReleaseUnlocksNoMore
<1> HIDE DEF book
<1>10. SoundBook(book)
  BY <1>2, <1>5, <1>8, <1>9 DEF SoundBook
<1>11. /\ UNCHANGED <<donation_protection_expiry_ts,
                      donation_protection_extension_remainder>>
       /\ UNCHANGED <<admin_balances, last_admin_fee_claim_timestamp,
                      block_timestamp, issued>>
       /\ balances' = deposited /\ vault' = Plus(vault, amounts)
  BY DEF Donate, protectionVars, adminVars
<1>12. /\ donation_protection_expiry_ts' \in Nat
       /\ donation_protection_extension_remainder'
            \in 0 .. donation_protection_lp_threshold - 1
       /\ last_admin_fee_claim_timestamp' \in Nat
       /\ admin_balances' \in PairsOfNat /\ balances' \in PairsOfNat
       /\ issued' \in Nat
  BY <1>2, <1>11, PairArithmetic DEF Inv, TypeOK
<1>13. SoundTweak(D_new, book, vp)
  BY <1>4, <1>6, <1>10, <1>12, TweakPriceSound
<1>14. vault' = Plus(balances', admin_balances')
  BY <1>2, <1>11 DEF Plus, PairsOfNat
<1>15. issued' + book.shares + MINIMUM_LIQUIDITY = book.supply
  BY <1>2, <1>5, <1>8, <1>11
<1>coins. balances'[1] > 0 /\ balances'[2] > 0
  <2>1. cached_price_scale \in Nat
    BY DEF Inv, TypeOK
  <2> QED BY <1>6, <1>11, <1>12, <2>1, TweakNeedsCoins DEF xp
<1>16. Inv'
  BY <1>4, <1>10, <1>11, <1>12, <1>13, <1>14, <1>15, <1>coins, TweakKeepsInv
<1>17. book.shares >= donation_shares
  BY <1>2, <1>5, <1>8
<1>18. /\ UnlockedShares(book.shares, book.release)
            <= UnlockedShares(donation_shares, last_donation_release_ts)
       /\ book.release <= block_timestamp
  BY <1>2, <1>8, <1>9 DEF u
<1>19. LiveVirtualPrices = {vp}
  BY <1>2, LiveVirtualPriceUnique
<1>below. (book.shares * PRECISION) \div book.supply <= donation_shares_max_ratio
  BY <1>3, <1>8 DEF DonationBelowCap, minted
<1>in. PaidIn
  <2>1. vault \in PairsOfNat /\ amounts[1] + amounts[2] > 0
    BY DEF Donate, Inv, TypeOK
  <2> QED BY <1>2, <1>11, <2>1, PaymentIn DEF PaidIn
<1>20. TweakedStep
  <2>1. Donated(book)
    BY <1>11, <1>below, <1>in DEF Donated
  <2> QED
    BY <1>1, <1>10, <1>11, <1>12, <1>13, <1>15, <1>17, <1>18, <1>19, <2>1
       DEF TweakedStep, ProtectionKept
<1> QED BY <1>16, <1>20

(* A proportional exit, which skips tweak_price.                           *)
LEMMA RemoveLiquidityInv ==
  ASSUME Inv, NEW amount \in Burns, NEW min \in Minimums,
         RemoveLiquidity(amount, min)
  PROVE  /\ Inv'
         /\ D > 0 /\ amount \in 0 .. totalSupply - 1
         /\ D' = D - (D * amount) \div totalSupply /\ D' > 0
         /\ totalSupply' = totalSupply - amount
         /\ PaidOut
<1> DEFINE w1 == ProRata(balances[1], amount)
           w2 == ProRata(balances[2], amount)
           withdrawn == <<w1, w2>>
<1>1. /\ totalSupply > 0 /\ amount <= single_caller_lp_balance
      /\ totalSupply' = totalSupply - amount
      /\ D' = D - ProRata(D, amount)
      /\ balances' = Minus(balances, withdrawn)
      /\ vault' = Minus(vault, withdrawn)
      /\ issued' = issued - amount
      /\ UNCHANGED <<cached_price_scale, cached_price_oracle, last_prices,
                     last_timestamp>>
      /\ UNCHANGED <<xcp_profit, lp_xcp_profit, virtual_price>>
      /\ UNCHANGED <<admin_balances, last_admin_fee_claim_timestamp>>
      /\ UNCHANGED <<donation_shares, last_donation_release_ts>>
      /\ UNCHANGED <<donation_protection_expiry_ts,
                     donation_protection_extension_remainder>>
      /\ block_timestamp' = block_timestamp
  BY DEF RemoveLiquidity, priceVars, profitVars, adminVars, donationVars,
         protectionVars
<1>2. /\ D \in Nat \ {0} /\ totalSupply \in Nat \ {0} /\ issued \in Nat
      /\ donation_shares \in Nat /\ MINIMUM_LIQUIDITY \in Nat \ {0}
      /\ totalSupply = issued + donation_shares + MINIMUM_LIQUIDITY
      /\ amount \in Nat
  BY <1>1, SeededPool, InputAssumption
<1>3. amount <= issued
  BY <1>1, <1>2 DEF single_caller_lp_balance, MaxOf
<1>4. amount \in 0 .. totalSupply - 1
  BY <1>2, <1>3
<1>5. ProRata(D, amount) \in 0 .. D - 1
  BY <1>2, <1>4, StrictPart DEF ProRata
<1>6. /\ balances \in PairsOfNat /\ admin_balances \in PairsOfNat
      /\ vault = Plus(balances, admin_balances)
      /\ balances[1] \in Nat /\ balances[2] \in Nat
  <2>1. balances \in PairsOfNat /\ admin_balances \in PairsOfNat
        /\ vault = Plus(balances, admin_balances)
    BY DEF Inv, TypeOK, Custody
  <2> QED BY <2>1, PairArithmetic
<1>7. w1 \in 0 .. balances[1] /\ w2 \in 0 .. balances[2]
  <2>1. amount \in 0 .. totalSupply
    BY <1>2, <1>4
  <2> QED BY <1>2, <1>6, <2>1, PartOfWhole DEF ProRata
<1> HIDE DEF w1, w2
<1>8. /\ balances' \in PairsOfNat
      /\ vault' = Plus(balances', admin_balances')
  <2>1. withdrawn \in PairsOfNat
        /\ withdrawn[1] <= balances[1] /\ withdrawn[2] <= balances[2]
    BY <1>6, <1>7 DEF PairsOfNat
  <2> HIDE DEF withdrawn
  <2>2. balances' \in PairsOfNat
    BY <1>1, <1>6, <2>1, PairArithmetic
  <2>3. Minus(Plus(balances, admin_balances), withdrawn)
          = Plus(Minus(balances, withdrawn), admin_balances)
    BY <1>6, <2>1 DEF Plus, Minus, PairsOfNat
  <2> QED BY <1>1, <1>6, <2>2, <2>3
<1>9. vault' \in PairsOfNat /\ Custody'
  BY <1>1, <1>6, <1>8, PairArithmetic DEF Custody
<1>10. /\ D' \in Nat \ {0} /\ totalSupply' \in Nat /\ issued' \in Nat
       /\ totalSupply' = issued' + donation_shares' + MINIMUM_LIQUIDITY
  BY <1>1, <1>2, <1>3, <1>4, <1>5
<1>11. TypeOK'
  BY <1>1, <1>8, <1>9, <1>10 DEF Inv, TypeOK
<1>coins. balances'[1] > 0 /\ balances'[2] > 0
  <2>1. balances[1] > 0 /\ balances[2] > 0
    BY <1>2 DEF Inv
  <2>2. w1 \in 0 .. balances[1] - 1 /\ w2 \in 0 .. balances[2] - 1
    <3>1. balances[1] \in Nat \ {0} /\ balances[2] \in Nat \ {0}
      BY <1>6, <2>1
    <3>2. /\ (balances[1] * amount) \div totalSupply \in 0 .. balances[1] - 1
          /\ (balances[2] * amount) \div totalSupply \in 0 .. balances[2] - 1
      BY <1>2, <1>4, <3>1, StrictPart
    <3> QED BY <3>2 DEF ProRata, w1, w2
  <2>3. balances'[1] = balances[1] - w1 /\ balances'[2] = balances[2] - w2
    BY <1>1 DEF Minus
  <2> QED BY <1>6, <2>2, <2>3
<1>12. Inv'
  BY <1>1, <1>9, <1>10, <1>11, <1>coins DEF Inv, SharesAccounted, ProfitReserved
<1>13. PaidOut
  <2>1. /\ vault'[1] = vault[1] - w1 /\ vault'[2] = vault[2] - w2
        /\ vault[1] \in Nat /\ vault[2] \in Nat
    BY <1>1, PairArithmetic DEF Minus, Inv, TypeOK
  <2> QED BY <1>6, <1>7, <2>1 DEF PaidOut
<1> QED BY <1>1, <1>2, <1>4, <1>10, <1>12, <1>13 DEF ProRata

LEMMA PairExcept ==
  ASSUME NEW xp \in PairsOfNat, NEW i \in Coin, NEW y \in Nat
  PROVE  /\ [xp EXCEPT ![i] = y] \in PairsOfNat
         /\ [xp EXCEPT ![i] = y][i] = y
         /\ [xp EXCEPT ![i] = y][Other(i)] = xp[Other(i)]
<1>1. CASE i = 1
  BY <1>1 DEF PairsOfNat, Other
<1>2. CASE i = 2
  BY <1>2 DEF PairsOfNat, Other
<1> QED BY <1>1, <1>2 DEF Coin

(* An exchange pays no more than the pool has of the coin.                 *)
LEMMA GrossOutputBounded ==
  ASSUME cached_price_scale \in Nat \ {0}, NEW bal \in PairsOfNat,
         NEW j \in Coin, NEW y \in Nat, y < XP(bal, cached_price_scale)[j]
  PROVE  GrossOutput(XP(bal, cached_price_scale), y, j) \in 0 .. bal[j]
<1> DEFINE xp == XP(bal, cached_price_scale)
           dy == xp[j] - y - 1
           p == precisions[j]
<1>1. /\ bal[1] \in Nat /\ bal[2] \in Nat
      /\ precisions[1] \in Nat \ {0} /\ precisions[2] \in Nat \ {0}
  BY PoolAssumption DEF PairsOfNat
<1>2. /\ xp \in PairsOfNat
      /\ xp[1] = bal[1] * precisions[1]
      /\ xp[2] = (bal[2] * precisions[2] * cached_price_scale) \div PRECISION
  BY XPType
<1>3. xp[1] \in Nat /\ xp[2] \in Nat
  BY <1>2, PairArithmetic
<1>4. CASE j = 1
  <2>1. dy \in Nat /\ dy <= bal[1] * precisions[1]
    BY <1>1, <1>2, <1>3, <1>4
  <2>2. dy \div precisions[1] \in Nat /\ dy \div precisions[1] <= bal[1]
    BY <1>1, <2>1, DivNat, DivAtMost
  <2> QED BY <1>1, <1>4, <2>2 DEF GrossOutput
<1>5. CASE j = 2
  <2> DEFINE stock == bal[2] * precisions[2]
             q == (dy * PRECISION) \div cached_price_scale
  <2>1. stock \in Nat /\ stock * cached_price_scale \in Nat
    BY <1>1, MulNat
  <2> HIDE DEF stock
  <2>2. PRECISION * xp[2] <= stock * cached_price_scale
    BY <1>2, <2>1, DivNat, PrecisionAssumption DEF stock
  <2>3. dy \in Nat /\ dy <= xp[2]
    BY <1>3, <1>5
  <2> HIDE DEF dy
  <2>4. dy * PRECISION \in Nat /\ dy * PRECISION <= stock * cached_price_scale
    <3>1. PRECISION * dy <= PRECISION * xp[2]
      BY <1>3, <2>3, MulMonotone, PrecisionAssumption
    <3>2. PRECISION * dy \in Nat /\ PRECISION * xp[2] \in Nat
          /\ dy * PRECISION = PRECISION * dy
      BY <1>3, <2>3, MulNat, PrecisionAssumption
    <3> QED BY <2>1, <2>2, <3>1, <3>2
  <2>5. q \in Nat /\ q <= stock
    BY <2>1, <2>4, DivNat, DivAtMost
  <2> HIDE DEF q
  <2>6. q \div precisions[2] \in Nat /\ q \div precisions[2] <= bal[2]
    BY <1>1, <2>5, DivNat, DivAtMost DEF stock
  <2> QED BY <1>1, <1>5, <2>6 DEF GrossOutput, q, dy
<1> QED BY <1>4, <1>5 DEF Coin

LEMMA ExchangeSound ==
  ASSUME Inv, NEW i \in Coin, NEW dx \in Trades, NEW min_dy \in Minimums,
         Exchange(i, dx, min_dy)
  PROVE  Inv' /\ TweakedStep
<1> DEFINE j == Other(i)
           offered == Plus(balances, Only(i, dx))
           xp == XP(offered, cached_price_scale)
           Charged(rate, gross) == (rate * gross) \div FEE_PRECISION
           CutOf(rate, gross) ==
             Only(j, (Charged(rate, gross) * reserved_profit_fraction * admin_fee)
                       \div (FEE_PRECISION * FEE_PRECISION))
           KeptOf(rate, gross) ==
             Retained(balances, Only(i, dx), Only(j, gross - Charged(rate, gross)),
                      CutOf(rate, gross))
<1>1. /\ dx \in Nat /\ j \in Coin /\ j # i
      /\ Only(i, dx) \in PairsOfNat
      /\ Only(i, dx)[i] = dx /\ Only(i, dx)[j] = 0
  BY InputAssumption, SinglePair
<1>2. /\ balances \in PairsOfNat /\ admin_balances \in PairsOfNat
      /\ vault = Plus(balances, admin_balances)
      /\ cached_price_scale \in Nat \ {0}
      /\ D \in Nat /\ totalSupply \in Nat
  BY DEF Inv, TypeOK, Custody
<1>3. offered \in PairsOfNat /\ offered[j] = balances[j]
      /\ offered[i] = balances[i] + dx
      /\ balances[i] \in Nat /\ balances[j] \in Nat
  BY <1>1, <1>2, PairArithmetic DEF Coin
<1> HIDE DEF offered
<1>4. xp \in PairsOfNat
  BY <1>2, <1>3, XPType
<1> HIDE DEF xp, j
<1>5. PICK y \in get_y(xp, D, j) :
        /\ y < xp[j]
        /\ \E rate \in fee([xp EXCEPT ![j] = y]) :
             LET gross == GrossOutput(xp, y, j)
                 kept == KeptOf(rate, gross)
                 xp_kept == XP(kept, cached_price_scale)
             IN  /\ balances' = kept
                 /\ admin_balances' = Plus(admin_balances, CutOf(rate, gross))
                 /\ vault' = Minus(Plus(vault, Only(i, dx)),
                                   Only(j, gross - Charged(rate, gross)))
                 /\ \E D_new \in newton_D(xp_kept),
                       vp \in IF totalSupply > 0 THEN LiveVirtualPrices
                                                 ELSE {virtual_price} :
                      tweak_price(xp_kept, D_new,
                        Book(totalSupply, donation_shares,
                             last_donation_release_ts), vp)
  BY DEF Exchange, offered, xp, j
<1> DEFINE gross == GrossOutput(xp, y, j)
<1>6. PICK rate \in fee([xp EXCEPT ![j] = y]) :
        /\ balances' = KeptOf(rate, gross)
        /\ admin_balances' = Plus(admin_balances, CutOf(rate, gross))
        /\ vault' = Minus(Plus(vault, Only(i, dx)),
                          Only(j, gross - Charged(rate, gross)))
        /\ \E D_new \in newton_D(XP(KeptOf(rate, gross), cached_price_scale)),
              vp \in IF totalSupply > 0 THEN LiveVirtualPrices
                                        ELSE {virtual_price} :
             tweak_price(XP(KeptOf(rate, gross), cached_price_scale), D_new,
               Book(totalSupply, donation_shares, last_donation_release_ts), vp)
  BY <1>5
<1>7. y \in Nat /\ rate \in 0 .. FEE_PRECISION
  <2>1. y \in Nat
    BY GetYNat
  <2>2. [xp EXCEPT ![j] = y] \in PairsOfNat
    BY <1>1, <1>4, <2>1, PairExcept
  <2> QED BY <2>1, <2>2, FeeBounded, FeeAssumption
<1>8. gross \in 0 .. balances[j] /\ gross \in Nat
  <2>1. GrossOutput(xp, y, j) \in 0 .. offered[j]
    BY <1>1, <1>2, <1>3, <1>5, <1>7, GrossOutputBounded DEF xp
  <2> QED BY <2>1, <1>3
<1> HIDE DEF gross
<1> DEFINE charged == Charged(rate, gross)
           c == (charged * reserved_profit_fraction * admin_fee)
                  \div (FEE_PRECISION * FEE_PRECISION)
           dy == gross - charged
<1>9. charged \in 0 .. gross
  <2>1. (gross * rate) \div FEE_PRECISION \in 0 .. gross
    BY <1>7, <1>8, PartOfWhole, FeeAssumption
  <2>2. gross * rate = rate * gross
    BY <1>7, <1>8, FeeAssumption
  <2> QED BY <2>1, <2>2
<1>10. KeptOf(rate, gross) = Retained(balances, Only(i, dx), Only(j, dy), Only(j, c))
       /\ CutOf(rate, gross) = Only(j, c)
  OBVIOUS
<1> HIDE DEF charged
<1>11. c \in 0 .. charged
  <2>1. charged \in Nat
    BY <1>8, <1>9
  <2> QED BY <2>1, PartOfPart, FeeAssumption
<1>12. vault' = Minus(Plus(vault, Only(i, dx)), Only(j, dy))
  BY <1>6 DEF charged
<1> HIDE DEF c, dy, KeptOf, CutOf
<1>13. c \in Nat /\ dy \in Nat /\ dy + c <= balances[j]
  BY <1>3, <1>8, <1>9, <1>11 DEF dy
<1> DEFINE kept == KeptOf(rate, gross)
<1>14. /\ kept \in PairsOfNat
       /\ Minus(Plus(vault, Only(i, dx)), Only(j, dy))
            = Plus(kept, Plus(admin_balances, Only(j, c)))
       /\ Only(j, c) \in PairsOfNat
  <2>1. /\ Only(j, dy) \in PairsOfNat /\ Only(j, c) \in PairsOfNat
        /\ Only(j, dy)[j] = dy /\ Only(j, c)[j] = c
        /\ Only(j, dy)[i] = 0 /\ Only(j, c)[i] = 0
    <3>1. Other(j) = i
      BY DEF j, Other, Coin
    <3> QED BY <1>1, <1>13, <3>1, SinglePair
  <2>2. /\ Only(j, dy)[1] + Only(j, c)[1] <= balances[1] + Only(i, dx)[1]
        /\ Only(j, dy)[2] + Only(j, c)[2] <= balances[2] + Only(i, dx)[2]
    <3>1. CASE i = 1
      <4>1. j = 2
        BY <3>1 DEF j, Other
      <4> QED BY <1>1, <1>3, <1>13, <2>1, <3>1, <4>1
    <3>2. CASE i = 2
      <4>1. j = 1
        BY <3>2 DEF j, Other
      <4> QED BY <1>1, <1>3, <1>13, <2>1, <3>2, <4>1
    <3> QED BY <3>1, <3>2 DEF Coin
  <2> QED BY <1>1, <1>2, <1>10, <2>1, <2>2, RetainedCustody
<1>15. PICK D_new \in newton_D(XP(kept, cached_price_scale)),
            vp \in IF totalSupply > 0 THEN LiveVirtualPrices ELSE {virtual_price} :
         tweak_price(XP(kept, cached_price_scale), D_new,
           Book(totalSupply, donation_shares, last_donation_release_ts), vp)
  BY <1>6
<1>16. D > 0
  <2> SUFFICES ASSUME D = 0 PROVE FALSE
    BY <1>2
  <2>1. balances[j] = 0
    BY <1>1 DEF Inv, None, Coin
  <2>2. xp[j] = 0
    <3>1. j = 1 \/ j = 2
      BY <1>1 DEF Coin
    <3>2. xp[1] = offered[1] * precisions[1]
          /\ xp[2] = (offered[2] * precisions[2] * cached_price_scale) \div PRECISION
      BY <1>2, <1>3, XPType DEF xp
    <3>3. precisions[1] \in Nat /\ precisions[2] \in Nat
      BY PoolAssumption
    <3> QED BY <1>2, <1>3, <2>1, <3>1, <3>2, <3>3, PrecisionAssumption
  <2> QED BY <1>5, <1>7, <2>2
<1> DEFINE book == Book(totalSupply, donation_shares, last_donation_release_ts)
<1>17. /\ totalSupply > 0 /\ issued \in Nat /\ donation_shares \in Nat
       /\ MINIMUM_LIQUIDITY \in Nat
       /\ totalSupply = issued + donation_shares + MINIMUM_LIQUIDITY
       /\ last_donation_release_ts \in Nat
  BY <1>16, SeededPool DEF Inv, TypeOK
<1>18. /\ SoundBook(book) /\ book.shares = donation_shares
       /\ book.supply = totalSupply /\ book.release = last_donation_release_ts
  BY <1>2, <1>17 DEF SoundBook, Book
<1> HIDE DEF book, kept
<1>19. /\ UNCHANGED <<donation_protection_expiry_ts,
                      donation_protection_extension_remainder>>
       /\ UNCHANGED <<last_admin_fee_claim_timestamp, block_timestamp, issued>>
  BY DEF Exchange, protectionVars
<1>20. /\ donation_protection_expiry_ts' \in Nat
       /\ donation_protection_extension_remainder'
            \in 0 .. donation_protection_lp_threshold - 1
       /\ last_admin_fee_claim_timestamp' \in Nat
       /\ issued' \in Nat
  BY <1>19 DEF Inv, TypeOK
<1>21. D_new \in Nat
  BY NewtonNat
<1>22. SoundTweak(D_new, book, vp)
  BY <1>15, <1>18, <1>20, <1>21, TweakPriceSound DEF book
<1>23. /\ balances' \in PairsOfNat /\ admin_balances' \in PairsOfNat
       /\ vault' = Plus(balances', admin_balances')
  BY <1>2, <1>6, <1>10, <1>12, <1>14, PairArithmetic DEF kept
<1>24. issued' + book.shares + MINIMUM_LIQUIDITY = book.supply
  BY <1>17, <1>18, <1>19
<1>coins. balances'[1] > 0 /\ balances'[2] > 0
  BY <1>2, <1>6, <1>15, <1>23, TweakNeedsCoins DEF kept
<1>25. Inv'
  BY <1>18, <1>19, <1>20, <1>21, <1>22, <1>23, <1>24, <1>coins, TweakKeepsInv
<1>26. LiveVirtualPrices = {vp}
  BY <1>2, <1>15, <1>17, LiveVirtualPriceUnique
<1>in. ~PaidOut
  <2>1. vault \in PairsOfNat /\ vault[1] \in Nat /\ vault[2] \in Nat /\ dx > 0
    BY PairArithmetic DEF Exchange, Inv, TypeOK
  <2>2. Only(j, dy)[i] = 0 /\ Only(j, dy) \in PairsOfNat
    <3>1. Other(j) = i
      BY DEF j, Other, Coin
    <3> QED BY <1>1, <1>13, <3>1, SinglePair
  <2>3. Plus(vault, Only(i, dx)) \in PairsOfNat
    BY <1>1, <2>1, PairArithmetic
  <2>4. vault'[i] = vault[i] + dx
    BY <1>1, <1>12, <2>1, <2>2, <2>3, PairArithmetic DEF Coin
  <2>5. vault'[i] > vault[i]
    BY <1>1, <2>1, <2>4 DEF Coin
  <2> QED BY <2>1, <2>4, <2>5, <1>1 DEF PaidOut, Coin
<1>27. TweakedStep
  <2>1. Traded(book)
    BY <1>18, <1>19, <1>in DEF Traded
  <2> QED
    BY <1>16, <1>17, <1>18, <1>19, <1>20, <1>22, <1>24, <1>26, <2>1, OpenUnlocked
       DEF TweakedStep, ProtectionKept
<1> QED BY <1>25, <1>27

(* The preview of a fixed-out exit is a pair of balances and of amounts.   *)
LEMMA PreliminaryExitsType ==
  ASSUME Inv, NEW dD, NEW i \in Coin, NEW amount_i \in Nat,
         NEW exit \in PreliminaryExits(dD, i, amount_i)
  PROVE  /\ exit.xp \in PairsOfNat /\ exit.amounts \in PairsOfNat
         /\ amount_i * CoinScale(i) + exit.xp[i] * PRECISION
              <= XP(balances, cached_price_scale)[i] * PRECISION
<1> DEFINE j == Other(i)
           xp == XP(balances, cached_price_scale)
           taken == (amount_i * CoinScale(i) + PRECISION - 1) \div PRECISION
           xp_i == [xp EXCEPT ![i] = xp[i] - taken]
           Received(y) == IF i = 1
                            THEN (((xp[2] - y) * PRECISION) \div precisions[2])
                                   \div cached_price_scale
                            ELSE (xp[1] - y) \div precisions[1]
           Exit(y) == [xp |-> [xp_i EXCEPT ![j] = y],
                       amounts |-> Plus(Only(i, amount_i), Only(j, Received(y)))]
<1>1. /\ balances \in PairsOfNat /\ cached_price_scale \in Nat \ {0}
      /\ precisions[1] \in Nat \ {0} /\ precisions[2] \in Nat \ {0}
  BY PoolAssumption DEF Inv, TypeOK
<1>2. xp \in PairsOfNat
  BY <1>1, XPType
<1> HIDE DEF xp
<1>3. xp[1] \in Nat /\ xp[2] \in Nat
  BY <1>2, PairArithmetic
<1>4. taken \in Nat
  <2>1. CoinScale(i) \in Nat
    <3>1. PRECISION * precisions[1] \in Nat /\ cached_price_scale * precisions[2] \in Nat
      BY <1>1, MulNat, PrecisionAssumption
    <3> QED BY <3>1 DEF CoinScale
  <2>2. amount_i * CoinScale(i) \in Nat
    BY <2>1, MulNat
  <2> QED BY <2>2, DivNat, PrecisionAssumption
<1> HIDE DEF taken
<1>5. /\ ~(xp[i] < taken)
      /\ exit \in {Exit(y + 1) : y \in {z \in get_y(xp_i, D - dD, j) : z < xp[j]}}
  BY DEF PreliminaryExits, xp, taken
<1>6. PICK y \in get_y(xp_i, D - dD, j) : y < xp[j] /\ exit = Exit(y + 1)
  BY <1>5
<1>7. y \in Nat /\ y + 1 \in Nat /\ j \in Coin /\ j # i
  BY GetYNat, SinglePair
<1>8. xp_i \in PairsOfNat
  <2>1. xp[i] - taken \in Nat
    BY <1>3, <1>4, <1>5 DEF Coin
  <2> QED BY <1>2, <2>1, PairExcept
<1> HIDE DEF xp_i
<1>9. [xp_i EXCEPT ![j] = y + 1] \in PairsOfNat
  BY <1>7, <1>8, PairExcept
<1>10. Received(y + 1) \in Nat
  <2>1. CASE i = 1
    <3>1. xp[2] - (y + 1) \in Nat
      BY <1>3, <1>6, <1>7, <2>1 DEF Other
    <3>2. (xp[2] - (y + 1)) * PRECISION \in Nat
      BY <3>1, MulNat, PrecisionAssumption
    <3>3. ((xp[2] - (y + 1)) * PRECISION) \div precisions[2] \in Nat
      BY <1>1, <3>2, DivNat
    <3> QED BY <1>1, <2>1, <3>3, DivNat
  <2>2. CASE i = 2
    <3>1. xp[1] - (y + 1) \in Nat
      BY <1>3, <1>6, <1>7, <2>2 DEF Other
    <3> QED BY <1>1, <2>2, <3>1, DivNat
  <2> QED BY <2>1, <2>2 DEF Coin
<1> HIDE DEF Received
<1>11. Plus(Only(i, amount_i), Only(j, Received(y + 1))) \in PairsOfNat
  BY <1>7, <1>10, SinglePair, PairArithmetic
<1>12. amount_i * CoinScale(i) + exit.xp[i] * PRECISION <= xp[i] * PRECISION
  <2>1. exit.xp[i] = xp[i] - taken
    <3>1. /\ xp_i[i] = xp[i] - taken
          /\ [xp_i EXCEPT ![j] = y + 1][Other(j)] = xp_i[Other(j)]
      <4>1. xp[i] - taken \in Nat
        BY <1>3, <1>4, <1>5 DEF Coin
      <4>2. xp_i[i] = xp[i] - taken
        BY <1>2, <4>1, PairExcept DEF xp_i
      <4>3. [xp_i EXCEPT ![j] = y + 1][Other(j)] = xp_i[Other(j)]
        BY <1>7, <1>8, PairExcept
      <4> QED BY <4>2, <4>3
    <3>2. Other(j) = i
      BY DEF Other, Coin
    <3> QED BY <1>6, <3>1, <3>2
  <2> DEFINE worth == amount_i * CoinScale(i)
             w == worth + PRECISION - 1
  <2>2. worth \in Nat
    BY <1>1, XPWorth, MulNat
  <2>3. worth <= PRECISION * taken
    <3> HIDE DEF worth
    <3>1. w \in Nat
      BY <2>2, PrecisionAssumption
    <3> HIDE DEF w
    <3>2. w < PRECISION * (w \div PRECISION) + PRECISION
          /\ w \div PRECISION \in Nat
      BY <3>1, DivNat, PrecisionAssumption
    <3>3. taken = w \div PRECISION
      BY DEF taken, w, worth
    <3>4. PRECISION * taken \in Nat
      BY <1>4, MulNat, PrecisionAssumption
    <3> QED BY <2>2, <3>2, <3>3, <3>4, PrecisionAssumption DEF w
  <2> HIDE DEF worth
  <2>4. xp[i] \in Nat
    BY <1>3 DEF Coin
  <2>5. (xp[i] - taken) * PRECISION = xp[i] * PRECISION - PRECISION * taken
    BY <1>4, <2>4, PrecisionAssumption
  <2>6. xp[i] * PRECISION \in Nat /\ PRECISION * taken \in Nat
    BY <1>4, <2>4, MulNat, PrecisionAssumption
  <2> QED BY <2>1, <2>2, <2>3, <2>5, <2>6 DEF worth
<1> QED BY <1>6, <1>9, <1>11, <1>12 DEF xp

(* Less worth of a coin is less of the coin.                               *)
LEMMA LessWorth ==
  ASSUME NEW a \in Nat, NEW b \in Nat, NEW scale \in Nat \ {0},
         a * scale < b * scale
  PROVE  a < b
<1> SUFFICES ASSUME b <= a PROVE FALSE
  OBVIOUS
<1>1. b * scale <= a * scale
  BY MulMonotone
<1> QED BY <1>1

LEMMA RemoveLiquidityFixedOutSound ==
  ASSUME Inv, NEW burn \in FixedOuts, NEW i \in Coin, NEW min \in Minimums,
         RemoveLiquidityFixedOut(burn[1], i, burn[2], min)
  PROVE  Inv' /\ TweakedStep
<1> DEFINE token_amount == burn[1]
           amount_i == burn[2]
           j == Other(i)
           xp == XP(balances, cached_price_scale)
           dD == (token_amount * D) \div totalSupply
           dDFee(rate) == (dD * rate) \div FEE_PRECISION + 1
           DNew(rate) == D - (dD - dDFee(rate))
           TokenFee(rate) == LpFee(rate, token_amount)
           Dy(y) == ((xp[j] - (y + 1)) * PRECISION) \div CoinScale(j)
           Paid(y) == Plus(Only(i, amount_i), Only(j, Dy(y)))
           Cut(rate, y) == AdminCut(Minus(balances, Paid(y)), TokenFee(rate),
                             totalSupply - token_amount + TokenFee(rate))
           Kept(rate, y) == Retained(balances, None, Paid(y), Cut(rate, y))
           book == Book(totalSupply - token_amount, donation_shares,
                        last_donation_release_ts)
<1>1. /\ totalSupply > 0 /\ token_amount <= single_caller_lp_balance
      /\ issued' = issued - token_amount
      /\ last_admin_fee_claim_timestamp' =
           IF ClaimDue THEN block_timestamp ELSE last_admin_fee_claim_timestamp
      /\ UNCHANGED <<donation_protection_expiry_ts,
                     donation_protection_extension_remainder>>
      /\ block_timestamp' = block_timestamp
  BY DEF RemoveLiquidityFixedOut, protectionVars
<1>2. PICK exit \in PreliminaryExits(dD, i, amount_i) :
        /\ exit.amounts[1] + exit.amounts[2] > 0
        /\ \A k \in Coin : exit.amounts[k] <= balances[k]
        /\ \E rate \in calc_token_fee(exit.amounts, exit.xp,
                          Minus(balances, exit.amounts), FALSE) :
             /\ dD >= dDFee(rate)
             /\ \E y \in get_y(exit.xp, DNew(rate), j) :
                  LET xp_kept == IF ChargesAdmin
                                   THEN XP(Kept(rate, y), cached_price_scale)
                                   ELSE [exit.xp EXCEPT ![j] = y + 1]
                  IN  /\ y < xp[j]
                      /\ Dy(y) >= min
                      /\ \A k \in Coin : Paid(y)[k] <= balances[k]
                      /\ balances' = Kept(rate, y)
                      /\ admin_balances' =
                           Plus(Minus(admin_balances, Claimed), Cut(rate, y))
                      /\ vault' = Minus(Minus(vault, Paid(y)), Claimed)
                      /\ \E D_kept \in IF ChargesAdmin THEN newton_D(xp_kept)
                                                       ELSE {DNew(rate)},
                            vp \in LiveVirtualPrices :
                           tweak_price(xp_kept, D_kept, book, vp)
  BY DEF RemoveLiquidityFixedOut
<1>3. PICK rate \in calc_token_fee(exit.amounts, exit.xp,
                      Minus(balances, exit.amounts), FALSE) :
        /\ dD >= dDFee(rate)
        /\ \E y \in get_y(exit.xp, DNew(rate), j) :
             LET xp_kept == IF ChargesAdmin
                              THEN XP(Kept(rate, y), cached_price_scale)
                              ELSE [exit.xp EXCEPT ![j] = y + 1]
             IN  /\ y < xp[j]
                 /\ \A k \in Coin : Paid(y)[k] <= balances[k]
                 /\ balances' = Kept(rate, y)
                 /\ admin_balances' =
                      Plus(Minus(admin_balances, Claimed), Cut(rate, y))
                 /\ vault' = Minus(Minus(vault, Paid(y)), Claimed)
                 /\ \E D_kept \in IF ChargesAdmin THEN newton_D(xp_kept)
                                                  ELSE {DNew(rate)},
                       vp \in LiveVirtualPrices :
                      tweak_price(xp_kept, D_kept, book, vp)
  BY <1>2
<1>4. PICK y \in get_y(exit.xp, DNew(rate), j) :
        LET xp_kept == IF ChargesAdmin
                         THEN XP(Kept(rate, y), cached_price_scale)
                         ELSE [exit.xp EXCEPT ![j] = y + 1]
        IN  /\ y < xp[j]
            /\ \A k \in Coin : Paid(y)[k] <= balances[k]
            /\ balances' = Kept(rate, y)
            /\ admin_balances' =
                 Plus(Minus(admin_balances, Claimed), Cut(rate, y))
            /\ vault' = Minus(Minus(vault, Paid(y)), Claimed)
            /\ \E D_kept \in IF ChargesAdmin THEN newton_D(xp_kept)
                                             ELSE {DNew(rate)},
                  vp \in LiveVirtualPrices :
                 tweak_price(xp_kept, D_kept, book, vp)
  BY <1>3
<1> DEFINE kept == Kept(rate, y)
           xp_kept == IF ChargesAdmin THEN XP(kept, cached_price_scale)
                                      ELSE [exit.xp EXCEPT ![j] = y + 1]
           paid == Paid(y)
           cut == Cut(rate, y)
           D_new == DNew(rate)
<1>5. PICK D_kept \in IF ChargesAdmin THEN newton_D(xp_kept) ELSE {D_new},
           vp \in LiveVirtualPrices :
        tweak_price(xp_kept, D_kept, book, vp)
  BY <1>4
<1>6. /\ y < xp[j]
      /\ paid[1] <= balances[1] /\ paid[2] <= balances[2]
      /\ balances' = kept
      /\ admin_balances' = Plus(Minus(admin_balances, Claimed), cut)
      /\ vault' = Minus(Minus(vault, paid), Claimed)
  BY <1>4 DEF Coin
<1>7. /\ burn \in Nat \X Nat /\ token_amount \in Nat /\ amount_i \in Nat
      /\ balances \in PairsOfNat /\ admin_balances \in PairsOfNat
      /\ vault = Plus(balances, admin_balances)
      /\ cached_price_scale \in Nat \ {0} /\ block_timestamp \in Nat
      /\ donation_protection_expiry_ts \in Nat
      /\ last_admin_fee_claim_timestamp \in Nat
      /\ last_donation_release_ts \in Nat
  BY InputAssumption DEF Inv, TypeOK, Custody
<1> HIDE DEF token_amount, amount_i
<1>8. /\ D \in Nat /\ D > 0 /\ totalSupply \in Nat \ {0} /\ issued \in Nat
      /\ donation_shares \in Nat /\ MINIMUM_LIQUIDITY \in Nat
      /\ totalSupply = issued + donation_shares + MINIMUM_LIQUIDITY
  BY <1>1, SeededPool
<1>9. token_amount <= issued
  BY <1>1, <1>7, <1>8 DEF single_caller_lp_balance, MaxOf
<1>10. exit.xp \in PairsOfNat /\ exit.amounts \in PairsOfNat
  BY <1>7, PreliminaryExitsType
<1>11. rate \in Nat
  <2>1. Minus(balances, exit.amounts) \in PairsOfNat
    BY <1>2, <1>7, <1>10, PairArithmetic DEF Coin
  <2> QED BY <1>7, <1>8, <1>10, <2>1, CalcTokenFeeNat
<1>12. dD \in 0 .. D
  <2>1. (D * token_amount) \div totalSupply \in 0 .. D
    <3>1. token_amount \in 0 .. totalSupply
      BY <1>7, <1>8, <1>9
    <3> QED BY <1>8, <3>1, PartOfWhole
  <2>2. D * token_amount = token_amount * D
    BY <1>7, <1>8
  <2> QED BY <2>1, <2>2
<1> HIDE DEF dD
<1>13. D_new \in Nat
  <2>1. dD * rate \in Nat
    BY <1>8, <1>11, <1>12, MulNat
  <2>2. dDFee(rate) \in Nat /\ dD >= dDFee(rate)
    BY <1>3, <2>1, DivNat, FeeAssumption
  <2> HIDE DEF dDFee
  <2> QED BY <1>8, <1>12, <2>2
<1> HIDE DEF D_new
<1>14. TokenFee(rate) \in Nat
       /\ totalSupply - token_amount + TokenFee(rate) \in Nat
       /\ TokenFee(rate) <= totalSupply - token_amount + TokenFee(rate)
  <2>1. rate * token_amount \in Nat
    BY <1>7, <1>11, MulNat
  <2>2. TokenFee(rate) \in Nat
    BY <2>1, DivNat, FeeAssumption DEF LpFee
  <2> HIDE DEF TokenFee
  <2> QED BY <1>7, <1>8, <1>9, <2>2
<1>15. paid \in PairsOfNat
  <2>1. y \in Nat /\ j \in Coin /\ xp[1] \in Nat /\ xp[2] \in Nat
    BY <1>7, GetYNat, SinglePair, XPType, PairArithmetic
  <2>2. xp[j] - (y + 1) \in Nat
    BY <1>6, <2>1 DEF Coin
  <2>3. CoinScale(j) \in Nat \ {0}
    <3>1. precisions[1] \in Nat \ {0} /\ precisions[2] \in Nat \ {0}
      BY PoolAssumption
    <3>2. PRECISION * precisions[1] \in Nat \ {0}
          /\ cached_price_scale * precisions[2] \in Nat \ {0}
      BY <1>7, <3>1, MulPositive, PrecisionAssumption
    <3> QED BY <3>2 DEF CoinScale
  <2>4. (xp[j] - (y + 1)) * PRECISION \in Nat
    BY <2>2, MulNat, PrecisionAssumption
  <2>5. Dy(y) \in Nat
    BY <2>3, <2>4, DivNat
  <2> HIDE DEF Dy
  <2>6. Only(i, amount_i) \in PairsOfNat /\ Only(j, Dy(y)) \in PairsOfNat
    BY <1>7, <2>1, <2>5, SinglePair
  <2> QED BY <2>6, PairArithmetic
<1> DEFINE rest == Minus(balances, paid)
<1>16. rest \in PairsOfNat /\ rest[1] = balances[1] - paid[1]
       /\ rest[2] = balances[2] - paid[2]
       /\ balances[1] \in Nat /\ balances[2] \in Nat
       /\ paid[1] \in Nat /\ paid[2] \in Nat
  <2> HIDE DEF paid
  <2> QED BY <1>6, <1>7, <1>15, PairArithmetic
<1>17. cut \in PairsOfNat /\ cut[1] <= rest[1] /\ cut[2] <= rest[2]
  <2>1. cut = AdminCut(rest, TokenFee(rate), totalSupply - token_amount + TokenFee(rate))
    OBVIOUS
  <2> HIDE DEF cut, rest, TokenFee
  <2> QED BY <1>14, <1>16, <2>1, AdminCutBounded DEF Coin
<1>18. kept = Retained(balances, None, paid, cut)
  OBVIOUS
<1> HIDE DEF cut, paid, kept, rest
<1> DEFINE left == Minus(admin_balances, Claimed)
<1>19. /\ left \in PairsOfNat /\ Claimed \in PairsOfNat /\ None \in PairsOfNat
       /\ Claimed[1] <= admin_balances[1] /\ Claimed[2] <= admin_balances[2]
       /\ admin_balances[1] \in Nat /\ admin_balances[2] \in Nat
       /\ None[1] = 0 /\ None[2] = 0
  BY <1>7 DEF Claimed, None, PairsOfNat, Minus
<1>20. /\ kept \in PairsOfNat
       /\ Minus(Plus(Plus(balances, left), None), paid) = Plus(kept, Plus(left, cut))
  <2>1. /\ paid[1] + cut[1] <= balances[1] + None[1]
        /\ paid[2] + cut[2] <= balances[2] + None[2]
    <3>1. cut[1] \in Nat /\ cut[2] \in Nat
      BY <1>17, PairArithmetic
    <3> QED BY <1>16, <1>17, <1>19, <3>1
  <2>2. balances \in PairsOfNat
    BY <1>7
  <2>3. cut \in PairsOfNat
    BY <1>17
  <2>4. left \in PairsOfNat /\ None \in PairsOfNat
    BY <1>19
  <2> HIDE DEF left
  <2>5. /\ Retained(balances, None, paid, cut) \in PairsOfNat
        /\ Minus(Plus(Plus(balances, left), None), paid)
             = Plus(Retained(balances, None, paid, cut), Plus(left, cut))
    BY <1>15, <2>1, <2>2, <2>3, <2>4, RetainedCustody
  <2> QED BY <1>18, <2>5
<1>21. /\ balances' \in PairsOfNat /\ admin_balances' \in PairsOfNat
       /\ vault' = Plus(balances', admin_balances')
  <2>1. balances' = kept /\ admin_balances' = Plus(left, cut)
    BY <1>6
  <2>2. Minus(Minus(vault, paid), Claimed)
          = Minus(Plus(Plus(balances, left), None), paid)
    BY <1>7, <1>15, <1>16, <1>19 DEF Plus, Minus, None, PairsOfNat
  <2>3. Plus(left, cut) \in PairsOfNat
    BY <1>17, <1>19, PairArithmetic
  <2> QED BY <1>6, <1>20, <2>1, <2>2, <2>3
<1>22. /\ SoundBook(book) /\ book.shares = donation_shares
       /\ book.supply = totalSupply - token_amount
       /\ book.release = last_donation_release_ts
  BY <1>7, <1>8, <1>9 DEF SoundBook, Book
<1> HIDE DEF book, xp_kept
<1>23. D_kept \in Nat
  BY <1>13, NewtonNat
<1>24. /\ donation_protection_expiry_ts' \in Nat
       /\ donation_protection_extension_remainder'
            \in 0 .. donation_protection_lp_threshold - 1
       /\ last_admin_fee_claim_timestamp' \in Nat
       /\ issued' \in Nat
  BY <1>1, <1>7, <1>8, <1>9 DEF Inv, TypeOK
<1>25. SoundTweak(D_kept, book, vp)
  BY <1>5, <1>22, <1>23, <1>24, TweakPriceSound
<1>26. issued' + book.shares + MINIMUM_LIQUIDITY = book.supply
  BY <1>1, <1>7, <1>8, <1>22
<1>coins. balances'[1] > 0 /\ balances'[2] > 0
  <2>1. CASE ChargesAdmin
    <3>1. tweak_price(XP(kept, cached_price_scale), D_kept, book, vp)
      BY <1>5, <2>1 DEF xp_kept
    <3> QED BY <1>6, <1>7, <1>20, <3>1, TweakNeedsCoins
  <2>2. CASE ~ChargesAdmin
    <3>1. j \in Coin /\ j # i /\ y \in Nat
      BY GetYNat, SinglePair
    <3>2. exit.xp[i] > 0 /\ exit.xp[i] \in Nat
      <4>1. xp_kept[i] > 0
        BY <1>5, GetPNat DEF tweak_price, Coin
      <4>2. xp_kept = [exit.xp EXCEPT ![j] = y + 1]
        BY <2>2 DEF xp_kept
      <4>3. [exit.xp EXCEPT ![j] = y + 1][Other(j)] = exit.xp[Other(j)]
        <5> DEFINE pair == exit.xp
                   z == y + 1
        <5>1. pair \in PairsOfNat /\ z \in Nat
          BY <1>10, <3>1
        <5> HIDE DEF pair, z, j
        <5>2. [pair EXCEPT ![j] = z][Other(j)] = pair[Other(j)]
          BY <3>1, <5>1, PairExcept
        <5> QED BY <5>2 DEF pair, z
      <4>4. Other(j) = i
        BY DEF Other, Coin
      <4>5. exit.xp[i] \in Nat
        BY <1>10, PairArithmetic DEF Coin
      <4> QED BY <4>1, <4>2, <4>3, <4>4, <4>5
    <3>3. \A k \in Coin :
            /\ xp[k] \in Nat /\ CoinScale(k) \in Nat \ {0}
            /\ xp[k] * PRECISION <= balances[k] * CoinScale(k)
            /\ balances[k] \in Nat /\ balances[k] * CoinScale(k) \in Nat
            /\ xp[k] * PRECISION \in Nat
      <4> SUFFICES ASSUME NEW k \in Coin
                   PROVE  /\ xp[k] \in Nat /\ CoinScale(k) \in Nat \ {0}
                          /\ xp[k] * PRECISION <= balances[k] * CoinScale(k)
                          /\ balances[k] \in Nat
                          /\ balances[k] * CoinScale(k) \in Nat
                          /\ xp[k] * PRECISION \in Nat
        OBVIOUS
      <4>1. /\ xp[k] \in Nat /\ CoinScale(k) \in Nat \ {0}
            /\ xp[k] * PRECISION <= balances[k] * CoinScale(k)
        BY <1>7, XPWorth
      <4>2. balances[k] \in Nat
        BY <1>16 DEF Coin
      <4> HIDE DEF xp
      <4> QED BY <4>1, <4>2, MulNat, PrecisionAssumption
    <3>4. amount_i < balances[i]
      <4>1. amount_i * CoinScale(i) + exit.xp[i] * PRECISION <= xp[i] * PRECISION
        BY <1>7, PreliminaryExitsType
      <4> HIDE DEF xp
      <4>2. exit.xp[i] * PRECISION \in Nat \ {0}
        BY <3>2, MulPositive, PrecisionAssumption
      <4>3. amount_i * CoinScale(i) \in Nat
        BY <1>7, <3>3, MulNat
      <4>4. amount_i * CoinScale(i) < balances[i] * CoinScale(i)
        BY <3>3, <4>1, <4>2, <4>3
      <4> QED BY <1>7, <3>3, <4>4, LessWorth
    <3>5. Dy(y) \in Nat /\ Dy(y) < balances[j]
      <4> DEFINE gap == xp[j] - (y + 1)
      <4>1. gap \in Nat /\ gap < xp[j]
        BY <1>6, <3>1, <3>3
      <4> HIDE DEF gap
      <4>2. gap * PRECISION \in Nat /\ gap * PRECISION < xp[j] * PRECISION
        <5>1. (gap + 1) * PRECISION <= xp[j] * PRECISION
          BY <3>1, <3>3, <4>1, MulMonotone, PrecisionAssumption
        <5>2. (gap + 1) * PRECISION = gap * PRECISION + PRECISION
          BY <4>1, PrecisionAssumption
        <5>3. gap * PRECISION \in Nat
          BY <4>1, MulNat, PrecisionAssumption
        <5> HIDE DEF xp
        <5> QED BY <3>1, <3>3, <5>1, <5>2, <5>3, PrecisionAssumption
      <4>3. Dy(y) = (gap * PRECISION) \div CoinScale(j)
        BY DEF gap
      <4> HIDE DEF Dy, xp
      <4>4. Dy(y) \in Nat /\ CoinScale(j) * Dy(y) <= gap * PRECISION
        BY <3>1, <3>3, <4>2, <4>3, DivNat
      <4>5. CoinScale(j) * Dy(y) = Dy(y) * CoinScale(j)
            /\ Dy(y) * CoinScale(j) \in Nat
        BY <3>1, <3>3, <4>4, MulNat
      <4>6. Dy(y) * CoinScale(j) < balances[j] * CoinScale(j)
        BY <3>1, <3>3, <4>2, <4>4, <4>5
      <4> QED BY <3>1, <3>3, <4>4, <4>6, LessWorth
    <3>6. cut = None
      <4> DEFINE f == TokenFee(rate)
      <4>1. f * reserved_profit_fraction * admin_fee = 0
        <5>1. reserved_profit_fraction = 0 \/ admin_fee = 0
          BY <2>2, FeeAssumption DEF ChargesAdmin
        <5>2. f \in Nat
          BY <1>14
        <5> HIDE DEF f
        <5>3. CASE reserved_profit_fraction = 0
          BY <5>2, <5>3, FeeAssumption
        <5>4. CASE admin_fee = 0
          <6>1. f * reserved_profit_fraction \in Nat
            BY <5>2, MulNat, FeeAssumption
          <6> QED BY <5>4, <6>1
        <5> QED BY <5>1, <5>3, <5>4
      <4>2. FEE_PRECISION * FEE_PRECISION \in Nat \ {0}
        BY MulPositive, FeeAssumption
      <4>3. 0 \div (FEE_PRECISION * FEE_PRECISION) = 0
        BY <4>2
      <4> QED BY <4>1, <4>3 DEF cut, AdminCut
    <3>7. /\ paid[i] = amount_i /\ paid[j] = Dy(y)
      <4> HIDE DEF Dy
      <4>1. /\ Only(i, amount_i)[i] = amount_i /\ Only(i, amount_i)[j] = 0
            /\ Only(j, Dy(y))[j] = Dy(y) /\ Only(j, Dy(y))[i] = 0
        <5>1. Other(j) = i
          BY DEF Other, Coin
        <5> QED BY <1>7, <3>1, <3>5, <5>1, SinglePair
      <4>2. \A k \in Coin : paid[k] = Only(i, amount_i)[k] + Only(j, Dy(y))[k]
        BY DEF paid, Plus, Coin
      <4> QED BY <1>7, <3>1, <3>5, <4>1, <4>2
    <3>8. \A k \in Coin : kept[k] = balances[k] - paid[k]
      BY <1>16, <1>18, <1>19, <3>6 DEF Retained, Plus, Minus, Coin
    <3>9. kept[i] > 0 /\ kept[j] > 0
      <4> HIDE DEF Dy
      <4> QED BY <1>7, <3>1, <3>3, <3>4, <3>5, <3>7, <3>8
    <3> QED BY <1>6, <3>1, <3>9 DEF Coin
  <2> QED BY <2>1, <2>2
<1>27. Inv'
  BY <1>1, <1>21, <1>22, <1>23, <1>24, <1>25, <1>26, <1>coins, TweakKeepsInv
<1>out. Withdrew(book)
  <2>1. token_amount > 0
    <3> SUFFICES ASSUME token_amount = 0 PROVE FALSE
      BY <1>7
    <3>1. dD = 0
      BY <1>8 DEF dD
    <3>2. dDFee(rate) = 1
      BY <1>11, <3>1, FeeAssumption
    <3> QED BY <1>3, <3>1, <3>2
  <2>2. PaidOut
    <3>1. /\ vault'[1] = vault[1] - paid[1] - Claimed[1]
          /\ vault'[2] = vault[2] - paid[2] - Claimed[2]
      BY <1>6 DEF Minus
    <3>2. vault[1] \in Nat /\ vault[2] \in Nat
      BY PairArithmetic DEF Inv, TypeOK
    <3>3. Claimed[1] \in Nat /\ Claimed[2] \in Nat
      BY <1>19, PairArithmetic
    <3> QED BY <1>16, <3>1, <3>2, <3>3 DEF PaidOut
  <2> QED BY <1>1, <1>7, <1>8, <1>9, <1>22, <2>1, <2>2 DEF Withdrew
<1>28. LiveVirtualPrices = {vp}
  BY <1>8, LiveVirtualPriceUnique
<1>29. TweakedStep
  BY <1>1, <1>8, <1>22, <1>24, <1>25, <1>26, <1>28, <1>out, OpenUnlocked
     DEF TweakedStep, ProtectionKept
<1> QED BY <1>27, <1>29

(* A tick passes the ledger on as it found it.                             *)
LEMMA TickSound ==
  ASSUME Inv, Tick
  PROVE  Inv' /\ TweakedStep
<1>1. PICK vp \in LiveVirtualPrices : tweak_price(CurrentXP, D, CurrentBook, vp)
  BY DEF Tick
<1>2. /\ balances' = balances /\ admin_balances' = admin_balances
      /\ last_admin_fee_claim_timestamp' = last_admin_fee_claim_timestamp
      /\ block_timestamp' = block_timestamp
      /\ vault' = vault /\ issued' = issued
      /\ donation_protection_expiry_ts' = donation_protection_expiry_ts
      /\ donation_protection_extension_remainder'
           = donation_protection_extension_remainder
  BY DEF Tick, adminVars, historyVars, protectionVars
<1>3. D > 0
  <2> SUFFICES ASSUME D = 0 PROVE FALSE
    BY SeededPool
  <2>1. balances \in PairsOfNat /\ cached_price_scale \in Nat /\ balances[1] = 0
    BY DEF Inv, TypeOK, None
  <2>2. CurrentXP[1] = 0
    <3>1. CurrentXP[1] = balances[1] * precisions[1]
      BY <2>1, XPType DEF CurrentXP
    <3>2. precisions[1] \in Nat
      BY PoolAssumption
    <3> QED BY <2>1, <3>1, <3>2
  <2>3. \E p \in get_p(CurrentXP, D) : TRUE
    BY <1>1 DEF tweak_price
  <2> QED BY <2>2, <2>3, GetPNat
<1>4. /\ D \in Nat /\ totalSupply \in Nat /\ issued \in Nat
      /\ donation_shares \in Nat /\ last_donation_release_ts \in Nat
      /\ MINIMUM_LIQUIDITY \in Nat
      /\ totalSupply = issued + donation_shares + MINIMUM_LIQUIDITY
  BY <1>3, SeededPool DEF Inv, TypeOK
<1>5. /\ SoundBook(CurrentBook) /\ CurrentBook.shares = donation_shares
      /\ CurrentBook.supply = totalSupply
      /\ CurrentBook.release = last_donation_release_ts
  BY <1>4 DEF SoundBook, CurrentBook, Book
<1> DEFINE book == CurrentBook
<1> HIDE DEF book
<1>6. /\ balances' \in PairsOfNat /\ admin_balances' \in PairsOfNat
      /\ vault' = Plus(balances', admin_balances')
      /\ last_admin_fee_claim_timestamp' \in Nat
      /\ donation_protection_expiry_ts' \in Nat
      /\ donation_protection_extension_remainder'
           \in 0 .. donation_protection_lp_threshold - 1
      /\ issued' \in Nat
  BY <1>2 DEF Inv, TypeOK, Custody
<1>7. SoundTweak(D, CurrentBook, vp)
  BY <1>1, <1>4, <1>5, <1>6, TweakPriceSound
<1>8. issued' + CurrentBook.shares + MINIMUM_LIQUIDITY = CurrentBook.supply
  BY <1>2, <1>4, <1>5
<1>coins. balances'[1] > 0 /\ balances'[2] > 0
  BY <1>2, <1>3 DEF Inv
<1>9. Inv'
  BY <1>2, <1>4, <1>5, <1>6, <1>7, <1>8, <1>coins, TweakKeepsInv
<1>10. LiveVirtualPrices = {vp}
  BY <1>4, LiveVirtualPriceUnique
<1>11. UnlockedShares(donation_shares, last_donation_release_ts) \in Nat
  BY OpenUnlocked
<1>12. TweakedStep
  <2>1. Ticked(D, CurrentBook)
    BY <1>2, <1>5 DEF Ticked
  <2> QED
    BY <1>2, <1>3, <1>4, <1>5, <1>6, <1>7, <1>8, <1>10, <1>11, <2>1
       DEF TweakedStep, ProtectionKept
<1> QED BY <1>9, <1>12

-----------------------------------------------------------------------------
(* The other kinds of step: a first deposit, a proportional exit, and one  *)
(* that at most moves the clocks.                                          *)

FirstDepositStep ==
  /\ D = 0 /\ totalSupply = 0
  /\ LiveVirtualPrices' = {virtual_price'}
  /\ PaidIn /\ single_caller_lp_balance' > 0
  /\ virtual_price' = PRECISION /\ lp_xcp_profit' = PRECISION
  /\ UNCHANGED <<priceVars, donationVars, protectionVars, block_timestamp>>

ExitStep ==
  /\ D > 0
  /\ \E amount \in 0 .. totalSupply - 1 :
       /\ D' = D - (D * amount) \div totalSupply
       /\ totalSupply' = totalSupply - amount
  /\ PaidOut
  /\ UNCHANGED <<priceVars, profitVars, donationVars, protectionVars,
                 block_timestamp>>

ClockStep ==
  /\ UNCHANGED <<D, totalSupply, cached_price_scale, cached_price_oracle,
                 last_prices, profitVars, donationVars, protectionVars, vault>>
  /\ totalSupply > 0 => last_timestamp' = last_timestamp
  /\ last_timestamp' = last_timestamp \/ last_timestamp' = block_timestamp'

LEMMA ClockSound ==
  ASSUME Inv, NEW ts \in Nat, ts >= donation_duration, SetBlockTimestamp(ts)
  PROVE  Inv' /\ ClockStep
<1>1. /\ block_timestamp' = ts
      /\ last_timestamp' = IF D = 0 /\ totalSupply = 0 THEN ts ELSE last_timestamp
      /\ UNCHANGED <<balances, D, totalSupply, cached_price_scale,
                     cached_price_oracle, last_prices>>
      /\ UNCHANGED <<xcp_profit, lp_xcp_profit, virtual_price>>
      /\ UNCHANGED <<admin_balances, last_admin_fee_claim_timestamp>>
      /\ UNCHANGED <<donation_shares, last_donation_release_ts>>
      /\ UNCHANGED <<donation_protection_expiry_ts,
                     donation_protection_extension_remainder>>
      /\ UNCHANGED <<vault, issued>>
  BY DEF SetBlockTimestamp, profitVars, adminVars, donationVars,
         protectionVars, historyVars
<1>2. TypeOK'
  BY <1>1 DEF Inv, TypeOK
<1>3. SharesAccounted' /\ ProfitReserved' /\ Custody'
  BY <1>1 DEF Inv, SharesAccounted, ProfitReserved, Custody
<1>4. Inv'
  BY <1>1, <1>2, <1>3 DEF Inv
<1>5. ClockStep
  BY <1>1, SeededPool DEF ClockStep, profitVars, donationVars, protectionVars
<1> QED BY <1>4, <1>5

LEMMA AdvanceTimeSound ==
  ASSUME Inv, NEW s \in Seconds, AdvanceTime(s)
  PROVE  Inv' /\ ClockStep
<1>1. block_timestamp \in Nat /\ block_timestamp >= donation_duration /\ s \in Nat
  BY InputAssumption DEF Inv, TypeOK
<1>2. block_timestamp + s \in Nat /\ block_timestamp + s >= donation_duration
  BY <1>1, DonationAssumption
<1> QED BY <1>2, ClockSound DEF AdvanceTime

LEMMA StutterSound ==
  ASSUME Inv, UNCHANGED vars
  PROVE  Inv' /\ ClockStep
<1>1. /\ UNCHANGED <<balances, D, totalSupply, block_timestamp>>
      /\ UNCHANGED <<cached_price_scale, cached_price_oracle, last_prices,
                     last_timestamp>>
      /\ UNCHANGED <<xcp_profit, lp_xcp_profit, virtual_price>>
      /\ UNCHANGED <<admin_balances, last_admin_fee_claim_timestamp>>
      /\ UNCHANGED <<donation_shares, last_donation_release_ts>>
      /\ UNCHANGED <<donation_protection_expiry_ts,
                     donation_protection_extension_remainder>>
      /\ UNCHANGED <<vault, issued>>
  BY DEF vars, priceVars, profitVars, adminVars, donationVars, protectionVars,
         historyVars
<1>2. TypeOK'
  BY <1>1 DEF Inv, TypeOK
<1>3. SharesAccounted' /\ ProfitReserved' /\ Custody'
  BY <1>1 DEF Inv, SharesAccounted, ProfitReserved, Custody
<1>4. Inv'
  BY <1>1, <1>2, <1>3 DEF Inv
<1>5. ClockStep
  BY <1>1 DEF ClockStep, profitVars, donationVars, protectionVars
<1> QED BY <1>4, <1>5

(* Every step keeps the invariant and is of one of the four kinds.         *)
LEMMA StepSound ==
  ASSUME Inv, [Next]_vars
  PROVE  /\ Inv'
         /\ TweakedStep \/ FirstDepositStep \/ ExitStep \/ ClockStep
<1>1. ASSUME NEW amounts \in Seeds, NEW min \in Minimums,
             InitialDeposit(amounts, min)
      PROVE  Inv' /\ FirstDepositStep
  <2>1. /\ Inv' /\ LiveVirtualPrices' = {virtual_price'} /\ D = 0
        /\ PaidIn /\ single_caller_lp_balance' > 0
        /\ virtual_price' = PRECISION /\ lp_xcp_profit' = PRECISION
    BY <1>1, InitialDepositInv
  <2>2. totalSupply = 0
    BY <2>1 DEF Inv, SharesAccounted
  <2> QED BY <1>1, <2>1, <2>2 DEF FirstDepositStep, InitialDeposit
<1>2. ASSUME NEW amounts \in Deposits, NEW min \in Minimums,
             AddLiquidity(amounts, min)
      PROVE  Inv' /\ TweakedStep
  BY <1>2, AddLiquiditySound
<1>3. ASSUME NEW amounts \in Donations, NEW min \in Minimums,
             Donate(amounts, min)
      PROVE  Inv' /\ TweakedStep
  BY <1>3, DonateSound
<1>4. ASSUME NEW amount \in Burns, NEW min \in Minimums,
             RemoveLiquidity(amount, min)
      PROVE  Inv' /\ ExitStep
  <2>1. /\ Inv' /\ D > 0 /\ amount \in 0 .. totalSupply - 1
        /\ D' = D - (D * amount) \div totalSupply
        /\ totalSupply' = totalSupply - amount
        /\ PaidOut
    BY <1>4, RemoveLiquidityInv
  <2>2. UNCHANGED <<priceVars, profitVars, donationVars, protectionVars,
                    block_timestamp>>
    BY <1>4 DEF RemoveLiquidity
  <2> QED BY <2>1, <2>2 DEF ExitStep
<1>5. ASSUME NEW burn \in FixedOuts, NEW i \in Coin, NEW min \in Minimums,
             RemoveLiquidityFixedOut(burn[1], i, burn[2], min)
      PROVE  Inv' /\ TweakedStep
  BY <1>5, RemoveLiquidityFixedOutSound
<1>6. ASSUME NEW i \in Coin, NEW dx \in Trades, NEW min \in Minimums,
             Exchange(i, dx, min)
      PROVE  Inv' /\ TweakedStep
  BY <1>6, ExchangeSound
<1>7. ASSUME Tick PROVE Inv' /\ TweakedStep
  BY <1>7, TickSound
<1>8. ASSUME NEW s \in Seconds, AdvanceTime(s) PROVE Inv' /\ ClockStep
  BY <1>8, AdvanceTimeSound
<1>9. ASSUME NEW ts \in Timestamps, SetBlockTimestamp(ts)
      PROVE  Inv' /\ ClockStep
  <2>1. ts \in Nat /\ ts >= donation_duration
    BY InputAssumption
  <2> QED BY <1>9, <2>1, ClockSound
<1>10. ASSUME UNCHANGED vars PROVE Inv' /\ ClockStep
  BY <1>10, StutterSound
<1> QED
  BY <1>1, <1>2, <1>3, <1>4, <1>5, <1>6, <1>7, <1>8, <1>9, <1>10 DEF Next

-----------------------------------------------------------------------------
(* The invariants.                                                         *)

(* Inv holds in every state the pool reaches by calls that succeed.        *)
THEOREM Invariance == Spec => []Inv
<1>1. Inv /\ [Next]_vars => Inv'
  BY StepSound
<1> QED BY <1>1, InitInv, PTL DEF Spec

(* Every field of the pool stays a number of its range: no subtraction of  *)
(* add_liquidity, remove_liquidity_fixed_out, exchange or tweak_price goes *)
(* below zero.                                                             *)
THEOREM TypeCorrect == Spec => []TypeOK
<1>1. Inv => TypeOK
  BY DEF Inv
<1> QED BY <1>1, Invariance, PTL

(* single_caller_lp_balance, which the code derives from the supply, is    *)
(* what the caller was given and has not returned.                         *)
THEOREM SharesAreAccounted == Spec => []SharesAccounted
<1>1. Inv => SharesAccounted
  BY DEF Inv
<1> QED BY <1>1, Invariance, PTL

(* balances and admin_balances hold exactly what was paid in and not out,  *)
(* through every fee cut and claim.                                        *)
THEOREM TokensConserved == Spec => []Custody
<1>1. Inv => Custody
  BY DEF Inv
<1> QED BY <1>1, Invariance, PTL

LEMMA CoveredProfitIsProtected ==
  ASSUME Inv, ProfitCovered PROVE LPProfitProtected
BY DEF Inv, ProfitReserved, ProfitCovered, LPProfitProtected

LEMMA ProfitStaysCovered ==
  ASSUME Inv, ProfitCovered, [Next]_vars PROVE ProfitCovered'
<1>1. TweakedStep => ProfitCovered'
  BY DEF TweakedStep, SoundTweak
<1>2. FirstDepositStep => ProfitCovered'
  BY PrecisionAssumption DEF FirstDepositStep, ProfitCovered
<1>3. ExitStep \/ ClockStep => ProfitCovered'
  BY DEF ExitStep, ClockStep, profitVars, ProfitCovered
<1> QED BY <1>1, <1>2, <1>3, StepSound

THEOREM ProfitInvariance == Spec => []ProfitCovered
<1>1. Init => ProfitCovered
  BY PrecisionAssumption DEF Init, ProfitCovered
<1>2. Inv /\ ProfitCovered /\ [Next]_vars => ProfitCovered'
  BY ProfitStaysCovered
<1> QED BY <1>1, <1>2, Invariance, PTL DEF Spec

(* tweak_price never lets a rebalance spend the profit reserved for LPs.   *)
THEOREM ProfitIsProtected == Spec => []LPProfitProtected
<1>1. Inv /\ ProfitCovered => LPProfitProtected
  BY CoveredProfitIsProtected
<1> QED BY <1>1, Invariance, ProfitInvariance, PTL

(* The bound that pre-filters trades never exceeds the fee of the state a  *)
(* trade led to, whichever of the two fees is higher.                      *)
FeeAboveLowerBound == D > 0 => \A rate \in fee(CurrentXP) : rate >= fee_lower_bound

LEMMA FeeOfReachable == Inv => FeeAboveLowerBound
<1>1. Inv => CurrentXP \in PairsOfNat
  BY XPType DEF Inv, TypeOK, CurrentXP
<1> QED BY <1>1, FeeBounded DEF FeeAboveLowerBound

(* fee_lower_bound, by which the harness skips trades, bounds the fee of   *)
(* every balance the pool reaches.                                         *)
THEOREM FeeBoundedBelow == Spec => []FeeAboveLowerBound
BY FeeOfReachable, Invariance, PTL

-----------------------------------------------------------------------------
(* What a step may never do.  Each property of a step has a name, a lemma  *)
(* that every call of a pool in Inv has it, and the theorem; the pools of  *)
(* RawSpec and CheckpointSpec below use the lemmas.                        *)

(* Who leaves takes no more than their part of D.                          *)
LEMMA ExitKeepsWorth ==
  ASSUME NEW d \in Nat, NEW supply \in Nat \ {0}, NEW amount \in 0 .. supply
  PROVE  /\ d - (d * amount) \div supply \in Nat
         /\ (d - (d * amount) \div supply) * supply >= d * (supply - amount)
<1> DEFINE q == (d * amount) \div supply
<1>1. q \in 0 .. d
  BY PartOfWhole
<1>2. d * amount \in Nat
  BY MulNat
<1>3. supply * q <= d * amount
  BY <1>2, DivNat
<1> HIDE DEF q
<1>4. /\ (d - q) * supply = d * supply - supply * q
      /\ d * (supply - amount) = d * supply - d * amount
  BY <1>1
<1>5. d * supply \in Nat /\ supply * q \in Nat
  BY <1>1, MulNat
<1> QED BY <1>1, <1>2, <1>3, <1>4, <1>5 DEF q

Undiluted ==
  totalSupply > 0 /\ cached_price_scale' = cached_price_scale
    => \/ D' * totalSupply >= D * totalSupply'
       \/ \A before \in LiveVirtualPrices, after \in LiveVirtualPrices' :
            after >= before

LEMMA UndilutedStep == Inv /\ [Next]_vars => Undiluted
<1>1. ASSUME Inv, [Next]_vars PROVE Undiluted
  <2> SUFFICES ASSUME totalSupply > 0, cached_price_scale' = cached_price_scale
               PROVE  \/ D' * totalSupply >= D * totalSupply'
                      \/ \A before \in LiveVirtualPrices,
                            after \in LiveVirtualPrices' : after >= before
    BY DEF Undiluted
  <2>1. CASE TweakedStep
    <3>1. PICK D_, book, vp :
            LiveVirtualPrices = {vp} /\ SoundTweak(D_, book, vp)
      BY <2>1 DEF TweakedStep
    <3>2. virtual_price' >= vp
      BY <3>1 DEF SoundTweak
    <3>3. LiveVirtualPrices' = {virtual_price'}
      BY <3>1 DEF SoundTweak
    <3> QED BY <3>1, <3>2, <3>3
  <2>2. CASE ExitStep
    <3>1. PICK amount \in 0 .. totalSupply - 1 :
            /\ D' = D - (D * amount) \div totalSupply
            /\ totalSupply' = totalSupply - amount
      BY <2>2 DEF ExitStep
    <3>2. D \in Nat /\ totalSupply \in Nat \ {0} /\ amount \in 0 .. totalSupply
      BY <1>1, <3>1, SeededPool
    <3> QED BY <3>1, <3>2, ExitKeepsWorth
  <2>3. CASE ClockStep
    <3>1. D' = D /\ totalSupply' = totalSupply
      BY <2>3 DEF ClockStep
    <3>2. D * totalSupply \in Nat
      BY <1>1, SeededPool, MulNat
    <3> QED BY <3>1, <3>2
  <2>4. CASE FirstDepositStep
    BY <2>4 DEF FirstDepositStep
  <2> QED BY <1>1, <2>1, <2>2, <2>3, <2>4, StepSound
<1> QED BY <1>1

(* A share of the pool is never worth less after a call that leaves the    *)
(* scale alone, by D per share or by virtual price.                        *)
THEOREM NoDilution == Spec => SharesNeverDiluted
BY UndilutedStep, Invariance, PTL DEF Spec, SharesNeverDiluted, Undiluted

WrittenPriceIsLive ==
  D' > D \/ virtual_price' # virtual_price
      \/ cached_price_scale' # cached_price_scale
    => LiveVirtualPrices' = {virtual_price'}

LEMMA WrittenPriceStep == Inv /\ [Next]_vars => WrittenPriceIsLive
<1>1. ASSUME Inv, [Next]_vars
      PROVE  D' > D \/ virtual_price' # virtual_price
               \/ cached_price_scale' # cached_price_scale
               => LiveVirtualPrices' = {virtual_price'}
  <2>1. CASE TweakedStep
    BY <2>1 DEF TweakedStep, SoundTweak
  <2>2. CASE FirstDepositStep
    BY <2>2 DEF FirstDepositStep
  <2>3. CASE ExitStep
    <3>1. PICK amount \in 0 .. totalSupply - 1 :
            D' = D - (D * amount) \div totalSupply
      BY <2>3 DEF ExitStep
    <3>2. D \in Nat /\ totalSupply \in Nat \ {0} /\ amount \in Nat
      BY <1>1, <2>3, <3>1, SeededPool DEF ExitStep
    <3>3. (D * amount) \div totalSupply \in Nat
      BY <3>2, MulNat, DivNat
    <3>4. ~(D' > D)
      BY <3>1, <3>2, <3>3
    <3> QED BY <2>3, <3>4 DEF ExitStep, profitVars, priceVars
  <2>4. CASE ClockStep
    <3>1. D' = D /\ D \in Nat /\ virtual_price' = virtual_price
          /\ cached_price_scale' = cached_price_scale
      BY <1>1, <2>4, SeededPool DEF ClockStep, profitVars
    <3> QED BY <3>1
  <2> QED BY <1>1, <2>1, <2>2, <2>3, <2>4, StepSound
<1> QED BY <1>1 DEF WrittenPriceIsLive

(* The virtual price tweak_price caches from its locals is the one of the  *)
(* D, supply and scale it commits, burned shares included.                 *)
THEOREM CachedPriceIsLive == Spec => VirtualPriceIsLive
BY WrittenPriceStep, Invariance, PTL DEF Spec, VirtualPriceIsLive, WrittenPriceIsLive

(* A step that moves the scale is one that ends in tweak_price.            *)
LEMMA ScaleMovesInTweakOnly ==
  ASSUME Inv, [Next]_vars, cached_price_scale' # cached_price_scale
  PROVE  /\ TweakedStep
         /\ cached_price_scale' = p_new
         /\ last_timestamp' = block_timestamp /\ last_timestamp' > last_timestamp
         /\ cached_price_oracle' \in Nat
<1>1. TweakedStep
  BY StepSound DEF FirstDepositStep, ExitStep, ClockStep, priceVars
<1> QED BY <1>1 DEF TweakedStep, SoundTweak

Towards ==
  LET moved == Distance(cached_price_scale', cached_price_scale)
      away == Distance(cached_price_oracle', cached_price_scale)
  IN  moved > 0 =>
        /\ cached_price_scale' > cached_price_scale
             <=> cached_price_oracle' > cached_price_scale
        /\ 5 * (moved - 1) <= away

LEMMA TowardsStep == Inv /\ [Next]_vars => Towards
<1>1. ASSUME Inv, [Next]_vars PROVE Towards
  <2>1. CASE cached_price_scale' = cached_price_scale
    <3>1. Distance(cached_price_scale, cached_price_scale) = 0
      BY <1>1 DEF Inv, TypeOK, Distance
    <3> QED BY <2>1, <3>1 DEF Towards
  <2>2. CASE cached_price_scale' # cached_price_scale
    <3>1. /\ cached_price_scale' = p_new /\ cached_price_oracle' \in Nat
          /\ cached_price_scale \in Nat \ {0}
      BY <1>1, <2>2, ScaleMovesInTweakOnly DEF Inv, TypeOK
    <3> QED BY <2>2, <3>1, ActuatorTowardsOracle DEF p_new, Towards
  <2> QED BY <2>1, <2>2
<1> QED BY <1>1

(* Whatever the policy's table and the trades, a rebalance moves the scale *)
(* towards the oracle and by at most a fifth of the gap.                   *)
THEOREM RebalanceTowardsOracle == Spec => ScaleMovesTowardsOracle
BY TowardsStep, Invariance, PTL DEF Spec, ScaleMovesTowardsOracle, Towards

OracleClockAdvances ==
  /\ totalSupply > 0 => last_timestamp' >= last_timestamp
  /\ cached_price_scale' # cached_price_scale
       => /\ last_timestamp' > last_timestamp
          /\ last_timestamp' = block_timestamp

LEMMA OracleClockStep == Inv /\ [Next]_vars => OracleClockAdvances
<1>1. ASSUME Inv, [Next]_vars
      PROVE  /\ totalSupply > 0 => last_timestamp' >= last_timestamp
             /\ cached_price_scale' # cached_price_scale
                  => /\ last_timestamp' > last_timestamp
                     /\ last_timestamp' = block_timestamp
  <2>1. last_timestamp \in Nat
    BY <1>1 DEF Inv, TypeOK
  <2>2. totalSupply > 0 => last_timestamp' >= last_timestamp
    BY <1>1, <2>1, StepSound
       DEF TweakedStep, SoundTweak, FirstDepositStep, ExitStep, ClockStep, priceVars
  <2>3. cached_price_scale' # cached_price_scale
          => last_timestamp' > last_timestamp /\ last_timestamp' = block_timestamp
    BY <1>1, ScaleMovesInTweakOnly
  <2> QED BY <2>2, <2>3
<1> QED BY <1>1 DEF OracleClockAdvances

(* No two rebalances of a seeded pool share a timestamp.                   *)
THEOREM OneRebalancePerTimestamp == Spec => RebalanceAdvancesOracleClock
BY OracleClockStep, Invariance, PTL
   DEF Spec, RebalanceAdvancesOracleClock, OracleClockAdvances

-----------------------------------------------------------------------------
(* Donated shares.                                                         *)

LEMMA BurnArithmetic ==
  ASSUME NEW s0 \in Nat, NEW s1 \in Nat, NEW b \in Nat, s0 - s1 <= b,
         NEW a \in Nat, b <= a,
         NEW u0 \in Nat, NEW u1 \in Nat, NEW u \in Nat, u1 + b <= u, u <= u0
  PROVE  /\ s0 - s1 <= a
         /\ u1 + MaxOf(s0 - s1, 0) <= u0
         /\ s1 < s0 => b > 0
BY DEF MaxOf

(* What a step that ends in tweak_price burns.                             *)
LEMMA BurnOfTweak ==
  ASSUME Inv, TweakedStep
  PROVE  /\ donation_shares - donation_shares'
              <= AvailableShares(donation_shares, last_donation_release_ts,
                                 donation_protection_expiry_ts')
         /\ UnlockedShares(donation_shares', last_donation_release_ts')
              + MaxOf(donation_shares - donation_shares', 0)
              <= UnlockedShares(donation_shares, last_donation_release_ts)
         /\ donation_shares' < donation_shares
              => cached_price_scale' # cached_price_scale
<1>1. PICK D_, book, vp :
        /\ SoundBook(book) /\ SoundTweak(D_, book, vp)
        /\ book.shares >= donation_shares
        /\ UnlockedShares(book.shares, book.release)
             <= UnlockedShares(donation_shares, last_donation_release_ts)
  BY DEF TweakedStep
<1>2. PICK burn \in 0 .. Spendable(book) :
        /\ donation_shares' = book.shares - burn
        /\ UnlockedShares(donation_shares', last_donation_release_ts') + burn
             <= UnlockedShares(book.shares, book.release)
        /\ burn > 0 => cached_price_scale' # cached_price_scale
  BY <1>1 DEF SoundTweak
<1> DEFINE before == UnlockedShares(donation_shares, last_donation_release_ts)
           after == UnlockedShares(donation_shares', last_donation_release_ts')
           found == UnlockedShares(book.shares, book.release)
           expiry == donation_protection_expiry_ts'
           available == AvailableShares(donation_shares,
                                        last_donation_release_ts, expiry)
<1>3. /\ donation_shares \in Nat /\ last_donation_release_ts \in Nat
      /\ block_timestamp \in Nat /\ expiry \in Nat
      /\ book.shares \in Nat /\ book.release \in Nat
      /\ last_donation_release_ts' \in Nat
  BY <1>1 DEF Inv, TypeOK, SoundBook, TweakedStep, SoundTweak
<1>4. Spendable(book) \in 0 .. found /\ found \in 0 .. book.shares
  BY <1>1, <1>3, SpendableBounded
<1>5. Spendable(book) <= available
  BY <1>1, <1>3, AvailableMonotone DEF Spendable
<1>6. available \in 0 .. before /\ before \in 0 .. donation_shares
  BY <1>3, AvailableBounded, UnlockedBounded
<1>7. burn \in Nat /\ burn <= available /\ found \in Nat /\ burn <= book.shares
      /\ available \in Nat /\ before \in Nat
  BY <1>3, <1>4, <1>5, <1>6
<1>8. donation_shares' \in Nat /\ donation_shares - donation_shares' <= burn
  BY <1>1, <1>2, <1>3, <1>7
<1>9. after \in Nat
  <2>1. after \in 0 .. donation_shares'
    BY <1>3, <1>8, UnlockedBounded
  <2> QED BY <1>8, <2>1
<1>10. after + burn <= found /\ found <= before
  BY <1>1, <1>2
<1> HIDE DEF before, after, found, available
<1>11. /\ donation_shares - donation_shares' <= available
       /\ after + MaxOf(donation_shares - donation_shares', 0) <= before
       /\ donation_shares' < donation_shares => burn > 0
  <2>1. found \in Nat
    BY <1>7
  <2> QED BY <1>3, <1>7, <1>8, <1>9, <1>10, <2>1, BurnArithmetic
<1> QED BY <1>2, <1>11 DEF before, after, available

(* A step of another kind burns none.                                      *)
LEMMA OtherStepsKeepDonations ==
  ASSUME Inv, FirstDepositStep \/ ExitStep \/ ClockStep
  PROVE  /\ donation_shares' = donation_shares
         /\ last_donation_release_ts' = last_donation_release_ts
BY DEF FirstDepositStep, ExitStep, ClockStep, donationVars

BurnsAvailable ==
  donation_shares' < donation_shares
    => /\ cached_price_scale' # cached_price_scale
       /\ donation_shares - donation_shares'
            <= AvailableShares(donation_shares, last_donation_release_ts,
                               donation_protection_expiry_ts')

LEMMA BurnsAvailableStep == Inv /\ [Next]_vars => BurnsAvailable
<1>1. ASSUME Inv, [Next]_vars
      PROVE  donation_shares' < donation_shares
               => /\ cached_price_scale' # cached_price_scale
                  /\ donation_shares - donation_shares'
                       <= AvailableShares(donation_shares,
                                          last_donation_release_ts,
                                          donation_protection_expiry_ts')
  <2>1. donation_shares \in Nat
    BY <1>1 DEF Inv, TypeOK
  <2> QED BY <1>1, <2>1, StepSound, BurnOfTweak, OtherStepsKeepDonations
<1> QED BY <1>1 DEF BurnsAvailable

(* Only a rebalance spends donated shares, and no more of them than the    *)
(* release schedule and the protection make available.                     *)
THEOREM OnlyAvailableBurned == Spec => BurnsOnlyAvailable
BY BurnsAvailableStep, Invariance, PTL DEF Spec, BurnsOnlyAvailable, BurnsAvailable

UnlocksNothing ==
  block_timestamp' = block_timestamp
    => UnlockedShares(donation_shares', last_donation_release_ts')
         + MaxOf(donation_shares - donation_shares', 0)
       <= UnlockedShares(donation_shares, last_donation_release_ts)

LEMMA UnlocksNothingStep == Inv /\ [Next]_vars => UnlocksNothing
<1>1. ASSUME Inv, [Next]_vars
      PROVE  block_timestamp' = block_timestamp
               => UnlockedShares(donation_shares', last_donation_release_ts')
                    + MaxOf(donation_shares - donation_shares', 0)
                  <= UnlockedShares(donation_shares, last_donation_release_ts)
  <2>1. donation_shares \in Nat
        /\ UnlockedShares(donation_shares, last_donation_release_ts) \in Nat
    BY <1>1, OpenUnlocked DEF Inv, TypeOK
  <2>2. CASE TweakedStep
    BY <1>1, <2>2, BurnOfTweak
  <2>3. CASE FirstDepositStep \/ ExitStep \/ ClockStep
    BY <1>1, <2>1, <2>3, OtherStepsKeepDonations DEF MaxOf
  <2> QED BY <1>1, <2>2, <2>3, StepSound
<1> QED BY <1>1 DEF UnlocksNothing

(* Neither a donation, which moves the release time, nor a burn unlocks    *)
(* donated shares: only the clock does.                                    *)
THEOREM OnlyTheClockUnlocks == Spec => UnlockNeverGrows
BY UnlocksNothingStep, Invariance, PTL DEF Spec, UnlockNeverGrows, UnlocksNothing

SpendsAsNeeded ==
  donation_shares' < donation_shares /\ UNCHANGED historyVars
    => \A vp \in LiveVirtualPrices, x \in xcp(D', cached_price_scale') :
         PRECISION * x < (totalSupply' + 1) * MaxOf(lp_xcp_profit', vp)

LEMMA SpendsAsNeededStep == Inv /\ [Next]_vars => SpendsAsNeeded
<1>1. ASSUME Inv, [Next]_vars, donation_shares' < donation_shares,
             UNCHANGED historyVars,
             NEW vp \in LiveVirtualPrices, NEW x \in xcp(D', cached_price_scale')
      PROVE  PRECISION * x < (totalSupply' + 1) * MaxOf(lp_xcp_profit', vp)
  <2>1. vault' = vault /\ issued' = issued /\ donation_shares \in Nat
    BY <1>1 DEF historyVars, Inv, TypeOK
  <2>2. TweakedStep
    BY <1>1, <2>1, StepSound, OtherStepsKeepDonations
  <2>3. PICK D_, book, v : /\ SoundBook(book) /\ SoundTweak(D_, book, v)
                           /\ book.shares >= donation_shares
                           /\ \/ Deposited(book) \/ Donated(book) \/ Withdrew(book)
                              \/ Traded(book) \/ Ticked(D_, book)
    BY <2>2 DEF TweakedStep
  <2>4. Ticked(D_, book)
    <3>1. vault[1] \in Nat /\ vault[2] \in Nat /\ issued \in Nat
      BY <1>1, PairArithmetic DEF Inv, TypeOK
    <3> QED
      BY <2>1, <2>3, <3>1 DEF Deposited, Donated, Withdrew, Traded, PaidIn, PaidOut
  <2>5. PICK burn \in 0 .. Spendable(book) :
          /\ donation_shares' = book.shares - burn
          /\ burn > 0 => BurnIsNeeded(D_, book)
    BY <2>3 DEF SoundTweak
  <2>6. BurnIsNeeded(D, book)
    <3>1. burn > 0
      <4>1. Spendable(book) \in Nat
        BY <1>1, <2>2, <2>3, SpendableBounded DEF TweakedStep, Inv, TypeOK, SoundBook
      <4> QED BY <1>1, <2>1, <2>4, <2>5, <4>1 DEF Ticked
    <3> QED BY <2>4, <2>5, <3>1 DEF Ticked
  <2>7. PICK before \in xcp(D, cached_price_scale) :
          vp = VirtualPrice(before, totalSupply)
    BY <1>1 DEF LiveVirtualPrices
  <2> QED BY <1>1, <2>4, <2>6, <2>7 DEF BurnIsNeeded, Ticked
<1> QED BY <1>1 DEF SpendsAsNeeded

(* tweak_price rounds the shares a tick burns so that one share fewer      *)
(* would leave the price below its goal.                                   *)
THEOREM TicksSpendNoMore == Spec => SpendsNoMoreThanNeeded
BY SpendsAsNeededStep, Invariance, PTL
   DEF Spec, SpendsNoMoreThanNeeded, SpendsAsNeeded

-----------------------------------------------------------------------------
(* The pool stays open.                                                    *)

(* The caller's shares are those the code derives, while there is a pool.  *)
LEMMA CallerShares ==
  ASSUME Inv
  PROVE  /\ D > 0 => /\ single_caller_lp_balance = issued
                     /\ totalSupply - donation_shares - single_caller_lp_balance
                          = MINIMUM_LIQUIDITY
         /\ D = 0 => /\ single_caller_lp_balance = 0
                     /\ totalSupply - donation_shares - single_caller_lp_balance = 0
BY SeededPool DEF single_caller_lp_balance, MaxOf, Inv, SharesAccounted

NeverDrainedStep ==
  /\ D' = 0 <=> totalSupply' = 0
  /\ D > 0 => /\ D' > 0
              /\ totalSupply' >= MINIMUM_LIQUIDITY
              /\ balances'[1] > 0 /\ balances'[2] > 0

LEMMA OpenStep ==
  ASSUME Inv, [Next]_vars
  PROVE  NeverDrainedStep
<1>1. /\ Inv'
      /\ TweakedStep \/ FirstDepositStep \/ ExitStep \/ ClockStep
  BY StepSound
<1>2. /\ D' \in Nat /\ MINIMUM_LIQUIDITY \in Nat \ {0}
      /\ issued' \in Nat /\ donation_shares' \in Nat
      /\ D' = 0 => totalSupply' = 0
      /\ D' # 0 => totalSupply' = issued' + donation_shares' + MINIMUM_LIQUIDITY
      /\ D' > 0 => balances'[1] > 0 /\ balances'[2] > 0
  BY <1>1, PoolAssumption DEF Inv, TypeOK, SharesAccounted
<1>3. ASSUME D > 0 PROVE D' > 0
  <2>1. CASE TweakedStep
    BY <2>1 DEF TweakedStep, SoundTweak
  <2>2. CASE ExitStep
    <3>1. PICK amount \in 0 .. totalSupply - 1 :
            D' = D - (D * amount) \div totalSupply
      BY <2>2 DEF ExitStep
    <3>2. D \in Nat \ {0} /\ totalSupply \in Nat \ {0}
      BY <1>3, SeededPool
    <3>3. (D * amount) \div totalSupply \in 0 .. D - 1
      BY <3>1, <3>2, StrictPart
    <3> QED BY <3>1, <3>2, <3>3
  <2>3. CASE ClockStep
    BY <1>3, <2>3 DEF ClockStep
  <2>4. CASE FirstDepositStep
    BY <1>3, <2>4 DEF FirstDepositStep
  <2> QED BY <1>1, <2>1, <2>2, <2>3, <2>4
<1>4. ASSUME D' # 0 PROVE totalSupply' >= MINIMUM_LIQUIDITY
  <2>1. totalSupply' = issued' + donation_shares' + MINIMUM_LIQUIDITY
    BY <1>2, <1>4
  <2>2. issued' \in Nat /\ donation_shares' \in Nat /\ MINIMUM_LIQUIDITY \in Nat
    BY <1>2
  <2>3. \A a, b, c \in Nat : a + b + c >= c
    OBVIOUS
  <2>4. issued' + donation_shares' + MINIMUM_LIQUIDITY >= MINIMUM_LIQUIDITY
    BY <2>2, <2>3
  <2> QED BY <2>1, <2>4
<1>5. D' = 0 <=> totalSupply' = 0
  BY <1>2
<1>6. D > 0 => D' > 0 /\ totalSupply' >= MINIMUM_LIQUIDITY
              /\ balances'[1] > 0 /\ balances'[2] > 0
  <2> SUFFICES ASSUME D > 0
               PROVE  D' > 0 /\ totalSupply' >= MINIMUM_LIQUIDITY
                      /\ balances'[1] > 0 /\ balances'[2] > 0
    OBVIOUS
  <2>1. D' > 0 /\ D' # 0
    BY <1>2, <1>3
  <2> QED BY <1>2, <1>4, <2>1
<1> QED BY <1>5, <1>6 DEF NeverDrainedStep

(* No call empties a seeded pool of invariant, of shares or of either      *)
(* coin: what is minted to nobody at the first deposit stays, and so does  *)
(* a part of both balances.                                                *)
THEOREM PoolStaysOpen == Spec => NeverDrained
<1>1. Inv /\ [Next]_vars => NeverDrainedStep
  BY OpenStep
<1> QED BY <1>1, Invariance, PTL DEF Spec, NeverDrained, NeverDrainedStep

-----------------------------------------------------------------------------
(* How far exits leave the live virtual price behind the cached one.       *)

(* The cached price is paid for by the invariant before xcp rounds it.     *)
PriceCovered(d, scale, supply, price) ==
  LET r == sqrt[PRECISION * scale]
  IN  /\ r \in Nat \ {0}
      /\ (price * supply) * (2 * r) <= PRECISION * (PRECISION * d)

Covered == D > 0 => PriceCovered(D, cached_price_scale, totalSupply, virtual_price)

(* A price computed from xcp is.                                           *)
LEMMA LivePriceCovered ==
  ASSUME NEW d \in Nat, NEW scale \in Nat, NEW supply \in Nat \ {0},
         NEW x \in xcp(d, scale)
  PROVE  PriceCovered(d, scale, supply, VirtualPrice(x, supply))
<1> DEFINE r == sqrt[PRECISION * scale]
           price == VirtualPrice(x, supply)
<1>1. /\ r \in Nat \ {0} /\ x \in Nat /\ PRECISION \in Nat
      /\ 2 * (r * x) <= PRECISION * d
  BY XcpBounds, XcpNat, PrecisionAssumption
<1> HIDE DEF r
<1>2. price \in Nat /\ price * supply <= PRECISION * x
  <2>1. PRECISION * x \in Nat
    BY <1>1, MulNat
  <2>2. price = (PRECISION * x) \div supply
    BY DEF VirtualPrice
  <2>3. price \in Nat /\ supply * price <= PRECISION * x
    BY <2>1, <2>2, DivNat
  <2> HIDE DEF price
  <2> QED BY <2>3
<1> HIDE DEF price
<1>3. (price * supply) * (2 * r) <= (PRECISION * x) * (2 * r)
  <2>1. 2 * r \in Nat /\ price * supply \in Int /\ PRECISION * x \in Int
    BY <1>1, <1>2
  <2> QED BY <1>2, <2>1, MulMonotone
<1>4. (PRECISION * x) * (2 * r) = PRECISION * (2 * (r * x))
  BY <1>1
<1>5. PRECISION * (2 * (r * x)) <= PRECISION * (PRECISION * d)
  <2>1. 2 * (r * x) \in Int /\ PRECISION * d \in Int
    BY <1>1
  <2> QED BY <1>1, <2>1, MulMonotone
<1>6. /\ (price * supply) * (2 * r) \in Int /\ (PRECISION * x) * (2 * r) \in Int
      /\ PRECISION * (PRECISION * d) \in Int
  BY <1>1, <1>2
<1>7. (price * supply) * (2 * r) <= PRECISION * (PRECISION * d)
  BY <1>3, <1>4, <1>5, <1>6
<1> QED BY <1>1, <1>7 DEF PriceCovered, r, price

(* And it stays so when D and the supply shrink in proportion.             *)
LEMMA ExitStaysCovered ==
  ASSUME NEW d \in Nat, NEW scale \in Nat, NEW supply \in Nat \ {0},
         NEW price \in Nat, NEW amount \in 0 .. supply,
         PriceCovered(d, scale, supply, price)
  PROVE  PriceCovered(d - (d * amount) \div supply, scale, supply - amount, price)
<1> DEFINE r == sqrt[PRECISION * scale]
           left == d - (d * amount) \div supply
           rest == supply - amount
           P == PRECISION
<1>1. /\ r \in Nat \ {0} /\ P \in Nat /\ rest \in Nat
      /\ (price * supply) * (2 * r) <= P * (P * d)
  BY PrecisionAssumption DEF PriceCovered
<1>2. left \in Nat /\ left * supply >= d * rest
  BY ExitKeepsWorth
<1> HIDE DEF r, left, rest, P
<1>3. ((price * rest) * (2 * r)) * supply = ((price * supply) * (2 * r)) * rest
  BY <1>1
<1>4. ((price * supply) * (2 * r)) * rest <= (P * (P * d)) * rest
  <2>1. (price * supply) * (2 * r) \in Int /\ P * (P * d) \in Int
    BY <1>1
  <2> QED BY <1>1, <2>1, MulMonotone
<1>5. (P * (P * d)) * rest = (P * P) * (d * rest)
  BY <1>1
<1>6. (P * P) * (d * rest) <= (P * P) * (left * supply)
  <2>1. P * P \in Nat /\ d * rest \in Int /\ left * supply \in Int
    BY <1>1, <1>2, MulNat
  <2> QED BY <1>2, <2>1, MulMonotone
<1>7. (P * P) * (left * supply) = (P * (P * left)) * supply
  BY <1>1, <1>2
<1> DEFINE owed == (price * rest) * (2 * r)
           paid == P * (P * left)
<1>8. owed \in Nat /\ paid \in Nat
  <2>1. price * rest \in Nat /\ 2 * r \in Nat /\ P * left \in Nat
    BY <1>1, <1>2, MulNat
  <2> QED BY <1>1, <2>1, MulNat
<1>9. owed * supply <= paid * supply
  <2>1. /\ ((price * supply) * (2 * r)) * rest \in Int
        /\ (P * (P * d)) * rest \in Int /\ (P * P) * (left * supply) \in Int
    BY <1>1, <1>2
  <2> QED BY <1>3, <1>4, <1>5, <1>6, <1>7, <2>1
<1> HIDE DEF owed, paid
<1>10. owed <= paid
  <2> SUFFICES ASSUME paid < owed PROVE FALSE
    BY <1>8
  <2>1. (paid + 1) * supply <= owed * supply
    BY <1>8, MulMonotone
  <2>2. (paid + 1) * supply = paid * supply + supply /\ paid * supply \in Nat
    BY <1>8, MulNat
  <2>3. owed * supply \in Nat
    BY <1>8, MulNat
  <2> QED BY <1>9, <2>1, <2>2, <2>3
<1> QED BY <1>1, <1>10 DEF PriceCovered, owed, paid, r, P, left, rest

LEMMA CoveredStep ==
  ASSUME Inv, Covered, [Next]_vars
  PROVE  Covered'
<1>1. /\ Inv'
      /\ TweakedStep \/ FirstDepositStep \/ ExitStep \/ ClockStep
  BY StepSound
<1> SUFFICES ASSUME D' > 0
             PROVE  PriceCovered(D', cached_price_scale', totalSupply', virtual_price')
  BY DEF Covered, PriceCovered
<1>2. /\ D' \in Nat /\ cached_price_scale' \in Nat
      /\ totalSupply' \in Nat \ {0}
  <2>1. /\ D' \in Nat /\ cached_price_scale' \in Nat /\ totalSupply' \in Nat
        /\ issued' \in Nat /\ donation_shares' \in Nat
        /\ MINIMUM_LIQUIDITY \in Nat \ {0}
        /\ D' # 0 => totalSupply' = issued' + donation_shares' + MINIMUM_LIQUIDITY
    BY <1>1, PoolAssumption DEF Inv, TypeOK, SharesAccounted
  <2>2. \A a, b \in Nat, c \in Nat \ {0} : a + b + c # 0
    OBVIOUS
  <2>3. issued' + donation_shares' + MINIMUM_LIQUIDITY # 0
    BY <2>1, <2>2
  <2>4. D' # 0
    BY <2>1
  <2>5. totalSupply' # 0
    BY <2>1, <2>3, <2>4
  <2> QED BY <2>1, <2>5
<1>3. CASE TweakedStep \/ FirstDepositStep
  <2>1. LiveVirtualPrices' = {virtual_price'}
    BY <1>3 DEF TweakedStep, SoundTweak, FirstDepositStep
  <2>2. PICK x \in xcp(D', cached_price_scale') :
          virtual_price' = VirtualPrice(x, totalSupply')
    BY <2>1 DEF LiveVirtualPrices
  <2> QED BY <1>2, <2>2, LivePriceCovered
<1>4. CASE ExitStep
  <2>1. PICK amount \in 0 .. totalSupply - 1 :
          /\ D' = D - (D * amount) \div totalSupply
          /\ totalSupply' = totalSupply - amount
    BY <1>4 DEF ExitStep
  <2>2. /\ D \in Nat /\ D > 0 /\ totalSupply \in Nat \ {0}
        /\ cached_price_scale \in Nat /\ virtual_price \in Nat
        /\ amount \in 0 .. totalSupply
    BY <1>4, <2>1, SeededPool DEF Inv, TypeOK, ExitStep
  <2>3. cached_price_scale' = cached_price_scale /\ virtual_price' = virtual_price
    BY <1>4 DEF ExitStep, priceVars, profitVars
  <2> QED BY <2>1, <2>2, <2>3, ExitStaysCovered DEF Covered
<1>5. CASE ClockStep
  BY <1>5 DEF ClockStep, profitVars, Covered
<1> QED BY <1>1, <1>3, <1>4, <1>5

LEMMA CoveredIsNearlyLive ==
  ASSUME Inv, Covered
  PROVE  ShortByOneUnitAtMost
<1> SUFFICES ASSUME NEW x \in xcp(D, cached_price_scale), D > 0
             PROVE  virtual_price * totalSupply < PRECISION * (x + 1)
  BY DEF ShortByOneUnitAtMost
<1> DEFINE r == sqrt[PRECISION * cached_price_scale]
           worth == virtual_price * totalSupply
<1>1. /\ D \in Nat /\ cached_price_scale \in Nat
      /\ virtual_price \in Nat /\ totalSupply \in Nat
      /\ x \in Nat /\ PRECISION \in Nat \ {0}
  BY XcpNat, PrecisionAssumption DEF Inv, TypeOK
<1>2. /\ r \in Nat \ {0} /\ worth * (2 * r) <= PRECISION * (PRECISION * D)
  BY DEF Covered, PriceCovered
<1>3. PRECISION * D < 2 * (r * (x + 1))
  BY <1>1, XcpBounds
<1>4. worth \in Nat
  BY <1>1, MulNat
<1> HIDE DEF r, worth
<1>5. PRECISION * (PRECISION * D) < PRECISION * (2 * (r * (x + 1)))
  <2>1. PRECISION * D \in Int /\ 2 * (r * (x + 1)) \in Int
    BY <1>1, <1>2
  <2>2. PRECISION * (PRECISION * D + 1) <= PRECISION * (2 * (r * (x + 1)))
    BY <1>1, <1>3, <2>1, MulMonotone
  <2>3. PRECISION * (PRECISION * D + 1) = PRECISION * (PRECISION * D) + PRECISION
    BY <1>1
  <2>4. /\ PRECISION * (PRECISION * D) \in Int
        /\ PRECISION * (2 * (r * (x + 1))) \in Int
    BY <1>1, <1>2
  <2> QED BY <1>1, <2>2, <2>3, <2>4
<1>6. PRECISION * (2 * (r * (x + 1))) = (PRECISION * (x + 1)) * (2 * r)
  BY <1>1, <1>2
<1>7. worth * (2 * r) < (PRECISION * (x + 1)) * (2 * r)
  <2>1. /\ worth * (2 * r) \in Int /\ PRECISION * (PRECISION * D) \in Int
        /\ (PRECISION * (x + 1)) * (2 * r) \in Int
    BY <1>1, <1>2, <1>4
  <2> QED BY <1>2, <1>5, <1>6, <2>1
<1>8. PRECISION * (x + 1) \in Nat /\ 2 * r \in Nat \ {0}
  BY <1>1, <1>2, MulNat
<1>9. worth < PRECISION * (x + 1)
  BY <1>4, <1>7, <1>8, LessWorth
<1> QED BY <1>9 DEF worth

(* Exits round D in favour of the pool, so the cached virtual price, which *)
(* every trade must reach again, stays within one unit of xcp, however     *)
(* many exits there were since tweak_price last wrote it.                  *)
THEOREM AtMostOneUnitShort == Spec => []ShortByOneUnitAtMost
<1>1. Init => Covered
  BY DEF Init, Covered
<1>2. Inv /\ Covered /\ [Next]_vars => Covered'
  BY CoveredStep
<1>3. Inv /\ Covered => ShortByOneUnitAtMost
  BY CoveredIsNearlyLive
<1> QED BY <1>1, <1>2, <1>3, Invariance, PTL DEF Spec

-----------------------------------------------------------------------------
(* The cap on donated shares.                                              *)

RatioOf(shares, supply) == (shares * PRECISION) \div supply

(* The ratio falls when the supply grows, and when shares are burned.      *)
LEMMA RatioFalls ==
  ASSUME NEW shares \in Nat, NEW supply \in Nat \ {0}, shares <= supply,
         NEW larger \in Nat, larger >= supply,
         NEW burn \in 0 .. shares, burn < supply
  PROVE  /\ RatioOf(shares, larger) <= RatioOf(shares, supply)
         /\ RatioOf(shares - burn, supply - burn) <= RatioOf(shares, supply)
<1> DEFINE a == shares * PRECISION
           q == a \div supply
           left == (shares - burn) * PRECISION
           rest == supply - burn
<1>1. a \in Nat /\ left \in Nat /\ rest \in Nat \ {0} /\ PRECISION \in Nat \ {0}
  BY MulNat, PrecisionAssumption
<1>2. left = a - burn * PRECISION /\ burn * PRECISION \in Nat
      /\ burn * PRECISION <= burn * PRECISION
  BY PrecisionAssumption, MulNat
<1>3. left * supply <= a * rest
  <2>1. left * supply = a * supply - PRECISION * (burn * supply)
    BY PrecisionAssumption
  <2>2. a * rest = a * supply - PRECISION * (burn * shares)
    BY PrecisionAssumption
  <2>3. burn * shares <= burn * supply
    BY MulMonotone
  <2>4. PRECISION * (burn * shares) <= PRECISION * (burn * supply)
    <3>1. burn * shares \in Int /\ burn * supply \in Int
      OBVIOUS
    <3> QED BY <1>1, <2>3, <3>1, MulMonotone
  <2>5. /\ PRECISION * (burn * shares) \in Int /\ PRECISION * (burn * supply) \in Int
        /\ a * supply \in Int
    BY <1>1
  <2> HIDE DEF a, left, rest
  <2> QED BY <2>1, <2>2, <2>4, <2>5
<1> HIDE DEF a, left, rest
<1>4. q \in Nat /\ a < supply * q + supply
  BY <1>1, DivNat
<1> HIDE DEF q
<1>5. a < (q + 1) * supply
  <2>1. (q + 1) * supply = supply * q + supply /\ supply * q \in Int
    BY <1>4
  <2> QED BY <1>1, <1>4, <2>1
<1>6. a \div larger <= q
  <2>1. (q + 1) * supply <= (q + 1) * larger
    BY <1>4, MulMonotone
  <2>2. (q + 1) * supply \in Int /\ (q + 1) * larger \in Int
    BY <1>4
  <2>3. a < (q + 1) * larger
    BY <1>1, <1>5, <2>1, <2>2
  <2>4. a \div larger < q + 1 /\ a \div larger \in Nat
    BY <1>1, <1>4, <2>3, DivBelow, DivNat
  <2> QED BY <1>4, <2>4
<1>7. left \div rest <= q
  <2>1. (a + 1) * rest <= ((q + 1) * supply) * rest
    <3>1. a + 1 <= (q + 1) * supply /\ (q + 1) * supply \in Int
      BY <1>1, <1>4, <1>5
    <3> QED BY <1>1, <3>1, MulMonotone
  <2>2. /\ (a + 1) * rest = a * rest + rest
        /\ ((q + 1) * supply) * rest = ((q + 1) * rest) * supply
    BY <1>1, <1>4
  <2>3. left * supply < ((q + 1) * rest) * supply
    <3>1. /\ left * supply \in Int /\ a * rest \in Int
          /\ ((q + 1) * rest) * supply \in Int
      BY <1>1, <1>4
    <3> QED BY <1>1, <1>3, <2>1, <2>2, <3>1
  <2>4. (q + 1) * rest \in Nat
    BY <1>1, <1>4, MulNat
  <2>5. left < (q + 1) * rest
    BY <1>1, <2>3, <2>4, LessWorth
  <2>6. left \div rest < q + 1 /\ left \div rest \in Nat
    BY <1>1, <1>4, <2>5, DivBelow, DivNat
  <2> QED BY <1>4, <2>6
<1> QED BY <1>6, <1>7 DEF RatioOf, a, q, left, rest

LEMMA AccountsAfter ==
  ASSUME Inv', D' > 0
  PROVE  /\ single_caller_lp_balance' = issued'
         /\ totalSupply' = issued' + donation_shares' + MINIMUM_LIQUIDITY
         /\ totalSupply' \in Nat \ {0} /\ issued' \in Nat /\ donation_shares' \in Nat
<1>1. /\ issued' \in Nat /\ donation_shares' \in Nat
      /\ MINIMUM_LIQUIDITY \in Nat \ {0}
      /\ totalSupply' = issued' + donation_shares' + MINIMUM_LIQUIDITY
  <2>1. D' # 0 /\ MINIMUM_LIQUIDITY \in Nat \ {0}
    BY PoolAssumption DEF Inv, TypeOK
  <2>2. issued' \in Nat /\ donation_shares' \in Nat
    BY DEF Inv, TypeOK
  <2>3. totalSupply' = issued' + donation_shares' + MINIMUM_LIQUIDITY
    BY <2>1 DEF Inv, SharesAccounted
  <2> QED BY <2>1, <2>2, <2>3
<1>2. \A a, b \in Nat, c \in Nat \ {0} :
        a + b + c \in Nat \ {0} /\ (a + b + c) - b - c = a
  OBVIOUS
<1>3. /\ issued' + donation_shares' + MINIMUM_LIQUIDITY \in Nat \ {0}
      /\ (issued' + donation_shares' + MINIMUM_LIQUIDITY)
            - donation_shares' - MINIMUM_LIQUIDITY = issued'
  BY <1>1, <1>2
<1>4. single_caller_lp_balance'
        = MaxOf(totalSupply' - donation_shares' - MINIMUM_LIQUIDITY, 0)
  BY DEF single_caller_lp_balance
<1>5. MaxOf(issued', 0) = issued'
  BY <1>1 DEF MaxOf
<1> QED BY <1>1, <1>3, <1>4, <1>5

PassesTheCapByExit ==
  totalSupply > 0 /\ DonatedRatio' > MaxOf(DonatedRatio, donation_shares_max_ratio)
    => single_caller_lp_balance' < single_caller_lp_balance

LEMMA PassesTheCapStep == Inv /\ [Next]_vars => PassesTheCapByExit
<1>1. ASSUME Inv, [Next]_vars, totalSupply > 0,
             ~(single_caller_lp_balance' < single_caller_lp_balance)
      PROVE  ~(DonatedRatio' > MaxOf(DonatedRatio, donation_shares_max_ratio))
  <2> DEFINE before == RatioOf(donation_shares, totalSupply)
             after == RatioOf(donation_shares', totalSupply')
  <2>1. /\ Inv'
        /\ TweakedStep \/ FirstDepositStep \/ ExitStep \/ ClockStep
    BY <1>1, StepSound
  <2>2. /\ D > 0 /\ totalSupply \in Nat \ {0} /\ issued \in Nat
        /\ donation_shares \in Nat /\ MINIMUM_LIQUIDITY \in Nat
        /\ totalSupply = issued + donation_shares + MINIMUM_LIQUIDITY
        /\ single_caller_lp_balance = issued
    BY <1>1, SeededPool, CallerShares
  <2>3. before \in Nat /\ donation_shares_max_ratio \in Nat
    BY <2>2, MulNat, DivNat, PrecisionAssumption, DonationAssumption DEF RatioOf
  <2>4. D' > 0
    <3>1. NeverDrainedStep
      BY <1>1, OpenStep
    <3> QED BY <2>2, <3>1 DEF NeverDrainedStep
  <2>5. /\ single_caller_lp_balance' = issued'
        /\ totalSupply' = issued' + donation_shares' + MINIMUM_LIQUIDITY
        /\ totalSupply' \in Nat \ {0} /\ issued' \in Nat
        /\ donation_shares' \in Nat
    BY <2>1, <2>4, AccountsAfter
  <2>6. after \in Nat
    BY <2>5, MulNat, DivNat, PrecisionAssumption DEF RatioOf
  <2>7. after <= before \/ after <= donation_shares_max_ratio
    <3>1. CASE TweakedStep
      <4>1. PICK D_, book, v :
              /\ SoundBook(book) /\ SoundTweak(D_, book, v)
              /\ \/ Deposited(book) \/ Donated(book) \/ Withdrew(book)
                 \/ Traded(book) \/ Ticked(D_, book)
        BY <3>1 DEF TweakedStep
      <4>2. PICK burn \in 0 .. Spendable(book) :
              /\ totalSupply' = book.supply - burn
              /\ donation_shares' = book.shares - burn
        BY <4>1 DEF SoundTweak
      <4>3. /\ book.supply \in Nat \ {0} /\ book.shares \in Nat
            /\ book.shares < book.supply /\ burn \in 0 .. book.shares
        <5>1. /\ Spendable(book) \in 0 .. UnlockedShares(book.shares, book.release)
              /\ UnlockedShares(book.shares, book.release) \in 0 .. book.shares
          BY <1>1, <3>1, <4>1, SpendableBounded DEF TweakedStep, Inv, TypeOK
        <5> QED BY <4>1, <4>2, <5>1, PoolAssumption DEF SoundBook
      <4>4. after <= RatioOf(book.shares, book.supply)
        <5>1. RatioOf(book.shares - burn, book.supply - burn)
                <= RatioOf(book.shares, book.supply)
          BY <4>3, RatioFalls
        <5> QED BY <4>2, <5>1
      <4>5. RatioOf(book.shares, book.supply) \in Nat
        BY <4>3, MulNat, DivNat, PrecisionAssumption DEF RatioOf
      <4>6. CASE Deposited(book) \/ Traded(book) \/ Ticked(D_, book)
        <5>1. book.shares = donation_shares /\ book.supply >= totalSupply
          BY <2>2, <4>6 DEF Deposited, Traded, Ticked
        <5>2. RatioOf(donation_shares, book.supply) <= before
          BY <2>2, <4>3, <5>1, RatioFalls, 0 \in 0 .. donation_shares
        <5> QED BY <2>3, <2>6, <4>4, <4>5, <5>1, <5>2
      <4>7. CASE Donated(book)
        <5>1. RatioOf(book.shares, book.supply) <= donation_shares_max_ratio
          BY <4>7 DEF Donated, RatioOf
        <5> QED BY <2>3, <2>6, <4>4, <4>5, <5>1
      <4>8. CASE Withdrew(book)
        BY <1>1, <2>2, <2>5, <4>8 DEF Withdrew
      <4> QED BY <4>1, <4>6, <4>7, <4>8
    <3>2. CASE ExitStep
      <4>1. PICK amount \in 0 .. totalSupply - 1 : totalSupply' = totalSupply - amount
        BY <3>2 DEF ExitStep
      <4>2. donation_shares' = donation_shares
        BY <3>2 DEF ExitStep, donationVars
      <4>3. totalSupply' = totalSupply
        <5>1. \A i, j, s, m \in Nat : ~(j < i) => j + s + m >= i + s + m
          OBVIOUS
        <5>2. ~(issued' < issued)
          BY <1>1, <2>2, <2>5
        <5>3. issued' + donation_shares + MINIMUM_LIQUIDITY
                >= issued + donation_shares + MINIMUM_LIQUIDITY
          BY <2>2, <2>5, <5>1, <5>2
        <5>4. totalSupply' = issued' + donation_shares + MINIMUM_LIQUIDITY
          BY <2>5, <4>2
        <5>5. totalSupply' >= totalSupply
          BY <2>2, <5>3, <5>4
        <5>6. amount \in Nat
          BY <2>2
        <5>7. totalSupply \in Nat /\ totalSupply' \in Nat
          BY <2>2, <2>5
        <5> QED BY <4>1, <5>5, <5>6, <5>7
      <4> QED BY <2>3, <4>2, <4>3
    <3>3. CASE ClockStep
      BY <2>3, <3>3 DEF ClockStep, donationVars
    <3>4. CASE FirstDepositStep
      BY <2>2, <3>4 DEF FirstDepositStep
    <3> QED BY <2>1, <3>1, <3>2, <3>3, <3>4
  <2>8. DonatedRatio = before /\ DonatedRatio' = after
    BY DEF DonatedRatio, RatioOf
  <2> HIDE DEF before, after
  <2> QED BY <2>3, <2>6, <2>7, <2>8 DEF MaxOf
<1>2. ASSUME Inv, [Next]_vars
      PROVE  totalSupply > 0
                 /\ DonatedRatio' > MaxOf(DonatedRatio, donation_shares_max_ratio)
               => single_caller_lp_balance' < single_caller_lp_balance
  BY <1>1, <1>2
<1> QED BY <1>2 DEF PassesTheCapByExit

(* The ratio of donated shares passes the cap that donations check only    *)
(* when the caller takes liquidity out: deposits and burns lower it, and   *)
(* trades leave it.                                                        *)
THEOREM OnlyExitsPassTheCap == Spec => CapExceededByExitsOnly
BY PassesTheCapStep, Invariance, PTL
   DEF Spec, CapExceededByExitsOnly, PassesTheCapByExit

-----------------------------------------------------------------------------
(* The protection of donations.                                            *)

(* No deposit protects for longer than the period from its time on.        *)
ProtectionCapped ==
  donation_protection_expiry_ts <= block_timestamp + donation_protection_period

LEMMA ProtectionStep ==
  ASSUME Inv, ProtectionCapped, [Next]_vars, block_timestamp' >= block_timestamp
  PROVE  /\ ProtectionCapped'
         /\ donation_protection_expiry_ts' >= donation_protection_expiry_ts
<1>1. /\ Inv'
      /\ TweakedStep \/ FirstDepositStep \/ ExitStep \/ ClockStep
  BY StepSound
<1>2. /\ block_timestamp \in Nat /\ block_timestamp' \in Nat
      /\ donation_protection_expiry_ts \in Nat
      /\ donation_protection_expiry_ts' \in Nat
      /\ donation_protection_period \in Nat
  BY <1>1, DonationAssumption DEF Inv, TypeOK
<1>3. \A now, later, e, p \in Nat :
        e <= now + p /\ later >= now => e <= later + p /\ e >= e
  OBVIOUS
<1>4. CASE donation_protection_expiry_ts' = donation_protection_expiry_ts
  BY <1>2, <1>3, <1>4 DEF ProtectionCapped
<1>5. CASE TweakedStep
  <2> DEFINE latest == block_timestamp + donation_protection_period
  <2>1. /\ block_timestamp' = block_timestamp
        /\ \/ donation_protection_expiry_ts' = donation_protection_expiry_ts
           \/ donation_protection_expiry_ts'
                \in MinOf(donation_protection_expiry_ts, latest) .. latest
    BY <1>5 DEF TweakedStep, ProtectionKept
  <2>2. latest \in Nat /\ donation_protection_expiry_ts <= latest
    BY <1>2 DEF ProtectionCapped
  <2>3. ProtectionCapped' <=> donation_protection_expiry_ts' <= latest
    BY <2>1 DEF ProtectionCapped
  <2> HIDE DEF latest
  <2>4. CASE donation_protection_expiry_ts'
               \in MinOf(donation_protection_expiry_ts, latest) .. latest
    <3>1. MinOf(donation_protection_expiry_ts, latest)
            = donation_protection_expiry_ts
      BY <1>2, <2>2 DEF MinOf
    <3> QED BY <1>2, <2>2, <2>3, <2>4, <3>1
  <2> QED BY <1>4, <2>1, <2>4
<1>6. CASE FirstDepositStep \/ ExitStep \/ ClockStep
  BY <1>4, <1>6 DEF FirstDepositStep, ExitStep, ClockStep, protectionVars
<1> QED BY <1>1, <1>5, <1>6

(* A deposit recomputes and caps the end of the protection, yet never      *)
(* brings it forward, unless the caller has set the clock back: with time  *)
(* the cap only rises.                                                     *)
THEOREM ProtectionIsKept ==
  Spec /\ [][block_timestamp' >= block_timestamp]_vars => ProtectionNeverShortens
<1>1. Init => ProtectionCapped
  BY DonationAssumption, InputAssumption DEF Init, ProtectionCapped
<1>2. Inv /\ ProtectionCapped /\ [Next]_vars
        /\ [block_timestamp' >= block_timestamp]_vars
      => /\ ProtectionCapped'
         /\ [donation_protection_expiry_ts' >= donation_protection_expiry_ts]_vars
  <2>1. ASSUME Inv, UNCHANGED vars
        PROVE  block_timestamp' >= block_timestamp
    BY <2>1 DEF vars, Inv, TypeOK
  <2> QED BY <2>1, ProtectionStep
<1> QED BY <1>1, <1>2, Invariance, PTL DEF Spec, ProtectionNeverShortens

LEMMA ClaimTimeStep ==
  ASSUME [Next]_vars
  PROVE  \/ last_admin_fee_claim_timestamp' = last_admin_fee_claim_timestamp
         \/ /\ last_admin_fee_claim_timestamp' = block_timestamp
            /\ block_timestamp' = block_timestamp
<1>1. ASSUME NEW burn \in FixedOuts, NEW i \in Coin, NEW min \in Minimums,
             RemoveLiquidityFixedOut(burn[1], i, burn[2], min)
      PROVE  /\ block_timestamp' = block_timestamp
             /\ last_admin_fee_claim_timestamp' \in
                  {last_admin_fee_claim_timestamp, block_timestamp}
  BY <1>1 DEF RemoveLiquidityFixedOut
<1>2. ASSUME \/ \E amounts \in Seeds, min \in Minimums : InitialDeposit(amounts, min)
             \/ \E amounts \in Deposits, min \in Minimums : AddLiquidity(amounts, min)
             \/ \E amounts \in Donations, min \in Minimums : Donate(amounts, min)
             \/ \E amount \in Burns, min \in Minimums : RemoveLiquidity(amount, min)
             \/ \E i \in Coin, dx \in Trades, min \in Minimums : Exchange(i, dx, min)
      PROVE  last_admin_fee_claim_timestamp' = last_admin_fee_claim_timestamp
  BY <1>2 DEF InitialDeposit, AddLiquidity, Donate, RemoveLiquidity, Exchange,
              adminVars
<1>3. ASSUME \/ Tick \/ \E s \in Seconds : AdvanceTime(s)
             \/ \E ts \in Timestamps : SetBlockTimestamp(ts)
             \/ UNCHANGED vars
      PROVE  last_admin_fee_claim_timestamp' = last_admin_fee_claim_timestamp
  BY <1>3 DEF Tick, AdvanceTime, SetBlockTimestamp, vars, adminVars
<1> QED BY <1>1, <1>2, <1>3 DEF Next

LEMMA BehindTheClockStep ==
  ASSUME Inv, NothingAheadOfTheClock, [Next]_vars,
         block_timestamp' >= block_timestamp
  PROVE  NothingAheadOfTheClock'
<1>1. /\ Inv'
      /\ TweakedStep \/ FirstDepositStep \/ ExitStep \/ ClockStep
  BY StepSound
<1>2. /\ block_timestamp \in Nat /\ block_timestamp' \in Nat
      /\ last_timestamp \in Nat /\ last_donation_release_ts \in Nat
      /\ last_admin_fee_claim_timestamp \in Nat
  BY <1>1 DEF Inv, TypeOK
<1>3. ProtectionCapped'
  BY ProtectionStep DEF NothingAheadOfTheClock, ProtectionCapped
<1>4. last_admin_fee_claim_timestamp' <= block_timestamp'
  BY <1>2, ClaimTimeStep DEF NothingAheadOfTheClock
<1>5. /\ last_timestamp' <= block_timestamp'
      /\ last_donation_release_ts' <= block_timestamp'
  <2>1. CASE TweakedStep
    <3>1. PICK D_, book, vp :
            /\ SoundTweak(D_, book, vp)
            /\ \/ book.release = last_donation_release_ts
               \/ book.release <= block_timestamp
      BY <2>1 DEF TweakedStep
    <3>2. block_timestamp' = block_timestamp
      BY <2>1 DEF TweakedStep
    <3>3. last_timestamp' \in {last_timestamp, block_timestamp}
      BY <3>1 DEF SoundTweak, UpdateOracle
    <3>4. \/ last_donation_release_ts' = last_donation_release_ts
          \/ last_donation_release_ts' <= block_timestamp
      BY <3>1 DEF SoundTweak
    <3> QED BY <1>2, <3>2, <3>3, <3>4 DEF NothingAheadOfTheClock
  <2>2. CASE FirstDepositStep \/ ExitStep
    BY <2>2 DEF FirstDepositStep, ExitStep, priceVars, donationVars,
                NothingAheadOfTheClock
  <2>3. CASE ClockStep
    BY <1>2, <2>3 DEF ClockStep, donationVars, NothingAheadOfTheClock
  <2> QED BY <1>1, <2>1, <2>2, <2>3
<1> QED BY <1>3, <1>4, <1>5 DEF NothingAheadOfTheClock, ProtectionCapped

(* No call of the pool remembers a time to come: while the caller does not *)
(* set the clock back, no time that _donation_shares, _claim_admin_fees or *)
(* the oracle subtracts from the clock wraps.                              *)
THEOREM ClocksStayBehind ==
  Spec /\ [][block_timestamp' >= block_timestamp]_vars => []NothingAheadOfTheClock
<1>1. Init => NothingAheadOfTheClock
  BY DonationAssumption, InputAssumption DEF Init, NothingAheadOfTheClock
<1>2. Inv /\ NothingAheadOfTheClock /\ [Next]_vars
        /\ [block_timestamp' >= block_timestamp]_vars
      => NothingAheadOfTheClock'
  <2>1. ASSUME Inv, UNCHANGED vars
        PROVE  block_timestamp' >= block_timestamp
    BY <2>1 DEF vars, Inv, TypeOK
  <2> QED BY <2>1, BehindTheClockStep
<1> QED BY <1>1, <1>2, Invariance, PTL DEF Spec

-----------------------------------------------------------------------------
(* The pool implements the ledger of its holders.                          *)

LedgerTokens == Plus(balances, admin_balances)
DeadShares == totalSupply - donation_shares - single_caller_lp_balance

(* What every call on a seeded pool leaves the holders, in the terms of    *)
(* the pool.                                                               *)
HoldersKept ==
  /\ lp_xcp_profit' >= lp_xcp_profit /\ virtual_price' >= lp_xcp_profit'
  /\ cached_price_scale' > 0
  /\ cached_price_scale' = cached_price_scale
       => virtual_price' >= virtual_price /\ donation_shares' >= donation_shares

LEMMA ExitLowersShares ==
  ASSUME Inv, Inv', D > 0, D' > 0, ExitStep
  PROVE  issued' <= issued
<1>1. PICK amount \in 0 .. totalSupply - 1 : totalSupply' = totalSupply - amount
  BY DEF ExitStep
<1>2. /\ totalSupply \in Nat \ {0} /\ issued \in Nat
      /\ donation_shares \in Nat /\ MINIMUM_LIQUIDITY \in Nat
      /\ totalSupply = issued + donation_shares + MINIMUM_LIQUIDITY
  BY SeededPool
<1>3. /\ totalSupply' = issued' + donation_shares' + MINIMUM_LIQUIDITY
      /\ issued' \in Nat
  BY AccountsAfter
<1>4. donation_shares' = donation_shares
  BY DEF ExitStep, donationVars
<1>5. \A i, j, s, m \in Nat : ~(j <= i) => j + s + m > i + s + m
  OBVIOUS
<1>6. ~(issued' <= issued)
        => issued' + donation_shares + MINIMUM_LIQUIDITY
             > issued + donation_shares + MINIMUM_LIQUIDITY
  BY <1>2, <1>3, <1>5
<1>7. ~(issued' <= issued) => totalSupply - amount > totalSupply
  BY <1>1, <1>2, <1>3, <1>4, <1>6
<1>8. amount \in Nat /\ totalSupply \in Nat
  BY <1>2
<1> QED BY <1>7, <1>8

(* The abstract state of a seeded pool, before and after a call.           *)
LEMMA LedgerState ==
  ASSUME Inv, Inv', D > 0, D' > 0
  PROVE  /\ LedgerTokens = vault /\ LedgerTokens' = vault'
         /\ single_caller_lp_balance = issued
         /\ single_caller_lp_balance' = issued'
         /\ DeadShares = MINIMUM_LIQUIDITY /\ DeadShares' = MINIMUM_LIQUIDITY
<1>1. LedgerTokens = vault /\ LedgerTokens' = vault'
  BY DEF LedgerTokens, Inv, Custody
<1>2. single_caller_lp_balance = issued /\ DeadShares = MINIMUM_LIQUIDITY
  BY CallerShares DEF DeadShares
<1>3. /\ single_caller_lp_balance' = issued'
      /\ totalSupply' = issued' + donation_shares' + MINIMUM_LIQUIDITY
      /\ issued' \in Nat /\ donation_shares' \in Nat /\ MINIMUM_LIQUIDITY \in Nat
  BY AccountsAfter, PoolAssumption
<1>4. \A a, b, c \in Nat : (a + b + c) - b - a = c
  OBVIOUS
<1>5. (issued' + donation_shares' + MINIMUM_LIQUIDITY) - donation_shares' - issued'
        = MINIMUM_LIQUIDITY
  BY <1>3, <1>4
<1>6. DeadShares' = MINIMUM_LIQUIDITY
  BY <1>3, <1>5 DEF DeadShares
<1> QED BY <1>1, <1>2, <1>3, <1>6

LEMMA HoldersAreSafe ==
  ASSUME Inv, Inv', D > 0, D' > 0, HoldersKept
  PROVE  Ledger!HoldersSafe
<1>1. DeadShares = MINIMUM_LIQUIDITY /\ DeadShares' = MINIMUM_LIQUIDITY
  BY LedgerState
<1>2. DeadShares > 0 /\ DeadShares' = DeadShares
  BY <1>1, PoolAssumption
<1> QED BY <1>2 DEF Ledger!HoldersSafe, HoldersKept, DeadShares

LEMMA LedgerTweak ==
  ASSUME Inv, Inv', ProfitCovered, TweakedStep
  PROVE  Ledger!Next
<1>1. PICK D_, book, vp :
        /\ SoundBook(book) /\ SoundTweak(D_, book, vp)
        /\ book.shares >= donation_shares
        /\ \/ Deposited(book) \/ Donated(book) \/ Withdrew(book)
           \/ Traded(book) \/ Ticked(D_, book)
  BY DEF TweakedStep
<1>2. D > 0 /\ D' > 0 /\ D \in Nat /\ D' \in Nat
  BY <1>1 DEF TweakedStep, SoundTweak, Inv, TypeOK
<1>3. PICK burn \in 0 .. Spendable(book) :
        /\ donation_shares' = book.shares - burn
        /\ burn > 0 => cached_price_scale' # cached_price_scale
  BY <1>1 DEF SoundTweak
<1>4. book.shares \in Nat /\ burn \in 0 .. book.shares
  <2>1. /\ Spendable(book) \in 0 .. UnlockedShares(book.shares, book.release)
        /\ UnlockedShares(book.shares, book.release) \in 0 .. book.shares
    BY <1>1, SpendableBounded DEF TweakedStep, Inv, TypeOK
  <2> QED BY <1>1, <1>3, <2>1 DEF SoundBook
<1>5. HoldersKept
  <2>1. lp_xcp_profit' >= lp_xcp_profit /\ virtual_price' >= lp_xcp_profit'
    BY <1>1 DEF SoundTweak, ProfitCovered, Inv, TypeOK
  <2>2. cached_price_scale' > 0
    BY DEF Inv
  <2>3. ASSUME cached_price_scale' = cached_price_scale
        PROVE  virtual_price' >= virtual_price /\ donation_shares' >= donation_shares
    <3>1. virtual_price' >= virtual_price
      BY <1>1, <2>3 DEF SoundTweak
    <3>2. burn = 0
      BY <1>3, <1>4, <2>3
    <3>3. donation_shares' = book.shares
      BY <1>3, <1>4, <3>2
    <3> QED BY <1>1, <3>1, <3>3
  <2> QED BY <2>1, <2>2, <2>3 DEF HoldersKept
<1>6. Ledger!HoldersSafe
  BY <1>2, <1>5, HoldersAreSafe
<1>7. /\ LedgerTokens = vault /\ LedgerTokens' = vault'
      /\ single_caller_lp_balance = issued /\ single_caller_lp_balance' = issued'
      /\ issued \in Nat /\ issued' \in Nat
  BY <1>2, LedgerState DEF Inv, TypeOK
<1>8. book.shares = donation_shares => donation_shares' <= donation_shares
  BY <1>3, <1>4
<1>9. CASE Deposited(book)
  BY <1>6, <1>7, <1>8, <1>9
     DEF Deposited, PaidIn, LedgerTokens, Ledger!Next, Ledger!Deposit, Ledger!Received
<1>10. CASE Donated(book)
  BY <1>6, <1>7, <1>10
     DEF Donated, PaidIn, LedgerTokens, Ledger!Next, Ledger!Donate, Ledger!Received
<1>11. CASE Withdrew(book)
  BY <1>6, <1>7, <1>8, <1>11
     DEF Withdrew, PaidOut, LedgerTokens, Ledger!Next, Ledger!Withdraw, Ledger!PaidOut
<1>12. CASE Traded(book)
  <2>1. ~Ledger!PaidOut /\ single_caller_lp_balance' = single_caller_lp_balance
        /\ donation_shares' <= donation_shares
    BY <1>7, <1>8, <1>12 DEF Traded, PaidOut, LedgerTokens, Ledger!PaidOut
  <2>2. single_caller_lp_balance' >= single_caller_lp_balance
    BY <1>7, <2>1
  <2> QED BY <1>6, <2>1, <2>2 DEF Ledger!Next, Ledger!Deposit, Ledger!Trade
<1>13. CASE Ticked(D_, book)
  BY <1>6, <1>7, <1>8, <1>13
     DEF Ticked, LedgerTokens, Ledger!Next, Ledger!Rebalance
<1> QED BY <1>1, <1>9, <1>10, <1>11, <1>12, <1>13

LEMMA LedgerExit ==
  ASSUME Inv, Inv', ProfitCovered, NeverDrainedStep, ExitStep
  PROVE  Ledger!Next
<1>1. D > 0 /\ D' > 0
  BY DEF ExitStep, NeverDrainedStep
<1>2. /\ virtual_price \in Nat /\ lp_xcp_profit \in Nat
      /\ donation_shares \in Nat /\ cached_price_scale' > 0
      /\ virtual_price >= lp_xcp_profit
  BY DEF Inv, TypeOK, ProfitCovered
<1>3. /\ virtual_price' = virtual_price /\ lp_xcp_profit' = lp_xcp_profit
      /\ donation_shares' = donation_shares
  BY DEF ExitStep, profitVars, donationVars
<1>4. HoldersKept
  BY <1>2, <1>3 DEF HoldersKept
<1>5. Ledger!HoldersSafe
  BY <1>1, <1>4, HoldersAreSafe
<1>6. /\ LedgerTokens = vault /\ LedgerTokens' = vault'
      /\ single_caller_lp_balance = issued /\ single_caller_lp_balance' = issued'
  BY <1>1, LedgerState
<1>7. issued' <= issued
  BY <1>1, ExitLowersShares
<1>8. donation_shares' <= donation_shares
  BY <1>2, <1>3
<1> QED
  BY <1>5, <1>6, <1>7, <1>8
     DEF ExitStep, PaidOut, LedgerTokens, Ledger!Next, Ledger!Withdraw, Ledger!PaidOut

LEMMA LedgerOpen ==
  ASSUME Inv, Inv', FirstDepositStep
  PROVE  Ledger!Next
<1>1. /\ D = 0 /\ PaidIn /\ single_caller_lp_balance' > 0
      /\ virtual_price' = PRECISION /\ lp_xcp_profit' = PRECISION
      /\ donation_shares' = donation_shares
      /\ cached_price_scale' = cached_price_scale
  BY DEF FirstDepositStep, donationVars, priceVars
<1>2. LedgerTokens = vault /\ LedgerTokens' = vault'
  BY DEF LedgerTokens, Inv, Custody
<1>3. DeadShares = 0 /\ single_caller_lp_balance = 0
  BY <1>1, CallerShares DEF DeadShares
<1>4. D' > 0
  <2>1. /\ D' \in Nat /\ donation_shares' \in Nat /\ MINIMUM_LIQUIDITY \in Nat
        /\ D' = 0 => totalSupply' = 0
    BY PoolAssumption DEF Inv, TypeOK, SharesAccounted
  <2>2. \A s, m \in Nat : MaxOf(0 - s - m, 0) = 0
    BY DEF MaxOf
  <2>3. MaxOf(0 - donation_shares' - MINIMUM_LIQUIDITY, 0) = 0
    BY <2>1, <2>2
  <2>4. totalSupply' = 0 => single_caller_lp_balance' = 0
    BY <2>3 DEF single_caller_lp_balance
  <2> QED BY <1>1, <2>1, <2>4
<1>5. DeadShares' = MINIMUM_LIQUIDITY
  <2>1. /\ single_caller_lp_balance' = issued'
        /\ totalSupply' = issued' + donation_shares' + MINIMUM_LIQUIDITY
        /\ issued' \in Nat /\ donation_shares' \in Nat /\ MINIMUM_LIQUIDITY \in Nat
    BY <1>4, AccountsAfter, PoolAssumption
  <2>2. \A a, b, c \in Nat : (a + b + c) - b - a = c
    OBVIOUS
  <2>3. (issued' + donation_shares' + MINIMUM_LIQUIDITY) - donation_shares' - issued'
          = MINIMUM_LIQUIDITY
    BY <2>1, <2>2
  <2> QED BY <2>1, <2>3 DEF DeadShares
<1> QED
  BY <1>1, <1>2, <1>3, <1>5
     DEF PaidIn, DeadShares, LedgerTokens, Ledger!Next, Ledger!Open, Ledger!Received

LEMMA LedgerStep ==
  ASSUME Inv, ProfitCovered, [Next]_vars
  PROVE  [Ledger!Next]_(Ledger!vars)
<1>1. /\ Inv'
      /\ TweakedStep \/ FirstDepositStep \/ ExitStep \/ ClockStep
  BY StepSound
<1>2. NeverDrainedStep
  BY OpenStep
<1>3. CASE ClockStep
  <2>1. LedgerTokens' = LedgerTokens
    BY <1>1, <1>3 DEF ClockStep, LedgerTokens, Inv, Custody
  <2>2. /\ totalSupply' = totalSupply /\ donation_shares' = donation_shares
        /\ virtual_price' = virtual_price /\ lp_xcp_profit' = lp_xcp_profit
        /\ cached_price_scale' = cached_price_scale
    BY <1>3 DEF ClockStep, profitVars, donationVars
  <2>3. /\ single_caller_lp_balance' = single_caller_lp_balance
        /\ DeadShares' = DeadShares
    BY <2>2 DEF single_caller_lp_balance, DeadShares
  <2> QED BY <2>1, <2>2, <2>3 DEF Ledger!vars, LedgerTokens, DeadShares
<1> QED BY <1>1, <1>2, <1>3, LedgerTweak, LedgerExit, LedgerOpen

(* Every history of the pool is a history of the ledger, though the pool   *)
(* stores no account of its caller: the map is derived from the supply.    *)
THEOREM HoldersAreHonoured == Spec => HonoursLedger
<1>1. Init => Ledger!Init
  <2> SUFFICES ASSUME Init PROVE Ledger!Init
    OBVIOUS
  <2>1. Inv
    BY InitInv
  <2>2. /\ D = 0 /\ vault = None /\ donation_shares = 0
        /\ virtual_price = PRECISION /\ lp_xcp_profit = PRECISION
    BY DEF Init
  <2>3. LedgerTokens = <<0, 0>> /\ cached_price_scale > 0
    BY <2>1, <2>2 DEF LedgerTokens, Inv, Custody, None
  <2>4. DeadShares = 0 /\ single_caller_lp_balance = 0
    BY <2>1, <2>2, CallerShares DEF DeadShares
  <2> QED BY <2>2, <2>3, <2>4 DEF Ledger!Init, LedgerTokens, DeadShares
<1>2. Inv /\ ProfitCovered /\ [Next]_vars => [Ledger!Next]_(Ledger!vars)
  BY LedgerStep
<1> QED
  BY <1>1, <1>2, Invariance, ProfitInvariance, PTL
     DEF Spec, HonoursLedger, Ledger!Spec

-----------------------------------------------------------------------------
(* The views.                                                              *)

OracleSteady ==
  totalSupply > 0 /\ block_timestamp' = block_timestamp
    => projected_price_oracle_at(block_timestamp)'
         = projected_price_oracle_at(block_timestamp)

(* A call that averages the price first leaves the projection as it was.   *)
LEMMA AveragedOnce ==
  ASSUME Inv, UpdateOracle, block_timestamp' = block_timestamp
  PROVE  projected_price_oracle_at(block_timestamp)'
           = projected_price_oracle_at(block_timestamp)
<1>1. last_timestamp \in Nat /\ block_timestamp \in Nat
  BY DEF Inv, TypeOK
<1>2. CASE last_timestamp < block_timestamp
  <2>1. /\ cached_price_oracle' = ema(block_timestamp - last_timestamp)
        /\ last_timestamp' = block_timestamp
    BY <1>2 DEF UpdateOracle
  <2>2. last_timestamp' >= block_timestamp'
    BY <1>1, <2>1
  <2>3. ~(last_timestamp >= block_timestamp)
    BY <1>1, <1>2
  <2> QED BY <2>1, <2>2, <2>3 DEF projected_price_oracle_at
<1>3. CASE ~(last_timestamp < block_timestamp)
  <2>1. /\ cached_price_oracle' = cached_price_oracle
        /\ last_timestamp' = last_timestamp
    BY <1>3 DEF UpdateOracle
  <2>2. last_timestamp >= block_timestamp
    BY <1>1, <1>3
  <2> QED BY <2>1, <2>2 DEF projected_price_oracle_at
<1> QED BY <1>2, <1>3

LEMMA OracleSteadyStep == Inv /\ [Next]_vars => OracleSteady
<1>1. ASSUME Inv, [Next]_vars, totalSupply > 0, block_timestamp' = block_timestamp
      PROVE  projected_price_oracle_at(block_timestamp)'
               = projected_price_oracle_at(block_timestamp)
  <2>1. TweakedStep \/ FirstDepositStep \/ ExitStep \/ ClockStep
    BY <1>1, StepSound
  <2>2. CASE TweakedStep
    BY <1>1, <2>2, AveragedOnce DEF TweakedStep, SoundTweak
  <2>3. CASE ExitStep \/ ClockStep
    <3>1. /\ cached_price_oracle' = cached_price_oracle
          /\ cached_price_scale' = cached_price_scale
          /\ last_prices' = last_prices /\ last_timestamp' = last_timestamp
      BY <1>1, <2>3 DEF ExitStep, ClockStep, priceVars
    <3> QED BY <1>1, <3>1 DEF projected_price_oracle_at, ema, CappedLastPrice
  <2>4. CASE FirstDepositStep
    BY <1>1, <2>4 DEF FirstDepositStep
  <2> QED BY <2>1, <2>2, <2>3, <2>4
<1> QED BY <1>1 DEF OracleSteady

(* Whatever a call of this second does to the pool, the oracle projected   *)
(* to this second stays: the first call averages over the time before it,  *)
(* the others find it done.                                                *)
THEOREM OracleIsSteady == Spec => OracleSteadyWithinSecond
BY OracleSteadyStep, Invariance, PTL
   DEF Spec, OracleSteadyWithinSecond, OracleSteady

LEMMA QuoteMatches ==
  ASSUME Inv, NEW i \in Coin, NEW dx \in Trades, NEW min_dy \in Minimums,
         Exchange(i, dx, min_dy)
  PROVE  vault[Other(i)] - vault'[Other(i)] \in get_dy(i, dx)
<1> DEFINE j == Other(i)
           offered == Plus(balances, Only(i, dx))
           xp == XP(offered, cached_price_scale)
           NetOf(gross, rate) == gross - (rate * gross) \div FEE_PRECISION
           OutOf(y, rate) == NetOf(Unscaled(xp[j] - y - 1, j), rate)
<1>1. /\ dx \in Nat /\ j \in Coin /\ Only(i, dx) \in PairsOfNat
      /\ Only(i, dx)[j] = 0
  BY InputAssumption, SinglePair
<1>2. vault \in PairsOfNat /\ vault[j] \in Nat
  BY <1>1, PairArithmetic DEF Inv, TypeOK, Coin
<1>y. PICK y \in {z \in get_y(xp, D, j) : z < xp[j]} :
        \E rate \in fee([xp EXCEPT ![j] = y]) :
          vault' = Minus(Plus(vault, Only(i, dx)),
                         Only(j, NetOf(GrossOutput(xp, y, j), rate)))
  BY DEF Exchange
<1>3. PICK rate \in fee([xp EXCEPT ![j] = y]) :
        vault' = Minus(Plus(vault, Only(i, dx)),
                       Only(j, NetOf(GrossOutput(xp, y, j), rate)))
  BY <1>y
<1>4. NetOf(GrossOutput(xp, y, j), rate) = OutOf(y, rate)
  BY DEF GrossOutput, Unscaled
<1>5. OutOf(y, rate) \in get_dy(i, dx)
  <2>1. get_dy(i, dx)
          = UNION {{OutOf(z, r) : r \in fee([xp EXCEPT ![j] = z])}
                     : z \in {w \in get_y(xp, D, j) : w < xp[j]}}
    BY DEF get_dy
  <2> HIDE DEF OutOf, xp
  <2> QED BY <1>3, <2>1
<1>6. OutOf(y, rate) \in Int
  <2>1. offered \in PairsOfNat
    BY <1>1, PairArithmetic DEF Inv, TypeOK
  <2>2. xp \in PairsOfNat
    BY <2>1, XPType DEF Inv, TypeOK
  <2>3. y \in Nat
    BY <1>3, GetYNat
  <2>4. [xp EXCEPT ![j] = y] \in PairsOfNat
    BY <1>1, <2>2, <2>3, PairExcept
  <2>5. rate \in 0 .. FEE_PRECISION
    BY <1>3, <2>4, FeeBounded, FeeAssumption
  <2>6. GrossOutput(xp, y, j) \in 0 .. offered[j]
    BY <1>1, <1>3, <2>1, <2>3, GrossOutputBounded DEF Inv, TypeOK
  <2>7. GrossOutput(xp, y, j) \in Int
    <3>1. offered[j] \in Nat
      BY <1>1, <2>1, PairArithmetic DEF Coin
    <3> QED BY <2>6, <3>1
  <2> QED BY <1>4, <2>5, <2>7, FeeAssumption
<1> DEFINE dy == OutOf(y, rate)
<1>7. vault'[j] = vault[j] - dy
  <2>1. Only(j, dy)[j] = dy
    BY <1>1 DEF Only, Coin
  <2>2. Plus(vault, Only(i, dx))[j] = vault[j]
    <3>1. Plus(vault, Only(i, dx))[j] = vault[j] + Only(i, dx)[j]
      BY <1>1 DEF Plus, Coin
    <3> QED BY <1>1, <1>2, <3>1
  <2>3. Minus(Plus(vault, Only(i, dx)), Only(j, dy))[j]
          = Plus(vault, Only(i, dx))[j] - Only(j, dy)[j]
    BY <1>1 DEF Minus, Coin
  <2> HIDE DEF OutOf, dy
  <2> QED BY <1>3, <1>4, <2>1, <2>2, <2>3 DEF dy
<1> HIDE DEF dy, j
<1>8. vault[j] - vault'[j] = dy
  BY <1>2, <1>6, <1>7 DEF dy
<1> QED BY <1>5, <1>8 DEF dy, j

(* Neither the rounding of the curve nor the fee after the trade tells a   *)
(* quote from the trade it announces, in any state and for any amount.     *)
THEOREM QuotesArePaid == Spec => PaysTheQuote
<1>1. Inv /\ [Next]_vars
        => [\A i \in Coin, dx \in Trades, min \in Minimums :
              Exchange(i, dx, min)
                => vault[Other(i)] - vault'[Other(i)] \in get_dy(i, dx)]_vars
  BY QuoteMatches
<1> QED BY <1>1, Invariance, PTL DEF Spec, PaysTheQuote

-----------------------------------------------------------------------------
(* Payments and the curve: what a trade or a fixed-out exit leaves in the  *)
(* pool lies above the root get_y stopped next to.                         *)

(* What a payment leaves is worth what the curve asked to be left.         *)
LEMMA XPAtLeast ==
  ASSUME NEW rest \in PairsOfNat, cached_price_scale \in Nat \ {0}, NEW k \in Coin,
         NEW z \in Nat, z * PRECISION <= rest[k] * CoinScale(k)
  PROVE  z <= XP(rest, cached_price_scale)[k]
<1> DEFINE xp == XP(rest, cached_price_scale)
           held == rest[2] * precisions[2] * cached_price_scale
<1>1. /\ rest[1] \in Nat /\ rest[2] \in Nat
      /\ precisions[1] \in Nat \ {0} /\ precisions[2] \in Nat \ {0}
      /\ PRECISION \in Nat \ {0}
  BY PoolAssumption, PrecisionAssumption DEF PairsOfNat
<1>2. xp[1] = rest[1] * precisions[1] /\ xp[2] = held \div PRECISION
  BY XPType
<1>3. CASE k = 1
  <2> DEFINE a == rest[1] * precisions[1]
  <2>1. a \in Nat
    BY <1>1, MulNat
  <2>2. rest[1] * (PRECISION * precisions[1]) = PRECISION * a
    BY <1>1
  <2> HIDE DEF a
  <2>3. z * PRECISION = PRECISION * z
    BY <1>1
  <2>4. PRECISION * z <= PRECISION * a
    BY <1>3, <2>2, <2>3 DEF CoinScale
  <2>5. ASSUME a + 1 <= z PROVE FALSE
    <3>1. PRECISION * (a + 1) <= PRECISION * z
      BY <1>1, <2>1, <2>5, MulMonotone
    <3>2. PRECISION * (a + 1) = PRECISION * a + PRECISION
      BY <1>1, <2>1
    <3>3. PRECISION * a \in Nat /\ PRECISION * z \in Nat
      BY <1>1, <2>1, MulNat
    <3> QED BY <1>1, <2>4, <3>1, <3>2, <3>3
  <2> QED BY <1>2, <1>3, <2>1, <2>5 DEF a
<1>4. CASE k = 2
  <2>1. held \in Nat /\ held = rest[2] * (cached_price_scale * precisions[2])
    BY <1>1, MulNat
  <2> HIDE DEF held
  <2>2. z * PRECISION <= held
    BY <1>4, <2>1 DEF CoinScale
  <2>3. z <= held \div PRECISION
    BY <1>1, <2>1, <2>2, DivAtLeast
  <2> QED BY <1>2, <1>4, <2>3
<1> QED BY <1>3, <1>4 DEF Coin

LEMMA PaymentLeaves ==
  ASSUME NEW bal \in PairsOfNat, NEW rest \in PairsOfNat,
         cached_price_scale \in Nat \ {0}, NEW k \in Coin,
         NEW z \in Nat, NEW paid \in Nat, rest[k] >= bal[k] - paid,
         paid * CoinScale(k) + z * PRECISION
           <= XP(bal, cached_price_scale)[k] * PRECISION
  PROVE  z <= XP(rest, cached_price_scale)[k]
<1> DEFINE xp == XP(bal, cached_price_scale)
<1>1. /\ bal[k] \in Nat /\ rest[k] \in Nat
      /\ xp[k] * PRECISION <= bal[k] * CoinScale(k)
      /\ CoinScale(k) \in Nat \ {0} /\ xp[k] \in Nat
  BY XPWorth DEF PairsOfNat, Coin
<1> DEFINE scale == CoinScale(k)
<1>2. bal[k] * scale <= (rest[k] + paid) * scale
  BY <1>1, MulMonotone
<1>3. (rest[k] + paid) * scale = rest[k] * scale + paid * scale
  BY <1>1
<1>4. /\ rest[k] * scale \in Nat /\ paid * scale \in Nat /\ bal[k] * scale \in Nat
      /\ z * PRECISION \in Nat /\ xp[k] * PRECISION \in Nat
  BY <1>1, MulNat, PrecisionAssumption
<1> HIDE DEF xp, scale
<1>5. z * PRECISION <= rest[k] * scale
  BY <1>1, <1>2, <1>3, <1>4 DEF scale, xp
<1> QED BY <1>5, XPAtLeast DEF scale

(* More of the other coin, more above the curve.                           *)
LEMMA OffRootGrows ==
  ASSUME NEW x \in Nat \ {0}, NEW more \in Nat, x <= more,
         NEW d \in Nat, NEW y \in Nat, OffRoot(x, d, y) > 0
  PROVE  OffRoot(more, d, y) > 0
<1>1. /\ b_of(x, d) \in Nat /\ c_of(x, d) \in Nat
      /\ b_of(more, d) \in Nat /\ c_of(more, d) \in Nat
  <2>1. more \in Nat \ {0}
    OBVIOUS
  <2> QED BY <2>1, CoefficientsNat
<1>2. b_of(x, d) <= b_of(more, d)
  <2>1. (d * A_MULTIPLIER) \div Ann \in Nat
    <3>1. Ann \in Nat \ {0}
      BY AmplificationAssumption DEF Ann, N_COINS
    <3> QED BY <3>1, MulNat, DivNat, AmplificationAssumption
  <2> QED BY <2>1 DEF b_of
<1>3. c_of(more, d) <= c_of(x, d)
  <2> DEFINE p == (d * d) \div (x * N_COINS)
             q == (d * d) \div (more * N_COINS)
             w == Ann * N_COINS
  <2>1. /\ d * d \in Nat /\ x * N_COINS \in Nat \ {0} /\ more * N_COINS \in Nat \ {0}
        /\ x * N_COINS <= more * N_COINS
    BY MulNat DEF N_COINS
  <2>2. p \in Nat /\ q \in Nat /\ (more * N_COINS) * q <= d * d
    BY <2>1, DivNat
  <2> HIDE DEF q
  <2>3. q * (x * N_COINS) <= d * d
    <3>1. q * (x * N_COINS) <= q * (more * N_COINS)
      BY <2>1, <2>2, MulMonotone
    <3>2. q * (more * N_COINS) = (more * N_COINS) * q
      BY <2>2 DEF N_COINS
    <3>3. q * (x * N_COINS) \in Nat /\ q * (more * N_COINS) \in Nat
      BY <2>1, <2>2, MulNat
    <3> QED BY <2>1, <2>2, <3>1, <3>2, <3>3
  <2>4. q <= p
    BY <2>1, <2>2, <2>3, DivAtLeast
  <2> HIDE DEF p
  <2>5. q * d * A_MULTIPLIER <= p * d * A_MULTIPLIER
    <3>1. d * A_MULTIPLIER \in Nat
      BY MulNat, AmplificationAssumption
    <3>2. q * (d * A_MULTIPLIER) <= p * (d * A_MULTIPLIER)
      BY <2>2, <2>4, <3>1, MulMonotone
    <3>3. q * d * A_MULTIPLIER = q * (d * A_MULTIPLIER)
          /\ p * d * A_MULTIPLIER = p * (d * A_MULTIPLIER)
      BY <2>2, AmplificationAssumption
    <3> QED BY <3>2, <3>3
  <2>6. q * d * A_MULTIPLIER \in Nat /\ p * d * A_MULTIPLIER \in Nat /\ w \in Nat \ {0}
    BY <2>2, MulNat, AmplificationAssumption DEF Ann, N_COINS
  <2>7. (q * d * A_MULTIPLIER) \div w <= (p * d * A_MULTIPLIER) \div w
    <3> HIDE DEF w
    <3> DEFINE a == q * d * A_MULTIPLIER
               b == p * d * A_MULTIPLIER
    <3>1. a \in Nat /\ b \in Nat /\ a <= b
      BY <2>5, <2>6
    <3> HIDE DEF a, b
    <3>2. a \div w \in Nat /\ w * (a \div w) <= a
      BY <2>6, <3>1, DivNat
    <3>3. (a \div w) * w = w * (a \div w) /\ w * (a \div w) \in Nat
      BY <2>6, <3>2, MulNat
    <3>4. (a \div w) * w <= b
      BY <3>1, <3>2, <3>3
    <3>5. a \div w <= b \div w
      BY <2>6, <3>1, <3>2, <3>4, DivAtLeast
    <3> QED BY <3>5 DEF a, b
  <2> QED BY <2>7 DEF c_of, p, q, w
<1>4. (b_of(x, d) - d) * y <= (b_of(more, d) - d) * y
  BY <1>1, <1>2, MulMonotone
<1>5. y * y \in Nat /\ (b_of(x, d) - d) * y \in Int /\ (b_of(more, d) - d) * y \in Int
  BY <1>1, MulNat
<1> QED BY <1>1, <1>3, <1>4, <1>5 DEF OffRoot

(* What an exchange pays is worth no more than what the curve sets free.   *)
LEMMA GrossOutputWorth ==
  ASSUME cached_price_scale \in Nat \ {0}, NEW xp \in PairsOfNat,
         NEW j \in Coin, NEW y \in Nat, y < xp[j]
  PROVE  /\ GrossOutput(xp, y, j) \in Nat
         /\ GrossOutput(xp, y, j) * CoinScale(j) + (y + 1) * PRECISION
              <= xp[j] * PRECISION
<1> DEFINE dy == xp[j] - y - 1
           p == precisions[j]
<1>1. /\ xp[j] \in Nat /\ dy \in Nat
      /\ precisions[1] \in Nat \ {0} /\ precisions[2] \in Nat \ {0}
      /\ PRECISION \in Nat \ {0} /\ dy * PRECISION \in Nat
  <2>1. xp[j] \in Nat
    BY DEF PairsOfNat, Coin
  <2>2. dy \in Nat
    BY <2>1
  <2> QED BY <2>1, <2>2, MulNat, PoolAssumption, PrecisionAssumption
<1>2. (y + 1) * PRECISION + dy * PRECISION = xp[j] * PRECISION
  BY <1>1
<1>3. CASE j = 1
  <2> DEFINE g == dy \div precisions[1]
  <2>1. g \in Nat /\ precisions[1] * g <= dy
    BY <1>1, DivNat
  <2>2. GrossOutput(xp, y, j) = g
    BY <1>3 DEF GrossOutput
  <2> HIDE DEF g, dy
  <2>3. PRECISION * (precisions[1] * g) <= PRECISION * dy
    <3>1. precisions[1] * g \in Nat
      BY <1>1, <2>1, MulNat
    <3> QED BY <1>1, <2>1, <3>1, MulMonotone
  <2>4. g * (PRECISION * precisions[1]) = PRECISION * (precisions[1] * g)
        /\ PRECISION * dy = dy * PRECISION
    BY <1>1, <2>1
  <2>5. g * CoinScale(j) <= dy * PRECISION
    BY <1>3, <2>3, <2>4 DEF CoinScale
  <2>6. g * CoinScale(j) \in Nat /\ (y + 1) * PRECISION \in Nat
    <3>1. g * (PRECISION * precisions[1]) \in Nat
      BY <1>1, <2>1, MulNat
    <3> QED BY <1>1, <1>3, <3>1, MulNat DEF CoinScale
  <2> QED BY <1>1, <1>2, <2>1, <2>2, <2>5, <2>6
<1>4. CASE j = 2
  <2> DEFINE h == (dy * PRECISION) \div cached_price_scale
             g == h \div precisions[2]
  <2>1. h \in Nat /\ cached_price_scale * h <= dy * PRECISION
    BY <1>1, DivNat
  <2> HIDE DEF h
  <2>2. g \in Nat /\ precisions[2] * g <= h
    BY <1>1, <2>1, DivNat
  <2>3. GrossOutput(xp, y, j) = g
    BY <1>4 DEF GrossOutput, h
  <2> HIDE DEF g, dy
  <2>4. cached_price_scale * (precisions[2] * g) <= cached_price_scale * h
    <3>1. precisions[2] * g \in Nat
      BY <1>1, <2>2, MulNat
    <3> QED BY <2>1, <2>2, <3>1, MulMonotone
  <2>5. g * (cached_price_scale * precisions[2])
          = cached_price_scale * (precisions[2] * g)
    BY <1>1, <2>2
  <2>6. /\ g * (cached_price_scale * precisions[2]) \in Nat
        /\ cached_price_scale * h \in Nat /\ (y + 1) * PRECISION \in Nat
    BY <1>1, <2>1, <2>2, MulNat
  <2>7. g * CoinScale(j) <= dy * PRECISION /\ g * CoinScale(j) \in Nat
    BY <1>1, <1>4, <2>1, <2>4, <2>5, <2>6 DEF CoinScale
  <2> QED BY <1>1, <1>2, <2>2, <2>3, <2>6, <2>7
<1> QED BY <1>3, <1>4 DEF Coin

LEMMA LowerBoundNat == fee_lower_bound \in Nat
BY FeeAssumption DEF fee_lower_bound, clamp_fee, MinOf, MaxOf

LEMMA ExchangeLeaves ==
  ASSUME Inv, NEW i \in Coin, NEW dx \in Trades, NEW min_dy \in Minimums,
         Exchange(i, dx, min_dy)
  PROVE  \E gross \in 0 .. balances[Other(i)] :
           TradesWithinTheCurve(i, dx, gross)
<1> DEFINE j == Other(i)
           offered == Plus(balances, Only(i, dx))
           xp == XP(offered, cached_price_scale)
           Rest(g) == Minus(offered, Only(j, g))
           Charged(rate, g) == (rate * g) \div FEE_PRECISION
           Cut(rate, g) == (Charged(rate, g) * reserved_profit_fraction
                              * admin_fee) \div (FEE_PRECISION * FEE_PRECISION)
<1>1. /\ dx \in Nat /\ j \in Coin /\ j # i /\ Other(j) = i
      /\ Only(i, dx) \in PairsOfNat
      /\ Only(i, dx)[i] = dx /\ Only(i, dx)[j] = 0
  <2>1. Other(j) = i
    BY DEF Other, Coin
  <2> QED BY <2>1, InputAssumption, SinglePair
<1>2. /\ balances \in PairsOfNat /\ cached_price_scale \in Nat \ {0} /\ D \in Nat
  BY DEF Inv, TypeOK
<1>3. /\ offered \in PairsOfNat /\ offered[j] = balances[j] /\ offered[j] \in Nat
      /\ offered[i] = balances[i] + dx /\ offered[i] \in Nat
      /\ balances[i] \in Nat /\ balances[j] \in Nat
  BY <1>1, <1>2, PairArithmetic DEF Coin
<1>4. vault \in PairsOfNat /\ vault[j] \in Nat
  BY <1>1, PairArithmetic DEF Inv, TypeOK, Coin
<1>5. xp \in PairsOfNat
  BY <1>2, <1>3, XPType
<1>6. PICK y \in get_y(xp, D, j) :
        /\ y < xp[j]
        /\ \E rate \in fee([xp EXCEPT ![j] = y]) :
             LET gross == GrossOutput(xp, y, j)
             IN  /\ balances' = Retained(balances, Only(i, dx),
                                         Only(j, gross - Charged(rate, gross)),
                                         Only(j, Cut(rate, gross)))
                 /\ vault' = Minus(Plus(vault, Only(i, dx)),
                                   Only(j, gross - Charged(rate, gross)))
  BY DEF Exchange
<1> DEFINE gross == GrossOutput(xp, y, j)
<1>7. PICK rate \in fee([xp EXCEPT ![j] = y]) :
        /\ balances' = Retained(balances, Only(i, dx), Only(j, gross - Charged(rate, gross)),
                                Only(j, Cut(rate, gross)))
        /\ vault' = Minus(Plus(vault, Only(i, dx)), Only(j, gross - Charged(rate, gross)))
  BY <1>6
<1> HIDE DEF xp
<1>8. y \in Nat /\ rate \in 0 .. FEE_PRECISION /\ rate >= fee_lower_bound
  <2>1. y \in Nat
    BY GetYNat
  <2>2. [xp EXCEPT ![j] = y] \in PairsOfNat
    BY <1>1, <1>5, <2>1, PairExcept
  <2> QED BY <2>1, <2>2, FeeBounded, FeeAssumption
<1>9. /\ gross \in 0 .. balances[j] /\ gross \in Nat
      /\ gross * CoinScale(j) + (y + 1) * PRECISION <= xp[j] * PRECISION
  <2>1. gross \in 0 .. offered[j]
    BY <1>1, <1>2, <1>3, <1>6, <1>8, GrossOutputBounded DEF xp
  <2>2. gross * CoinScale(j) + (y + 1) * PRECISION <= xp[j] * PRECISION
    BY <1>1, <1>2, <1>5, <1>6, <1>8, GrossOutputWorth
  <2> HIDE DEF gross
  <2> QED BY <1>3, <2>1, <2>2
<1> HIDE DEF gross
<1> DEFINE charged == Charged(rate, gross)
           c == Cut(rate, gross)
           left == XP(Rest(gross), cached_price_scale)
<1>10. charged \in 0 .. gross /\ charged \in Nat
  <2>1. (gross * rate) \div FEE_PRECISION \in 0 .. gross
    BY <1>8, <1>9, PartOfWhole, FeeAssumption
  <2>2. gross * rate = rate * gross
    BY <1>8, <1>9, FeeAssumption
  <2>3. charged \in 0 .. gross
    BY <2>1, <2>2
  <2> HIDE DEF charged
  <2> QED BY <1>9, <2>3
(* The fee is at least the lower bound's, whatever the policy asked for.   *)
<1>11. (fee_lower_bound * gross) \div FEE_PRECISION <= charged
  <2>1. /\ fee_lower_bound \in Nat /\ rate \in Nat
        /\ FEE_PRECISION \in Nat \ {0}
    BY <1>8, LowerBoundNat, FeeAssumption
  <2>2. gross * fee_lower_bound <= gross * rate
    BY <1>8, <1>9, <2>1, MulMonotone
  <2> DEFINE least == fee_lower_bound * gross
             taken == rate * gross
  <2>3. least \in Nat /\ taken \in Nat /\ least <= taken
    <3>1. /\ fee_lower_bound * gross = gross * fee_lower_bound
          /\ rate * gross = gross * rate
      BY <1>9, <2>1
    <3> QED BY <1>9, <2>1, <2>2, <3>1, MulNat
  <2>4. charged = taken \div FEE_PRECISION
    OBVIOUS
  <2> HIDE DEF least, taken, charged
  <2>5. least \div FEE_PRECISION \in Nat /\ FEE_PRECISION * (least \div FEE_PRECISION) <= least
    BY <2>1, <2>3, DivNat
  <2> DEFINE q == least \div FEE_PRECISION
  <2>6. q * FEE_PRECISION <= taken
    <3>1. q * FEE_PRECISION = FEE_PRECISION * q /\ FEE_PRECISION * q \in Nat
      BY <2>1, <2>5, MulNat
    <3> QED BY <2>3, <2>5, <3>1
  <2>7. q <= taken \div FEE_PRECISION
    BY <2>1, <2>3, <2>5, <2>6, DivAtLeast
  <2> QED BY <2>4, <2>7 DEF q, least
<1> HIDE DEF Charged
<1>12. c \in 0 .. charged
  <2> HIDE DEF charged
  <2>1. c = (charged * reserved_profit_fraction * admin_fee)
              \div (FEE_PRECISION * FEE_PRECISION)
    BY DEF charged
  <2> QED BY <1>10, <2>1, PartOfPart, FeeAssumption
<1>13. /\ balances' = Retained(balances, Only(i, dx), Only(j, gross - charged), Only(j, c))
       /\ vault' = Minus(Plus(vault, Only(i, dx)), Only(j, gross - charged))
  BY <1>7
<1> HIDE DEF c, charged
<1>14. /\ balances'[j] = balances[j] - (gross - charged) - c
       /\ vault'[j] = vault[j] - (gross - charged)
  <2>1. CASE i = 1
    <3>1. j = 2
      BY <2>1 DEF Other
    <3>2. vault'[j] = vault[j] - (gross - charged)
      BY <1>4, <1>9, <1>10, <1>13, <2>1, <3>1 DEF Plus, Minus, Only
    <3> QED BY <1>3, <1>9, <1>10, <1>12, <1>13, <2>1, <3>1, <3>2
            DEF Retained, Plus, Minus, Only
  <2>2. CASE i = 2
    <3>1. j = 1
      BY <2>2 DEF Other
    <3>2. vault'[j] = vault[j] - (gross - charged)
      BY <1>4, <1>9, <1>10, <1>13, <2>2, <3>1 DEF Plus, Minus, Only
    <3> QED BY <1>3, <1>9, <1>10, <1>12, <1>13, <2>2, <3>1, <3>2
            DEF Retained, Plus, Minus, Only
  <2> QED BY <2>1, <2>2 DEF Coin
<1>15. /\ vault[j] - vault'[j] <= gross - (fee_lower_bound * gross) \div FEE_PRECISION
       /\ balances'[j] >= balances[j] - gross
  <2>1. (fee_lower_bound * gross) \div FEE_PRECISION \in Int
    BY <1>9, LowerBoundNat, MulNat, DivNat, FeeAssumption
  <2> DEFINE least == (fee_lower_bound * gross) \div FEE_PRECISION
  <2> HIDE DEF least
  <2>2. least \in Int /\ least <= charged
    BY <1>11, <2>1 DEF least
  <2>3. vault[j] - vault'[j] <= gross - least
    BY <1>4, <1>9, <1>10, <1>14, <2>2
  <2>4. balances'[j] >= balances[j] - gross
    BY <1>3, <1>9, <1>10, <1>12, <1>14
  <2> QED BY <2>3, <2>4 DEF least
<1>16. /\ Rest(gross) \in PairsOfNat
       /\ Rest(gross)[j] = offered[j] - gross /\ Rest(gross)[i] = offered[i]
  <2>1. /\ Only(j, gross) \in PairsOfNat
        /\ Only(j, gross)[j] = gross /\ Only(j, gross)[i] = 0
    BY <1>1, <1>9, SinglePair
  <2> HIDE DEF offered
  <2>2. Only(j, gross)[1] <= offered[1] /\ Only(j, gross)[2] <= offered[2]
    BY <1>1, <1>3, <1>9, <2>1 DEF Coin
  <2> QED BY <1>1, <1>3, <2>1, <2>2, PairArithmetic DEF Coin
<1> HIDE DEF Rest, offered
<1>17. y + 1 <= left[j]
  <2>1. Rest(gross)[j] >= offered[j] - gross
    BY <1>3, <1>9, <1>16
  <2> QED BY <1>1, <1>2, <1>3, <1>8, <1>9, <1>16, <2>1, PaymentLeaves DEF xp
<1>18. xp[i] <= left[i] /\ xp[i] \in Nat /\ left[i] \in Nat /\ left[j] \in Nat
  <2>1. xp[i] \in Nat /\ left[i] \in Nat /\ left[j] \in Nat
    BY <1>1, <1>2, <1>3, <1>16, XPWorth DEF xp
  <2>2. CoinScale(i) \in Nat \ {0}
    BY <1>2, <1>3, XPWorth
  <2>3. 0 * CoinScale(i) + xp[i] * PRECISION <= xp[i] * PRECISION
    BY <2>1, <2>2, PrecisionAssumption
  <2>4. Rest(gross)[i] >= offered[i] - 0
    BY <1>3, <1>16
  <2> QED BY <1>2, <1>3, <1>16, <2>1, <2>3, <2>4, PaymentLeaves DEF xp
<1>19. xp[i] > 0 /\ OffRoot(xp[i], D, y + 1) > 0
  <2>1. xp[Other(j)] > 0
    BY <1>6 DEF get_y
  <2> QED BY <1>1, <1>2, <1>6, <1>18, <2>1, GetYFindsTheRoot
<1>20. OffRoot(xp[i], D, left[j]) > 0
  BY <1>2, <1>8, <1>17, <1>18, <1>19, AboveRoot
<1>21. OffRoot(left[i], D, left[j]) > 0
  BY <1>2, <1>18, <1>19, <1>20, OffRootGrows
<1>22. left = XP(Minus(Plus(balances, Only(i, dx)), Only(j, gross)), cached_price_scale)
  BY DEF Rest, offered
<1> HIDE DEF left
<1>23. TradesWithinTheCurve(i, dx, gross)
  BY <1>15, <1>21, <1>22 DEF TradesWithinTheCurve
<1> QED BY <1>9, <1>23

LEMMA FixedOutLeaves ==
  ASSUME Inv, NEW burn \in FixedOuts, NEW i \in Coin, NEW min \in Minimums,
         RemoveLiquidityFixedOut(burn[1], i, burn[2], min)
  PROVE  ExitsWithinTheCurve(burn[1], i)
<1> DEFINE token_amount == burn[1]
           amount_i == burn[2]
           j == Other(i)
           xp == XP(balances, cached_price_scale)
           dD == (token_amount * D) \div totalSupply
           dDFee(rate) == (dD * rate) \div FEE_PRECISION + 1
           DNew(rate) == D - (dD - dDFee(rate))
           Dy(y) == ((xp[j] - (y + 1)) * PRECISION) \div CoinScale(j)
           Paid(y) == Plus(Only(i, amount_i), Only(j, Dy(y)))
<1>1. totalSupply > 0 /\ token_amount <= single_caller_lp_balance
  BY DEF RemoveLiquidityFixedOut
<1>2. PICK exit \in PreliminaryExits(dD, i, amount_i) :
        /\ \A k \in Coin : exit.amounts[k] <= balances[k]
        /\ \E rate \in calc_token_fee(exit.amounts, exit.xp,
                          Minus(balances, exit.amounts), FALSE) :
             /\ dD >= dDFee(rate)
             /\ \E y \in get_y(exit.xp, DNew(rate), j) :
                  /\ y < xp[j]
                  /\ \A k \in Coin : Paid(y)[k] <= balances[k]
                  /\ vault' = Minus(Minus(vault, Paid(y)), Claimed)
  BY DEF RemoveLiquidityFixedOut
<1>3. PICK rate \in calc_token_fee(exit.amounts, exit.xp,
                      Minus(balances, exit.amounts), FALSE) :
        /\ dD >= dDFee(rate)
        /\ \E y \in get_y(exit.xp, DNew(rate), j) :
             /\ y < xp[j]
             /\ \A k \in Coin : Paid(y)[k] <= balances[k]
             /\ vault' = Minus(Minus(vault, Paid(y)), Claimed)
  BY <1>2
<1>4. PICK y \in get_y(exit.xp, DNew(rate), j) :
        /\ y < xp[j]
        /\ \A k \in Coin : Paid(y)[k] <= balances[k]
        /\ vault' = Minus(Minus(vault, Paid(y)), Claimed)
  BY <1>3
<1>5. /\ burn \in Nat \X Nat /\ token_amount \in Nat /\ amount_i \in Nat
      /\ balances \in PairsOfNat /\ admin_balances \in PairsOfNat
      /\ vault = Plus(balances, admin_balances)
      /\ cached_price_scale \in Nat \ {0} /\ block_timestamp \in Nat
      /\ donation_protection_expiry_ts \in Nat
  BY InputAssumption DEF Inv, TypeOK, Custody
<1> HIDE DEF token_amount, amount_i
<1>6. /\ D \in Nat /\ totalSupply \in Nat \ {0} /\ issued \in Nat
      /\ donation_shares \in Nat /\ MINIMUM_LIQUIDITY \in Nat
      /\ totalSupply = issued + donation_shares + MINIMUM_LIQUIDITY
  BY <1>1, SeededPool
<1>7. token_amount \in 0 .. totalSupply
  BY <1>1, <1>5, <1>6 DEF single_caller_lp_balance, MaxOf
<1>8. /\ exit.xp \in PairsOfNat /\ exit.amounts \in PairsOfNat
      /\ amount_i * CoinScale(i) + exit.xp[i] * PRECISION <= xp[i] * PRECISION
  BY <1>5, PreliminaryExitsType
<1>k. exit.xp[i] \in Nat
  <2>1. exit.xp[1] \in Nat /\ exit.xp[2] \in Nat
    BY <1>8 DEF PairsOfNat
  <2> QED BY <2>1 DEF Coin
<1>9. rate \in Nat
  <2>1. Minus(balances, exit.amounts) \in PairsOfNat
    BY <1>2, <1>5, <1>8, PairArithmetic DEF Coin
  <2> QED BY <1>5, <1>6, <1>8, <2>1, CalcTokenFeeNat
<1>10. dD \in 0 .. D
  <2>1. (D * token_amount) \div totalSupply \in 0 .. D
    BY <1>6, <1>7, PartOfWhole
  <2>2. D * token_amount = token_amount * D
    BY <1>5, <1>6
  <2> QED BY <2>1, <2>2
<1> HIDE DEF dD
<1> DEFINE d == DNew(rate)
<1>11. d \in Nat /\ d <= D /\ d > D - dD
  <2>1. dD * rate \in Nat
    BY <1>6, <1>9, <1>10, MulNat
  <2>2. dDFee(rate) \in Nat \ {0} /\ dD >= dDFee(rate)
    BY <1>3, <2>1, DivNat, FeeAssumption
  <2> HIDE DEF dDFee
  <2> QED BY <1>6, <1>10, <2>2
<1> HIDE DEF DNew
<1>12. /\ y \in Nat /\ j \in Coin /\ j # i /\ Other(j) = i
       /\ xp[1] \in Nat /\ xp[2] \in Nat
  <2>1. Other(j) = i
    BY DEF Other, Coin
  <2> QED BY <1>5, <2>1, GetYNat, SinglePair, XPType, PairArithmetic
<1> DEFINE dy == Dy(y)
           paid == Paid(y)
           rest == Minus(balances, paid)
           left == XP(rest, cached_price_scale)
<1>13. /\ dy \in Nat
       /\ dy * CoinScale(j) + (y + 1) * PRECISION <= xp[j] * PRECISION
  <2> DEFINE gap == xp[j] - (y + 1)
             scale == CoinScale(j)
  <2>1. gap \in Nat
    BY <1>4, <1>12 DEF Coin
  <2>2. scale \in Nat \ {0}
    BY <1>5, <1>12, XPWorth
  <2>3. gap * PRECISION \in Nat
    BY <2>1, MulNat, PrecisionAssumption
  <2>4. gap * PRECISION + (y + 1) * PRECISION = xp[j] * PRECISION
    <3>1. xp[j] = gap + (y + 1)
      BY <1>12, <2>1 DEF Coin
    <3> QED BY <1>12, <2>1, <3>1, PrecisionAssumption
  <2>5. dy = (gap * PRECISION) \div scale
    OBVIOUS
  <2> HIDE DEF gap, scale, dy
  <2>6. dy \in Nat /\ scale * dy <= gap * PRECISION
    BY <2>2, <2>3, <2>5, DivNat
  <2>7. scale * dy = dy * scale /\ dy * scale \in Nat /\ (y + 1) * PRECISION \in Nat
    BY <1>12, <2>2, <2>6, MulNat, PrecisionAssumption
  <2> QED BY <2>3, <2>4, <2>6, <2>7 DEF scale
<1> HIDE DEF Dy
<1>14. /\ paid \in PairsOfNat /\ paid[i] = amount_i /\ paid[j] = dy
  <2>1. /\ Only(i, amount_i) \in PairsOfNat /\ Only(i, amount_i)[i] = amount_i
        /\ Only(i, amount_i)[j] = 0
    BY <1>5, <1>12, SinglePair
  <2>2. Only(j, dy) \in PairsOfNat /\ Only(j, dy)[j] = dy /\ Only(j, dy)[i] = 0
    BY <1>12, <1>13, SinglePair
  <2>3. /\ paid \in PairsOfNat
        /\ paid[i] = Only(i, amount_i)[i] + Only(j, dy)[i]
        /\ paid[j] = Only(i, amount_i)[j] + Only(j, dy)[j]
    BY <1>12, <2>1, <2>2, PairArithmetic DEF Coin
  <2> HIDE DEF Paid, dy
  <2> QED BY <1>5, <1>13, <2>1, <2>2, <2>3
<1>15. paid[1] <= balances[1] /\ paid[2] <= balances[2]
  BY <1>4 DEF Coin
<1>16. vault' = Minus(Minus(vault, paid), Claimed)
  BY <1>4
<1> HIDE DEF Paid, dy
<1>17. /\ rest \in PairsOfNat
       /\ rest[i] = balances[i] - amount_i /\ rest[j] = balances[j] - dy
  BY <1>5, <1>12, <1>14, <1>15, PairArithmetic DEF Coin
<1>18. LeftByExit = left
  <2>1. Claimed \in PairsOfNat
    BY <1>5, SinglePair DEF Claimed, None, PairsOfNat
  <2>2. Minus(vault', Minus(admin_balances, Claimed)) = Minus(balances, paid)
    <3>1. /\ balances[1] \in Nat /\ balances[2] \in Nat /\ paid[1] \in Nat /\ paid[2] \in Nat
          /\ admin_balances[1] \in Nat /\ admin_balances[2] \in Nat
          /\ Claimed[1] \in Nat /\ Claimed[2] \in Nat
      BY <1>5, <1>14, <2>1, PairArithmetic
    <3> QED BY <1>5, <1>16, <3>1 DEF Plus, Minus
  <2> QED BY <2>2 DEF LeftByExit
<1> HIDE DEF rest, paid
<1>19. exit.xp[i] <= left[i] /\ y + 1 <= left[j]
  <2>1. balances[i] \in Nat /\ balances[j] \in Nat
    <3>1. balances[1] \in Nat /\ balances[2] \in Nat
      BY <1>5 DEF PairsOfNat
    <3> QED BY <1>12, <3>1 DEF Coin
  <2>2. exit.xp[i] <= left[i]
    BY <1>5, <1>8, <1>k, <1>17, <2>1, PaymentLeaves
  <2>3. y + 1 <= left[j]
    BY <1>5, <1>12, <1>13, <1>17, <2>1, PaymentLeaves
  <2> QED BY <2>2, <2>3
<1>20. left[i] \in Nat /\ left[j] \in Nat
  BY <1>5, <1>12, <1>17, XPWorth
<1>21. exit.xp[i] \in Nat \ {0} /\ OffRoot(exit.xp[i], d, y + 1) > 0
  <2>1. y \in get_y(exit.xp, d, j)
    BY <1>4 DEF DNew
  <2>2. exit.xp[Other(j)] > 0
    BY <2>1 DEF get_y
  <2>3. exit.xp[i] \in Nat \ {0}
    BY <1>12, <1>k, <2>2
  <2> QED BY <1>11, <1>12, <2>1, <2>3, GetYFindsTheRoot
<1> HIDE DEF left, d
<1>22. OffRoot(exit.xp[i], d, left[j]) > 0
  BY <1>11, <1>12, <1>19, <1>20, <1>21, AboveRoot
<1>23. OffRoot(left[i], d, left[j]) > 0
  BY <1>11, <1>19, <1>20, <1>21, <1>22, OffRootGrows
<1>24. d \in D - dD + 1 .. D
  BY <1>6, <1>10, <1>11
<1> QED BY <1>18, <1>23, <1>24 DEF ExitsWithinTheCurve, dD, token_amount

LEMMA PaymentsKeepTheCurve ==
  Inv => /\ \A i \in Coin, dx \in Trades, min \in Minimums :
              Exchange(i, dx, min)
                => \E gross \in 0 .. balances[Other(i)] :
                     TradesWithinTheCurve(i, dx, gross)
         /\ \A burn \in FixedOuts, i \in Coin, min \in Minimums :
              RemoveLiquidityFixedOut(burn[1], i, burn[2], min)
                => ExitsWithinTheCurve(burn[1], i)
BY ExchangeLeaves, FixedOutLeaves

(* No payment crosses the curve, for every amount, every rounding, every   *)
(* fee policy and every state the pool reaches.                            *)
THEOREM PaymentsStayAboveTheCurve == Spec => CurveIsNeverCrossed
BY PaymentsKeepTheCurve, Invariance, PTL DEF CurveIsNeverCrossed

-----------------------------------------------------------------------------
(* What every call promises: none of it is about which calls came before,  *)
(* so it holds wherever Inv does.                                          *)

CallPromises ==
  /\ Undiluted /\ WrittenPriceIsLive /\ Towards /\ OracleClockAdvances
  /\ BurnsAvailable /\ UnlocksNothing /\ SpendsAsNeeded
  /\ PassesTheCapByExit /\ OracleSteady /\ NeverDrainedStep

LEMMA CallsKeepPromises ==
  ASSUME Inv, [Next]_vars
  PROVE  CallPromises
BY UndilutedStep, WrittenPriceStep, TowardsStep, OracleClockStep,
   BurnsAvailableStep, UnlocksNothingStep, SpendsAsNeededStep,
   PassesTheCapStep, OracleSteadyStep, OpenStep DEF CallPromises

(* Pools of a caller who does not undo a tick that throws.  Such a tick    *)
(* may accrue the same profit twice, so ProfitCovered is not among what    *)
(* these pools keep.                                                       *)
TornTickStep ==
  /\ UpdateOracle
  /\ UNCHANGED <<balances, D, totalSupply, cached_price_scale, virtual_price,
                 admin_balances, last_admin_fee_claim_timestamp,
                 block_timestamp, donation_shares, last_donation_release_ts,
                 donation_protection_expiry_ts,
                 donation_protection_extension_remainder, vault, issued>>

LEMMA TornTickSound ==
  ASSUME Inv, TickThrows
  PROVE  Inv' /\ TornTickStep
<1>1. TornTickStep
  BY DEF TickThrows, TornTickStep, adminVars, donationVars, historyVars,
         protectionVars
<1>2. cached_price_oracle' \in Nat /\ last_timestamp' \in Nat
  BY <1>1, EmaNat DEF TornTickStep, UpdateOracle, Inv, TypeOK
<1>3. last_prices' \in Nat
  <2>1. CASE get_p(CurrentXP, D) = {}
    BY <2>1 DEF TickThrows, Inv, TypeOK
  <2>2. CASE get_p(CurrentXP, D) # {}
    <3>1. PICK p \in get_p(CurrentXP, D) :
            last_prices' = (p * cached_price_scale) \div PRECISION
      BY <2>2 DEF TickThrows
    <3>2. p \in Nat /\ cached_price_scale \in Nat
      BY GetPNat DEF Inv, TypeOK
    <3> QED BY <3>1, <3>2, MulNat, DivNat, PrecisionAssumption
  <2> QED BY <2>1, <2>2
<1>4. /\ xcp_profit' \in Nat /\ lp_xcp_profit' \in Nat
      /\ PRECISION <= lp_xcp_profit' /\ lp_xcp_profit' <= xcp_profit'
  <2>1. /\ xcp_profit \in Nat /\ lp_xcp_profit \in Nat /\ virtual_price \in Nat
        /\ PRECISION <= lp_xcp_profit /\ lp_xcp_profit <= xcp_profit
        /\ totalSupply \in Nat
    BY DEF Inv, TypeOK, ProfitReserved
  <2>2. PICK vp \in LiveVirtualPrices :
          \/ UNCHANGED <<xcp_profit, lp_xcp_profit>>
          \/ ~(vp < virtual_price) /\ AccrueProfit(vp)
    BY DEF TickThrows
  <2>3. vp \in Nat
    BY <2>1, LiveVirtualPriceUnique
  <2>4. CASE ~(vp < virtual_price) /\ AccrueProfit(vp)
    <3>1. vp >= virtual_price
      BY <2>1, <2>3, <2>4
    <3> QED BY <2>1, <2>3, <2>4, <3>1, AccrualProtects DEF AccrueProfit
  <2> QED BY <2>1, <2>2, <2>4
<1>5. TypeOK'
  BY <1>1, <1>2, <1>3, <1>4 DEF TornTickStep, Inv, TypeOK
<1>6. SharesAccounted' /\ ProfitReserved' /\ Custody'
  BY <1>1, <1>4 DEF TornTickStep, Inv, SharesAccounted, ProfitReserved, Custody
<1> QED BY <1>1, <1>5, <1>6 DEF TornTickStep, Inv

LEMMA TornTickKeepsPromises ==
  ASSUME Inv, TornTickStep
  PROVE  CallPromises
<1>1. /\ UpdateOracle
      /\ D' = D /\ totalSupply' = totalSupply /\ balances' = balances
      /\ cached_price_scale' = cached_price_scale
      /\ virtual_price' = virtual_price
      /\ donation_shares' = donation_shares
      /\ last_donation_release_ts' = last_donation_release_ts
      /\ block_timestamp' = block_timestamp
  BY DEF TornTickStep
<1>2. /\ D \in Nat /\ totalSupply \in Nat /\ donation_shares \in Nat
      /\ cached_price_scale \in Nat /\ last_timestamp \in Nat
      /\ block_timestamp \in Nat /\ virtual_price \in Nat
      /\ MINIMUM_LIQUIDITY \in Nat \ {0} /\ issued \in Nat
  BY PoolAssumption DEF Inv, TypeOK
<1>3. Undiluted
  <2>1. D * totalSupply \in Nat
    BY <1>2, MulNat
  <2> QED BY <1>1, <2>1 DEF Undiluted
<1>4. WrittenPriceIsLive
  BY <1>1, <1>2 DEF WrittenPriceIsLive
<1>5. Towards
  <2>1. Distance(cached_price_scale, cached_price_scale) = 0
    BY <1>2 DEF Distance
  <2> QED BY <1>1, <2>1 DEF Towards
<1>6. OracleClockAdvances
  BY <1>1, <1>2 DEF UpdateOracle, OracleClockAdvances
<1>7. BurnsAvailable /\ SpendsAsNeeded
  BY <1>1, <1>2 DEF BurnsAvailable, SpendsAsNeeded
<1>8. UnlocksNothing
  <2>1. UnlockedShares(donation_shares, last_donation_release_ts) \in Nat
    BY OpenUnlocked
  <2>2. UnlockedShares(donation_shares', last_donation_release_ts')
          = UnlockedShares(donation_shares, last_donation_release_ts)
    BY <1>1 DEF UnlockedShares
  <2> QED BY <1>1, <1>2, <2>1, <2>2 DEF UnlocksNothing, MaxOf
<1>9. PassesTheCapByExit
  <2>1. DonatedRatio' = DonatedRatio
    BY <1>1 DEF DonatedRatio
  <2>2. totalSupply > 0
          => DonatedRatio \in Nat /\ donation_shares_max_ratio \in Nat
    BY <1>2, MulNat, DivNat, PrecisionAssumption, DonationAssumption
       DEF DonatedRatio
  <2> QED BY <2>1, <2>2 DEF PassesTheCapByExit, MaxOf
<1>10. OracleSteady
  BY <1>1, AveragedOnce DEF OracleSteady
<1>11. NeverDrainedStep
  <2>1. /\ D = 0 <=> totalSupply = 0
        /\ D > 0 => balances[1] > 0 /\ balances[2] > 0
    BY <1>2, SeededPool DEF Inv
  <2>2. ASSUME D > 0 PROVE totalSupply >= MINIMUM_LIQUIDITY
    <3>1. totalSupply = issued + donation_shares + MINIMUM_LIQUIDITY
      BY <2>2, SeededPool
    <3>2. \A a, b, c \in Nat : a + b + c >= c
      OBVIOUS
    <3> QED BY <1>2, <3>1, <3>2
  <2> QED BY <1>1, <2>1, <2>2 DEF NeverDrainedStep
<1> QED
  BY <1>3, <1>4, <1>5, <1>6, <1>7, <1>8, <1>9, <1>10, <1>11 DEF CallPromises

LEMMA RawStep ==
  ASSUME Inv, [RawNext]_vars
  PROVE  Inv' /\ CallPromises /\ ([Next]_vars \/ TornTickStep)
BY StepSound, CallsKeepPromises, TornTickSound, TornTickKeepsPromises
   DEF RawNext

(* A tick that throws and is not undone leaves the pool in a state from    *)
(* which no call goes wrong.                                               *)
THEOREM RawInvariance == RawSpec => []Inv
<1>1. Inv /\ [RawNext]_vars => Inv'
  BY RawStep
<1> QED BY <1>1, InitInv, PTL DEF RawSpec

(* Such ticks lose no share and no token, and leave the pool no further    *)
(* behind its cached price than those that succeed.                        *)
THEOREM TornTicksLoseNothing ==
  RawSpec => [](TypeOK /\ SharesAccounted /\ Custody /\ ShortByOneUnitAtMost)
<1>1. Init => Covered
  BY DEF Init, Covered
<1>2. Inv /\ Covered /\ [RawNext]_vars => Covered'
  <2>1. TornTickStep /\ Covered => Covered'
    BY DEF TornTickStep, Covered
  <2> QED BY <2>1, RawStep, CoveredStep
<1>3. Inv /\ Covered => ShortByOneUnitAtMost
  BY CoveredIsNearlyLive
<1>4. Inv => TypeOK /\ SharesAccounted /\ Custody
  BY DEF Inv
<1> QED BY <1>1, <1>2, <1>3, <1>4, RawInvariance, PTL DEF RawSpec

(* Nor do they let a later call break its word.                            *)
THEOREM TornTicksGrantNothing ==
  RawSpec => /\ SharesNeverDiluted /\ VirtualPriceIsLive
             /\ ScaleMovesTowardsOracle /\ RebalanceAdvancesOracleClock
             /\ BurnsOnlyAvailable /\ UnlockNeverGrows
             /\ SpendsNoMoreThanNeeded /\ CapExceededByExitsOnly
             /\ OracleSteadyWithinSecond /\ NeverDrained
             /\ PaysTheQuote /\ CurveIsNeverCrossed
<1>1. Inv /\ [RawNext]_vars => CallPromises
  BY RawStep
<1>2. CallPromises =>
        /\ Undiluted /\ WrittenPriceIsLive /\ Towards /\ OracleClockAdvances
        /\ BurnsAvailable /\ UnlocksNothing /\ SpendsAsNeeded
        /\ PassesTheCapByExit /\ OracleSteady /\ NeverDrainedStep
  BY DEF CallPromises
<1>3. RawSpec => /\ [][Undiluted]_vars /\ [][WrittenPriceIsLive]_vars
                 /\ [][Towards]_vars /\ [][OracleClockAdvances]_vars
  BY <1>1, <1>2, RawInvariance, PTL DEF RawSpec
<1>4. RawSpec => /\ [][BurnsAvailable]_vars /\ [][UnlocksNothing]_vars
                 /\ [][SpendsAsNeeded]_vars /\ [][PassesTheCapByExit]_vars
                 /\ [][OracleSteady]_vars /\ [][NeverDrainedStep]_vars
  BY <1>1, <1>2, RawInvariance, PTL DEF RawSpec
<1>5. RawSpec => PaysTheQuote
  <2>1. Inv => \A i \in Coin, dx \in Trades, min \in Minimums :
                 Exchange(i, dx, min)
                   => vault[Other(i)] - vault'[Other(i)] \in get_dy(i, dx)
    BY QuoteMatches
  <2> QED BY <2>1, RawInvariance, PTL DEF PaysTheQuote
<1>6. RawSpec => CurveIsNeverCrossed
  BY PaymentsKeepTheCurve, RawInvariance, PTL DEF CurveIsNeverCrossed
<1>7. RawSpec => /\ SharesNeverDiluted /\ VirtualPriceIsLive
                 /\ ScaleMovesTowardsOracle /\ RebalanceAdvancesOracleClock
  BY <1>3 DEF SharesNeverDiluted, Undiluted, VirtualPriceIsLive,
     WrittenPriceIsLive, ScaleMovesTowardsOracle, Towards,
     RebalanceAdvancesOracleClock, OracleClockAdvances
<1>8. RawSpec => /\ BurnsOnlyAvailable /\ UnlockNeverGrows
                 /\ SpendsNoMoreThanNeeded /\ CapExceededByExitsOnly
                 /\ OracleSteadyWithinSecond /\ NeverDrained
  BY <1>4 DEF BurnsOnlyAvailable, BurnsAvailable, UnlockNeverGrows,
     UnlocksNothing, SpendsNoMoreThanNeeded, SpendsAsNeeded,
     CapExceededByExitsOnly, PassesTheCapByExit, OracleSteadyWithinSecond,
     OracleSteady, NeverDrained, NeverDrainedStep
<1> QED BY <1>5, <1>6, <1>7, <1>8

-----------------------------------------------------------------------------
(* Pools that are exported and resumed.  An export is a state of the pool: *)
(* what the pool keeps of itself holds of what is kept of it.              *)

Saved ==
  INSTANCE Checkpoint WITH
    balances <- checkpoint.balances,
    D <- checkpoint.D,
    totalSupply <- checkpoint.total_supply,
    cached_price_scale <- checkpoint.price_scale,
    cached_price_oracle <- checkpoint.price_oracle,
    last_prices <- checkpoint.last_prices,
    last_timestamp <- checkpoint.last_timestamp,
    xcp_profit <- checkpoint.xcp_profit,
    lp_xcp_profit <- checkpoint.lp_xcp_profit,
    virtual_price <- checkpoint.virtual_price,
    admin_balances <- checkpoint.admin_balances,
    last_admin_fee_claim_timestamp <- checkpoint.last_admin_fee_claim_timestamp,
    block_timestamp <- checkpoint.source_timestamp,
    donation_shares <- checkpoint.donation_shares,
    last_donation_release_ts <- checkpoint.last_donation_release_ts,
    donation_protection_expiry_ts <- checkpoint.donation_protection_expiry_ts,
    donation_protection_extension_remainder <-
      checkpoint.donation_protection_extension_remainder,
    vault <- checkpoint.vault,
    issued <- checkpoint.issued

(* Only seeded pools are exported.                                         *)
SavedInv ==
  checkpoint.enabled =>
    /\ checkpoint = Saved!Exported
    /\ Saved!TypeOK /\ Saved!SharesAccounted
    /\ Saved!LPProfitProtected /\ Saved!Custody
    /\ checkpoint.D > 0 /\ checkpoint.price_scale > 0
    /\ checkpoint.balances[1] > 0 /\ checkpoint.balances[2] > 0
    /\ checkpoint.source_timestamp >= donation_duration
    /\ PriceCovered(checkpoint.D, checkpoint.price_scale,
                    checkpoint.total_supply, checkpoint.virtual_price)

(* The inductive invariant of a pool and its export.                       *)
PoolAndExport == Inv /\ ProfitCovered /\ Covered /\ SavedInv

LEMMA ExportSound ==
  ASSUME PoolAndExport, Export
  PROVE  PoolAndExport'
<1>1. UNCHANGED vars /\ totalSupply > 0 /\ checkpoint' = Exported
  BY DEF Export
<1>2. Inv' /\ ClockStep
  BY <1>1, StutterSound DEF PoolAndExport
<1>3. ProfitCovered' /\ Covered' /\ LPProfitProtected
  BY <1>2, CoveredProfitIsProtected
     DEF PoolAndExport, ClockStep, profitVars, ProfitCovered, Covered
<1>4. D > 0
  BY <1>1, SeededPool DEF PoolAndExport
<1>5. /\ Exported.balances = balances /\ Exported.D = D
      /\ Exported.total_supply = totalSupply
      /\ Exported.price_scale = cached_price_scale
      /\ Exported.price_oracle = cached_price_oracle
      /\ Exported.last_prices = last_prices
      /\ Exported.last_timestamp = last_timestamp
      /\ Exported.xcp_profit = xcp_profit
      /\ Exported.lp_xcp_profit = lp_xcp_profit
      /\ Exported.virtual_price = virtual_price
      /\ Exported.admin_balances = admin_balances
      /\ Exported.last_admin_fee_claim_timestamp = last_admin_fee_claim_timestamp
      /\ Exported.source_timestamp = block_timestamp
      /\ Exported.donation_shares = donation_shares
      /\ Exported.last_donation_release_ts = last_donation_release_ts
      /\ Exported.donation_protection_expiry_ts = donation_protection_expiry_ts
      /\ Exported.donation_protection_extension_remainder
           = donation_protection_extension_remainder
      /\ Exported.vault = vault /\ Exported.issued = issued
  BY DEF Exported
<1>6. checkpoint' = Saved!Exported'
  BY <1>1, <1>5 DEF Exported, Saved!Exported
<1>7. Saved!TypeOK'
  BY <1>1, <1>5 DEF PoolAndExport, Inv, TypeOK, Saved!TypeOK, Saved!PairsOfNat, PairsOfNat
<1>8. /\ Saved!SharesAccounted' /\ Saved!LPProfitProtected' /\ Saved!Custody'
  BY <1>1, <1>3, <1>5 DEF PoolAndExport, Inv, SharesAccounted, LPProfitProtected, Custody, Plus,
     Saved!SharesAccounted, Saved!LPProfitProtected, Saved!Custody, Saved!Plus
<1> HIDE DEF Exported
<1>9. SavedInv'
  BY <1>1, <1>4, <1>5, <1>6, <1>7, <1>8 DEF PoolAndExport, Inv, Covered, SavedInv
<1> QED BY <1>2, <1>3, <1>9 DEF PoolAndExport

(* A run starts in a state that the pool was in, but for the clock.        *)
LEMMA ResumeSound ==
  ASSUME PoolAndExport, NEW start_ts \in StartTimes, Resume(start_ts)
  PROVE  /\ PoolAndExport'
         /\ D' > 0
         /\ Exported' = [checkpoint EXCEPT !.source_timestamp = block_timestamp']
<1>1. /\ checkpoint.enabled /\ checkpoint' = checkpoint
      /\ block_timestamp' = (IF start_ts # 0 THEN start_ts ELSE WallClock)
      /\ start_ts # 0 => start_ts >= checkpoint.source_timestamp
      /\ balances' = checkpoint.balances
      /\ D' = checkpoint.D
      /\ totalSupply' = checkpoint.total_supply
      /\ cached_price_scale' = checkpoint.price_scale
      /\ cached_price_oracle' = checkpoint.price_oracle
      /\ last_prices' = checkpoint.last_prices
      /\ last_timestamp' = checkpoint.last_timestamp
      /\ xcp_profit' = checkpoint.xcp_profit
      /\ lp_xcp_profit' = checkpoint.lp_xcp_profit
      /\ virtual_price' = checkpoint.virtual_price
      /\ admin_balances' = checkpoint.admin_balances
      /\ last_admin_fee_claim_timestamp' =
           checkpoint.last_admin_fee_claim_timestamp
      /\ donation_shares' = checkpoint.donation_shares
      /\ last_donation_release_ts' = checkpoint.last_donation_release_ts
      /\ donation_protection_expiry_ts' = checkpoint.donation_protection_expiry_ts
      /\ donation_protection_extension_remainder' =
           checkpoint.donation_protection_extension_remainder
      /\ vault' = checkpoint.vault /\ issued' = checkpoint.issued
  BY DEF Resume, StartsAfter, RestoreProtection
<1>2. /\ checkpoint = Saved!Exported
      /\ Saved!TypeOK /\ Saved!SharesAccounted
      /\ Saved!LPProfitProtected /\ Saved!Custody
      /\ checkpoint.D > 0 /\ checkpoint.price_scale > 0
      /\ checkpoint.balances[1] > 0 /\ checkpoint.balances[2] > 0
      /\ checkpoint.source_timestamp >= donation_duration
      /\ PriceCovered(checkpoint.D, checkpoint.price_scale,
                      checkpoint.total_supply, checkpoint.virtual_price)
  BY <1>1 DEF PoolAndExport, SavedInv
<1>3. block_timestamp' \in Nat /\ block_timestamp' >= donation_duration
  <2>1. /\ start_ts \in Nat /\ WallClock \in Nat /\ WallClock >= donation_duration
        /\ donation_duration \in Nat
    BY StartAssumption, DonationAssumption
  <2>2. checkpoint.source_timestamp \in Nat
    BY <1>2 DEF Saved!TypeOK
  <2> QED BY <1>1, <1>2, <2>1, <2>2
<1>4. TypeOK'
  BY <1>1, <1>2, <1>3 DEF TypeOK, PairsOfNat, Saved!TypeOK, Saved!PairsOfNat
<1>5. SharesAccounted' /\ LPProfitProtected' /\ Custody'
  BY <1>1, <1>2 DEF SharesAccounted, LPProfitProtected, Custody, Plus,
     Saved!SharesAccounted, Saved!LPProfitProtected, Saved!Custody, Saved!Plus
<1>6. checkpoint.D \in Nat /\ checkpoint.D # 0
  BY <1>2 DEF Saved!TypeOK
<1>prof. ProfitReserved' /\ ProfitCovered'
  BY <1>4, <1>5, PrecisionAssumption
     DEF TypeOK, LPProfitProtected, ProfitReserved, ProfitCovered
<1>7. Inv' /\ ProfitCovered' /\ Covered'
  BY <1>1, <1>2, <1>3, <1>4, <1>5, <1>6, <1>prof DEF Inv, Covered
<1>8. SavedInv'
  <2>1. (checkpoint = Saved!Exported)'
    BY <1>1, <1>2 DEF Saved!Exported
  <2>2. /\ Saved!TypeOK' /\ Saved!SharesAccounted'
        /\ Saved!LPProfitProtected' /\ Saved!Custody'
    BY <1>1, <1>2 DEF Saved!TypeOK, Saved!SharesAccounted,
                      Saved!LPProfitProtected, Saved!Custody
  <2> QED BY <1>1, <1>2, <2>1, <2>2 DEF SavedInv
<1>9. Exported' = [checkpoint EXCEPT !.source_timestamp = block_timestamp']
  <2> DEFINE moved == [checkpoint EXCEPT !.source_timestamp = block_timestamp']
  <2>1. DOMAIN Exported' = DOMAIN moved
    BY <1>2 DEF Exported, Saved!Exported
  <2>2. \A f \in DOMAIN Exported' : Exported'[f] = moved[f]
    <3> DEFINE fields == DOMAIN checkpoint
    <3>1. "source_timestamp" \in fields /\ DOMAIN Exported' = fields
      BY <1>2 DEF Exported, Saved!Exported
    <3>2. \A f \in fields : f # "source_timestamp" => Exported'[f] = checkpoint[f]
      <4>1. fields = {"enabled", "source_timestamp", "balances",
              "admin_balances", "last_admin_fee_claim_timestamp", "D",
              "total_supply", "price_scale", "price_oracle", "last_prices",
              "last_timestamp", "virtual_price", "xcp_profit",
              "lp_xcp_profit", "donation_shares", "last_donation_release_ts",
              "donation_protection_expiry_ts",
              "donation_protection_extension_remainder", "vault", "issued"}
        BY <1>2 DEF Saved!Exported
      <4>2. checkpoint.enabled = TRUE
        BY <1>2 DEF Saved!Exported
      <4>3. /\ Exported'.balances = checkpoint.balances
            /\ Exported'.admin_balances = checkpoint.admin_balances
            /\ Exported'.last_admin_fee_claim_timestamp
                 = checkpoint.last_admin_fee_claim_timestamp
            /\ Exported'.D = checkpoint.D
            /\ Exported'.total_supply = checkpoint.total_supply
            /\ Exported'.price_scale = checkpoint.price_scale
            /\ Exported'.price_oracle = checkpoint.price_oracle
            /\ Exported'.last_prices = checkpoint.last_prices
            /\ Exported'.last_timestamp = checkpoint.last_timestamp
            /\ Exported'.virtual_price = checkpoint.virtual_price
            /\ Exported'.xcp_profit = checkpoint.xcp_profit
            /\ Exported'.lp_xcp_profit = checkpoint.lp_xcp_profit
            /\ Exported'.donation_shares = checkpoint.donation_shares
            /\ Exported'.last_donation_release_ts = checkpoint.last_donation_release_ts
            /\ Exported'.donation_protection_expiry_ts = checkpoint.donation_protection_expiry_ts
            /\ Exported'.donation_protection_extension_remainder
                 = checkpoint.donation_protection_extension_remainder
            /\ Exported'.vault = checkpoint.vault
            /\ Exported'.issued = checkpoint.issued
        BY <1>1 DEF Exported
      <4>4. Exported'.enabled = TRUE
        BY DEF Exported
      <4> HIDE DEF fields
      <4> QED BY <4>1, <4>2, <4>3, <4>4
    <3>3. Exported'.source_timestamp = block_timestamp'
      BY DEF Exported
    <3>4. moved["source_timestamp"] = block_timestamp'
      BY <3>1
    <3>5. \A f \in fields : f # "source_timestamp" => moved[f] = checkpoint[f]
      OBVIOUS
    <3> HIDE DEF moved, fields
    <3> QED BY <3>1, <3>2, <3>3, <3>4, <3>5
  <2>3. Exported' = [f \in DOMAIN Exported' |-> Exported'[f]]
    BY DEF Exported
  <2>4. moved = [f \in DOMAIN moved |-> moved[f]]
    BY <1>2 DEF Saved!Exported
  <2> HIDE DEF moved
  <2>5. Exported' = moved
    BY <2>1, <2>2, <2>3, <2>4, Zenon
  <2> QED BY <2>5 DEF moved
<1> QED BY <1>1, <1>2, <1>7, <1>8, <1>9 DEF PoolAndExport

LEMMA CallKeepsExport ==
  ASSUME PoolAndExport, [Next]_vars, UNCHANGED checkpoint
  PROVE  PoolAndExport'
<1>1. Inv' /\ ProfitCovered' /\ Covered'
  BY StepSound, ProfitStaysCovered, CoveredStep DEF PoolAndExport
<1>2. SavedInv'
  BY DEF PoolAndExport, SavedInv, Saved!Exported, Saved!TypeOK,
         Saved!SharesAccounted, Saved!LPProfitProtected, Saved!Custody
<1> QED BY <1>1, <1>2 DEF PoolAndExport

(* The three kinds of step of a pool that may be exported and resumed.     *)
LEMMA CheckpointStep ==
  ASSUME PoolAndExport, [CheckpointNext]_<<vars, checkpoint>>
  PROVE  /\ PoolAndExport'
         /\ \/ [Next]_vars /\ UNCHANGED checkpoint
            \/ Export
            \/ \E start_ts \in StartTimes : Resume(start_ts)
BY CallKeepsExport, ExportSound, ResumeSound DEF CheckpointNext

(* However often and wherever the pool is exported, resumed and resumed    *)
(* again, every state it reaches has what a pool that ran through has, and *)
(* so has the export.                                                      *)
THEOREM ResumedInvariance == CheckpointSpec => []PoolAndExport
<1>1. Init /\ checkpoint = NotTaken => PoolAndExport
  BY InitInv, PrecisionAssumption
     DEF PoolAndExport, SavedInv, NotTaken, Init, ProfitCovered, Covered
<1>2. PoolAndExport /\ [CheckpointNext]_<<vars, checkpoint>> => PoolAndExport'
  BY CheckpointStep
<1> QED BY <1>1, <1>2, PTL DEF CheckpointSpec

(* Resumed pools are as little short of their cached price, and their bound *)
(* as far below the fee, as those that ran through.                        *)
THEOREM ResumedPoolsKeepTheirBounds ==
  CheckpointSpec => [](ShortByOneUnitAtMost /\ FeeAboveLowerBound)
<1>1. PoolAndExport => ShortByOneUnitAtMost /\ FeeAboveLowerBound
  BY CoveredIsNearlyLive, FeeOfReachable DEF PoolAndExport
<1> QED BY <1>1, ResumedInvariance, PTL

(* A resumed pool pays nobody below its curve, old or new.                 *)
THEOREM ResumedPoolsKeepTheCurve == CheckpointSpec => CurveIsNeverCrossed
<1>1. PoolAndExport => Inv
  BY DEF PoolAndExport
<1> QED
  BY <1>1, PaymentsKeepTheCurve, ResumedInvariance, PTL DEF CurveIsNeverCrossed

(* A resumed pool keeps, in every call, the word of one that ran through,  *)
(* and honours its holders.                                                *)
THEOREM ResumedPoolsKeepTheirWord ==
  CheckpointSpec => /\ [][Next => CallPromises /\ [Ledger!Next]_(Ledger!vars)]_vars
                    /\ PaysTheQuote
<1>1. PoolAndExport => Inv /\ ProfitCovered
  BY DEF PoolAndExport
<1>2. Inv /\ ProfitCovered
        => (Next => CallPromises /\ [Ledger!Next]_(Ledger!vars))
  BY CallsKeepPromises, LedgerStep
<1>3. Inv => \A i \in Coin, dx \in Trades, min \in Minimums :
               Exchange(i, dx, min)
                 => vault[Other(i)] - vault'[Other(i)] \in get_dy(i, dx)
  BY QuoteMatches
<1>4. CheckpointSpec
        => [][Next => CallPromises /\ [Ledger!Next]_(Ledger!vars)]_vars
  BY <1>1, <1>2, ResumedInvariance, PTL
<1>5. CheckpointSpec => PaysTheQuote
  BY <1>1, <1>3, ResumedInvariance, PTL DEF PaysTheQuote
<1> QED BY <1>4, <1>5

(* An export is never of an empty pool, so no start drains one.            *)
THEOREM ResumedPoolsStayOpen == CheckpointSpec => NeverDrained
<1>1. PoolAndExport /\ [CheckpointNext]_<<vars, checkpoint>>
        => [NeverDrainedStep]_vars
  <2> SUFFICES ASSUME PoolAndExport, [CheckpointNext]_<<vars, checkpoint>>
               PROVE  [NeverDrainedStep]_vars
    OBVIOUS
  <2>1. PoolAndExport'
    BY CheckpointStep
  <2>2. CASE [Next]_vars
    BY <2>2, OpenStep DEF PoolAndExport
  <2>3. CASE Export
    BY <2>3 DEF Export
  <2>4. ASSUME NEW start_ts \in StartTimes, Resume(start_ts)
        PROVE  NeverDrainedStep
    <3>1. D' > 0
      BY <2>4, ResumeSound
    <3>2. /\ D' \in Nat /\ MINIMUM_LIQUIDITY \in Nat \ {0}
          /\ issued' \in Nat /\ donation_shares' \in Nat
          /\ D' # 0 => totalSupply' = issued' + donation_shares' + MINIMUM_LIQUIDITY
          /\ D' > 0 => balances'[1] > 0 /\ balances'[2] > 0
      BY <2>1, PoolAssumption DEF PoolAndExport, Inv, TypeOK, SharesAccounted
    <3>3. \A a, b, c \in Nat : a + b + c >= c
      OBVIOUS
    <3>4. totalSupply' >= MINIMUM_LIQUIDITY /\ totalSupply' \in Nat
      BY <3>1, <3>2, <3>3
    <3>5. totalSupply' # 0 /\ D' # 0
      BY <3>1, <3>2, <3>4
    <3> QED BY <3>1, <3>2, <3>4, <3>5 DEF NeverDrainedStep
  <2> QED BY <2>2, <2>3, <2>4, CheckpointStep
<1> QED
  BY <1>1, ResumedInvariance, PTL DEF CheckpointSpec, NeverDrained, NeverDrainedStep

(* No field of a pool is lost between its export and the start of a run.   *)
THEOREM NothingIsForgotten == CheckpointSpec => ResumesAsItWas
<1>1. PoolAndExport /\ [CheckpointNext]_<<vars, checkpoint>>
        => [\A start_ts \in StartTimes :
              Resume(start_ts) =>
                Exported' = [checkpoint EXCEPT !.source_timestamp
                                                 = block_timestamp']]_vars
  BY ResumeSound
<1> QED BY <1>1, ResumedInvariance, PTL DEF CheckpointSpec, ResumesAsItWas

(* Nor does an export remember a time to come.                             *)
ClocksBehind ==
  /\ NothingAheadOfTheClock
  /\ checkpoint.enabled => Saved!NothingAheadOfTheClock

WallClockIsLater ==
  checkpoint.enabled => checkpoint.source_timestamp <= WallClock

LEMMA ClocksBehindStep ==
  ASSUME PoolAndExport, ClocksBehind, WallClockIsLater,
         [CheckpointNext]_<<vars, checkpoint>>,
         [Next => block_timestamp' >= block_timestamp]_vars
  PROVE  ClocksBehind'
<1>1. CASE [Next]_vars /\ UNCHANGED checkpoint
  <2>1. block_timestamp' >= block_timestamp
    BY <1>1 DEF vars, PoolAndExport, Inv, TypeOK
  <2>2. NothingAheadOfTheClock'
    BY <1>1, <2>1, BehindTheClockStep DEF PoolAndExport, ClocksBehind
  <2>3. (checkpoint.enabled => Saved!NothingAheadOfTheClock)'
    BY <1>1 DEF ClocksBehind, Saved!NothingAheadOfTheClock
  <2> QED BY <2>2, <2>3 DEF ClocksBehind
<1>2. CASE Export
  BY <1>2 DEF Export, Exported, vars, donationVars, priceVars, adminVars,
     protectionVars, ClocksBehind, NothingAheadOfTheClock,
     Saved!NothingAheadOfTheClock
<1>3. ASSUME NEW start_ts \in StartTimes, Resume(start_ts)
      PROVE  ClocksBehind'
  <2>1. /\ checkpoint.enabled /\ checkpoint' = checkpoint
        /\ block_timestamp' = (IF start_ts # 0 THEN start_ts ELSE WallClock)
        /\ start_ts # 0 => start_ts >= checkpoint.source_timestamp
        /\ last_timestamp' = checkpoint.last_timestamp
        /\ last_admin_fee_claim_timestamp' =
             checkpoint.last_admin_fee_claim_timestamp
        /\ last_donation_release_ts' = checkpoint.last_donation_release_ts
        /\ donation_protection_expiry_ts'
             = checkpoint.donation_protection_expiry_ts
    BY <1>3 DEF Resume, StartsAfter, RestoreProtection
  <2>2. /\ checkpoint.source_timestamp \in Nat
        /\ checkpoint.last_timestamp \in Nat
        /\ checkpoint.last_admin_fee_claim_timestamp \in Nat
        /\ checkpoint.last_donation_release_ts \in Nat
        /\ checkpoint.donation_protection_expiry_ts \in Nat
        /\ donation_protection_period \in Nat
        /\ start_ts \in Nat /\ WallClock \in Nat
    BY <2>1, StartAssumption, DonationAssumption
       DEF PoolAndExport, SavedInv, Saved!TypeOK
  <2>3. checkpoint.source_timestamp <= block_timestamp'
    BY <2>1, <2>2 DEF WallClockIsLater
  <2>4. Saved!NothingAheadOfTheClock /\ Saved!NothingAheadOfTheClock'
    BY <2>1 DEF ClocksBehind, Saved!NothingAheadOfTheClock
  <2>5. NothingAheadOfTheClock'
    BY <2>1, <2>2, <2>3, <2>4
       DEF NothingAheadOfTheClock, Saved!NothingAheadOfTheClock
  <2> QED BY <2>4, <2>5 DEF ClocksBehind
<1> QED BY <1>1, <1>2, <1>3, CheckpointStep

(* The check of the start time is enough: while no caller sets the clock   *)
(* back and no export is later than the clock a run without a start time   *)
(* gets, no pool remembers a time to come, resumed or not.                 *)
THEOREM ResumedClocksStayBehind ==
  /\ CheckpointSpec
  /\ [][Next => block_timestamp' >= block_timestamp]_vars
  /\ []WallClockIsLater
  => []NothingAheadOfTheClock
<1>1. Init /\ checkpoint = NotTaken => ClocksBehind
  BY DonationAssumption, InputAssumption
     DEF Init, NotTaken, ClocksBehind, NothingAheadOfTheClock
<1>2. /\ PoolAndExport /\ ClocksBehind /\ WallClockIsLater
      /\ [CheckpointNext]_<<vars, checkpoint>>
      /\ [Next => block_timestamp' >= block_timestamp]_vars
      => ClocksBehind'
  BY ClocksBehindStep
<1>3. ClocksBehind => NothingAheadOfTheClock
  BY DEF ClocksBehind
<1> QED BY <1>1, <1>2, <1>3, ResumedInvariance, PTL DEF CheckpointSpec
=============================================================================
