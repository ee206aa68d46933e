----------------------------- MODULE MCTwocrypto -----------------------------
(***************************************************************************)
(* Small pools for TLC.  Amounts are scaled so that every product of the   *)
(* code's arithmetic stays below 2^31: PRECISION and FEE_PRECISION are     *)
(* 1000 and a pool holds a few thousand units of each coin.                *)
(***************************************************************************)
EXTENDS Twocrypto

CONSTANTS MaxCalls      (* bound: calls on a seeded pool                    *)

VARIABLE calls

(* e^(-k/1000) as ((1 - k/64000)^64), rounded at each squaring.            *)
Square(v) == (v * v) \div 40000
MCExp == [k \in {300 * n : n \in 0 .. 23} |->
            Square(Square(Square(Square(Square(Square(
              40000 - (k * 40) \div 64)))))) \div 40]

UnitPrecisions == <<1, 1>>

MCSeeds == {<<2000, 2000>>}
SmallSeeds == {<<200, 200>>}
LopsidedSeeds == {<<1, 1000>>}
BothSeeds == MCSeeds \cup LopsidedSeeds
MCDeposits == {<<400, 0>>}
SmallDeposits == {<<20, 0>>}
MCDonations == {<<200, 200>>}
SmallDonations == {<<100, 100>>}
MCFixedOuts == {<<200, 120>>, <<200, 0>>}
SmallFixedOuts == {<<20, 10>>, <<20, 0>>}
NoPairs == {}
NoClock == {}

MCVars == <<vars, calls>>

MCInit == Init /\ calls = 0

Count == calls < MaxCalls /\ calls' = calls + 1

(* One disjunct per call, so that coverage is reported for each.           *)
MCNext ==
  \/ \E a \in Seeds, m \in Minimums : InitialDeposit(a, m) /\ Count
  \/ \E a \in Deposits, m \in Minimums : AddLiquidity(a, m) /\ Count
  \/ \E a \in Donations, m \in Minimums : Donate(a, m) /\ Count
  \/ \E a \in Burns, m \in Minimums : RemoveLiquidity(a, m) /\ Count
  \/ \E b \in FixedOuts, i \in Coin, m \in Minimums :
       RemoveLiquidityFixedOut(b[1], i, b[2], m) /\ Count
  \/ \E i \in Coin, dx \in Trades, m \in Minimums : Exchange(i, dx, m) /\ Count
  \/ Tick /\ Count
  \/ \E s \in Seconds : AdvanceTime(s) /\ Count
  \/ \E t \in Timestamps : SetBlockTimestamp(t) /\ Count

MCSpec == MCInit /\ [][MCNext]_MCVars

(* The pool without the harness: a tick that throws is not undone.         *)
MCRawNext == MCNext \/ (TickThrows /\ Count)

MCRawSpec == MCInit /\ [][MCRawNext]_MCVars
=============================================================================
