----------------------------- MODULE SwapCurve -----------------------------
(***************************************************************************)
(* Swaps against the bare curve, without fees or a moving scale: what the  *)
(* rounding of newton_D and get_y gives and takes over many swaps.         *)
(***************************************************************************)
EXTENDS StableswapMath

CONSTANTS
  Starts,                (* scaled balances to start from                   *)
  Amounts,               (* what one swap may put in                        *)
  MaxSwaps               (* bound: swaps from one start                     *)

VARIABLES xp, start, swaps

vars == <<xp, start, swaps>>

Init ==
  /\ start \in Starts
  /\ xp = start
  /\ swaps = 0

(* Coins received for what get_y leaves.  One unit stays behind, since     *)
(* get_y may stop one unit short.                                          *)
OutputAll(x, y) == x - y                           (* Mutant: all paid out  *)

Output(x, y) == x - y - 1

(* The balances change by what exchange changes them, at no fee.           *)
Swap(i, dx) ==
  LET j == Other(i)
      offered == [xp EXCEPT ![i] = xp[i] + dx]
  IN  /\ swaps < MaxSwaps
      /\ \E D \in newton_D(xp) : \E y \in get_y(offered, D, j) :
           /\ y < offered[j]
           /\ xp' = [offered EXCEPT ![j] = xp[j] - Output(xp[j], y)]
      /\ swaps' = swaps + 1
      /\ UNCHANGED start

Next == \E i \in Coin, dx \in Amounts : Swap(i, dx)

Spec == Init /\ [][Next]_vars

-----------------------------------------------------------------------------
(* The invariant newton_D solves for, cleared of fractions:                *)
(*   Ann S + A_MULTIPLIER D = Ann D + A_MULTIPLIER D^3 / 4xy.              *)
Excess(bal, D) ==
  A_MULTIPLIER * D * D * D
    + (Ann - A_MULTIPLIER) * D * 4 * bal[1] * bal[2]
    - Ann * (bal[1] + bal[2]) * 4 * bal[1] * bal[2]

(* newton_D stops at the exact solution, rounded down, or one above it.    *)
SolvesTheInvariant ==
  \A D \in newton_D(xp) :
    /\ Excess(xp, D + 1) > 0
    /\ Excess(xp, D - 1) <= 0

(* No sequence of swaps takes coins out of the pool for nothing: rounding  *)
(* never leaves it with less of one coin and no more of the other.         *)
NoFreeCoins ==
  xp[1] <= start[1] /\ xp[2] <= start[2] => xp = start
=============================================================================
