--------------------------- MODULE StableswapMath ---------------------------
(***************************************************************************)
(* The integer (uint256) arithmetic of stableswap_math.hpp for two coins:  *)
(* the invariant D of a pair of scaled balances, the balance that restores *)
(* an invariant, the spot price and the decay factor of the moving average.*)
(*                                                                         *)
(* A function of the code that may throw is an operator that returns the   *)
(* SET of its outcomes: one value, or none where the code throws.          *)
(***************************************************************************)
EXTENDS Integers

CONSTANTS
  A,                (* amplification, in units of 1 / A_MULTIPLIER          *)
  A_MULTIPLIER,
  PRECISION,        (* the fixed-point one                                  *)
  EXP               (* EXP[k] is e^(-k / PRECISION) in fixed point          *)

N_COINS == 2

(* Coins 0 and 1 of the code: a pair of amounts is a tuple of two.         *)
Coin == {1, 2}
Other(i) == 3 - i

Ann == A * N_COINS

(* newton_D subtracts A_MULTIPLIER from Ann without a check.               *)
ASSUME AmplificationAssumption ==
  /\ A \in Nat
  /\ A_MULTIPLIER \in Nat \ {0}
  /\ Ann >= A_MULTIPLIER

ASSUME PrecisionAssumption == PRECISION \in Nat \ {0}

(* wad_exp is only called at or below zero, where it lies in 0..PRECISION. *)
ASSUME ExpAssumption ==
  \A k \in DOMAIN EXP : EXP[k] \in 0 .. PRECISION

MinOf(a, b) == IF a < b THEN a ELSE b
MaxOf(a, b) == IF a > b THEN a ELSE b
Distance(a, b) == IF a > b THEN a - b ELSE b - a

-----------------------------------------------------------------------------
(* Convergence<uint256>: two iterates are close when they differ by one.   *)
close(a, b) == Distance(a, b) <= 1
MAX_IT == 255

(* Newton's loop shared by get_y and newton_D: step from the start until   *)
(* two iterates are close.  It throws after MAX_IT iterations, and where   *)
(* step has no value, its divisor being zero.                              *)
Iterate(step, start) ==
  LET result[left \in 0 .. MAX_IT] ==
        [v \in Nat |->
           IF left = 0 \/ v \notin DOMAIN step THEN {}
           ELSE IF close(step[v], v) THEN {step[v]}
           ELSE result[left - 1][step[v]]]
  IN  result[MAX_IT][start] \cap Nat

(* newton_D's entry guard: positive balances within 10000 to 1.            *)
InNewtonRange(xp) ==
  /\ xp[1] > 0 /\ xp[2] > 0
  /\ MaxOf(xp[1], xp[2]) \div MinOf(xp[1], xp[2]) < 10000

D_P(xp, D) == ((((D * D) \div xp[1]) * D) \div xp[2]) \div (N_COINS * N_COINS)

(* One step of newton_D counts D_P n times above and k times below the     *)
(* division.                                                               *)
NewtonDivisor(xp, D, k) ==
  ((Ann - A_MULTIPLIER) * D) \div A_MULTIPLIER + k * D_P(xp, D)

NewtonStep(xp, n, k) ==
  [D \in {d \in Nat : NewtonDivisor(xp, d, k) > 0} |->
     (((Ann * (xp[1] + xp[2])) \div A_MULTIPLIER + n * D_P(xp, D)) * D)
       \div NewtonDivisor(xp, D, k)]

newton_D_miscounted(xp) ==       (* Mutant: D_P counted N_COINS times below *)
  IF InNewtonRange(xp)
    THEN Iterate(NewtonStep(xp, N_COINS, N_COINS), xp[1] + xp[2])
    ELSE {}

(* newton_D on uint256 always starts from the sum of the balances.         *)
newton_D(xp) ==
  IF InNewtonRange(xp)
    THEN Iterate(NewtonStep(xp, N_COINS, N_COINS + 1), xp[1] + xp[2])
    ELSE {}

(* get_y_unchecked: the balance y of one coin that keeps D, given x of the *)
(* other, is the positive root of y^2 + (b - D) y - c.                     *)
b_of(x, D) == x + (D * A_MULTIPLIER) \div Ann

c_of(x, D) ==
  (((D * D) \div (x * N_COINS)) * D * A_MULTIPLIER) \div (Ann * N_COINS)

RootDivisor(x, D, y) == 2 * y + b_of(x, D) - D

RootStep(x, D) ==
  [y \in {v \in Nat : RootDivisor(x, D, v) > 0} |->
     (y * y + c_of(x, D)) \div RootDivisor(x, D, y)]

(* A zero balance of the other coin is a division by zero.                 *)
get_y(xp, D, i) ==
  LET x == xp[Other(i)]
  IN  IF x > 0 THEN Iterate(RootStep(x, D), D) ELSE {}

(* The quadratic whose root get_y looks for, at y: positive above it.      *)
OffRoot(x, D, y) == y * y + (b_of(x, D) - D) * y - c_of(x, D)

(* get_p: the marginal price of the second coin in the first, scaled.      *)
get_p(xp, D) ==
  LET Dr == ((((D \div (N_COINS * N_COINS)) * D) \div xp[1]) * D) \div xp[2]
      xp0_A == (Ann * xp[1]) \div A_MULTIPLIER
  IN  IF xp[1] > 0 /\ xp[2] > 0
        THEN {(PRECISION * (xp0_A + (Dr * xp[1]) \div xp[2]))
                \div (xp0_A + Dr)} \cap Nat
        ELSE {}

(* wad_exp(-k): zero below the range the table covers.                     *)
wad_exp(k) == IF k \in DOMAIN EXP THEN EXP[k] ELSE 0

-----------------------------------------------------------------------------
(* boost::multiprecision::sqrt, the integer square root.                   *)
sqrt[n \in Nat] ==
  IF n = 0 THEN 0
  ELSE LET r == 2 * sqrt[n \div 4]
       IN  IF (r + 1) * (r + 1) > n THEN r ELSE r + 1

(* _xcp: the invariant in units of the constant-product invariant.         *)
xcp(D, price_scale) ==
  LET sqrt_price == sqrt[PRECISION * price_scale]
  IN  IF price_scale > 0 /\ sqrt_price \in Nat \ {0}
        THEN {((D * PRECISION) \div N_COINS) \div sqrt_price} \cap Nat
        ELSE {}
=============================================================================
