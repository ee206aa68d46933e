--------------------------- MODULE TwocryptoLemmas ---------------------------
(***************************************************************************)
(* What the operators of Twocrypto return, for all values of the constants *)
(* and of the state: types, and the bounds the invariants rest on.         *)
(***************************************************************************)
EXTENDS Twocrypto, PoolArithmetic, WellFoundedInduction

-----------------------------------------------------------------------------
(* Newton's loop, by induction over its iterations.                        *)
(* Every set of naturals that has a member has a least one: what a proof   *)
(* about a recursive definition takes the smallest counterexample from.    *)
LEMMA LeastNat ==
  ASSUME NEW T \in SUBSET Nat, T # {}
  PROVE  \E n \in T : \A m \in T : n <= m
<1> DEFINE less == OpToRel(<, Nat)
<1>1. IsWellFoundedOn(less, Nat)
  BY NatLessThanWellFounded
<1>2. \A m \in Nat, n \in Nat : m < n => <<m, n>> \in less
  BY DEF OpToRel
<1> HIDE DEF less
<1>3. PICK n \in T : \A m \in T : ~ (<<m, n>> \in less)
  BY <1>1, WFMin
<1>4. ASSUME NEW m \in T
      PROVE  n <= m
  <2>1. m \in Nat /\ n \in Nat
    OBVIOUS
  <2>2. ~ (m < n)
    BY <1>2, <1>3, <2>1
  <2> QED BY <2>1, <2>2
<1> QED BY <1>4

(* The results of Newton's loop by the iterations left, for up to n left.  *)
ResultsUpTo(r, step, n) ==
  r = [left \in 0 .. n |->
        [v \in Nat |->
           IF left = 0 \/ v \notin DOMAIN step THEN {}
           ELSE IF close(step[v], v) THEN {step[v]}
           ELSE r[left - 1][step[v]]]]

LEMMA ResultsExist ==
  ASSUME NEW step, NEW n \in Nat
  PROVE  \E r : ResultsUpTo(r, step, n)
<1> DEFINE Bad == {k \in Nat : ~ \E r : ResultsUpTo(r, step, k)}
<1>1. SUFFICES ASSUME Bad # {} PROVE FALSE
  OBVIOUS
<1>2. PICK k \in Bad : \A m \in Bad : k <= m
  BY <1>1, LeastNat
<1>3. CASE k = 0
  <2> DEFINE r == [left \in 0 .. 0 |-> [v \in Nat |-> {}]]
  <2>1. ResultsUpTo(r, step, 0)
    BY DEF ResultsUpTo
  <2> QED BY <2>1, <1>2, <1>3
<1>4. CASE k # 0
  <2>1. k \in Nat \ {0} /\ k - 1 \in Nat /\ k - 1 \notin Bad
    BY <1>2, <1>4
  <2>2. PICK r : ResultsUpTo(r, step, k - 1)
    BY <2>1
  <2> DEFINE Of(prev) ==
        [v \in Nat |-> IF v \notin DOMAIN step THEN {}
                       ELSE IF close(step[v], v) THEN {step[v]}
                       ELSE prev[step[v]]]
             s == [left \in 0 .. k |-> IF left = k THEN Of(r[k - 1]) ELSE r[left]]
  <2>3. ASSUME NEW left \in 0 .. k
        PROVE  s[left] = [v \in Nat |->
                 IF left = 0 \/ v \notin DOMAIN step THEN {}
                 ELSE IF close(step[v], v) THEN {step[v]}
                 ELSE s[left - 1][step[v]]]
    <3>1. CASE left = k
      <4>1. s[left] = Of(r[k - 1]) /\ s[left - 1] = r[k - 1] /\ left # 0
        BY <2>1, <3>1
      <4> HIDE DEF s
      <4> QED BY <4>1
    <3>2. CASE left # k
      <4>1. s[left] = r[left] /\ left \in 0 .. k - 1
        BY <2>1, <3>2
      <4>2. left # 0 => s[left - 1] = r[left - 1]
        BY <2>1, <3>2
      <4>3. r[left] = [v \in Nat |->
                 IF left = 0 \/ v \notin DOMAIN step THEN {}
                 ELSE IF close(step[v], v) THEN {step[v]}
                 ELSE r[left - 1][step[v]]]
        BY <2>2, <4>1 DEF ResultsUpTo
      <4> HIDE DEF s
      <4> QED BY <4>1, <4>2, <4>3
    <3> QED BY <3>1, <3>2
  <2>4. s = [left \in 0 .. k |-> s[left]]
    OBVIOUS
  <2>5. ResultsUpTo(s, step, k)
    <3> HIDE DEF s
    <3> QED BY <2>3, <2>4 DEF ResultsUpTo
  <2> QED BY <2>5, <1>2
<1> QED BY <1>3, <1>4

LEMMA IterateResults ==
  ASSUME NEW step, NEW start
  PROVE  \E r : ResultsUpTo(r, step, MAX_IT) /\ Iterate(step, start) = r[MAX_IT][start] \cap Nat
<1> DEFINE R == CHOOSE r : r = [left \in 0 .. MAX_IT |->
        [v \in Nat |->
           IF left = 0 \/ v \notin DOMAIN step THEN {}
           ELSE IF close(step[v], v) THEN {step[v]}
           ELSE r[left - 1][step[v]]]]
<1>1. \E r : ResultsUpTo(r, step, MAX_IT)
  BY ResultsExist DEF MAX_IT
<1>2. ResultsUpTo(R, step, MAX_IT)
  BY <1>1 DEF ResultsUpTo
<1>3. Iterate(step, start) = R[MAX_IT][start] \cap Nat
  BY DEF Iterate
<1> HIDE DEF R
<1> QED BY <1>2, <1>3

(* The loop ends on a step from one of its iterates to a value close to    *)
(* it.  `good` holds of the start and is kept by every step that goes on.  *)
LEMMA IterateEnds ==
  ASSUME NEW step, NEW good \in SUBSET Nat, NEW start \in good,
         \A v \in good \cap DOMAIN step :
           close(step[v], v) \/ step[v] \in good,
         NEW y \in Iterate(step, start)
  PROVE  /\ y \in Nat
         /\ \E v \in good \cap DOMAIN step : y = step[v] /\ close(y, v)
<1>1. PICK r : /\ ResultsUpTo(r, step, MAX_IT)
               /\ Iterate(step, start) = r[MAX_IT][start] \cap Nat
  BY IterateResults
<1> DEFINE Ends(w) == \E v \in good \cap DOMAIN step : w = step[v] /\ close(w, v)
           Bad == {k \in 0 .. MAX_IT : \E v \in good : \E w \in r[k][v] : ~ Ends(w)}
<1>2. ASSUME Bad # {} PROVE FALSE
  <2>1. PICK k \in Bad : \A m \in Bad : k <= m
    <3>1. Bad \in SUBSET Nat
      OBVIOUS
    <3> HIDE DEF Bad
    <3> QED BY <1>2, <3>1, LeastNat
  <2>2. PICK v \in good : \E w \in r[k][v] : ~ Ends(w)
    BY <2>1
  <2>3. PICK w \in r[k][v] : ~ Ends(w)
    BY <2>2
  <2>4. r[k][v] = IF k = 0 \/ v \notin DOMAIN step THEN {}
                  ELSE IF close(step[v], v) THEN {step[v]}
                  ELSE r[k - 1][step[v]]
    <3>1. k \in 0 .. MAX_IT /\ v \in Nat
      BY <2>1
    <3>2. r[k] = [u \in Nat |->
                    IF k = 0 \/ u \notin DOMAIN step THEN {}
                    ELSE IF close(step[u], u) THEN {step[u]}
                    ELSE r[k - 1][step[u]]]
      BY <1>1, <3>1 DEF ResultsUpTo
    <3> QED BY <3>1, <3>2
  <2>5. k # 0 /\ v \in DOMAIN step
    BY <2>4
  <2>6. CASE close(step[v], v)
    <3>1. w = step[v]
      BY <2>3, <2>4, <2>5, <2>6
    <3> QED BY <2>3, <2>5, <2>6, <3>1
  <2>7. CASE ~ close(step[v], v)
    <3>1. w \in r[k - 1][step[v]] /\ step[v] \in good
      BY <2>3, <2>4, <2>5, <2>7
    <3>2. k - 1 \in Bad
      <4>1. k - 1 \in 0 .. MAX_IT
        BY <2>1, <2>5 DEF MAX_IT
      <4> QED BY <2>3, <3>1, <4>1
    <3>3. k \in Nat /\ k <= k - 1
      BY <2>1, <3>2
    <3> QED BY <3>3
  <2> QED BY <2>6, <2>7
<1>3. MAX_IT \in 0 .. MAX_IT /\ y \in r[MAX_IT][start] /\ y \in Nat
  BY <1>1 DEF MAX_IT
<1> HIDE DEF Ends
<1>4. Ends(y)
  BY <1>2, <1>3
<1> QED BY <1>3, <1>4 DEF Ends

-----------------------------------------------------------------------------
LEMMA CoefficientsNat ==
  ASSUME NEW x \in Nat \ {0}, NEW d \in Nat
  PROVE  b_of(x, d) \in Nat /\ b_of(x, d) >= x /\ c_of(x, d) \in Nat
<1>1. Ann \in Nat \ {0} /\ Ann * N_COINS \in Nat \ {0} /\ x * N_COINS \in Nat \ {0}
  BY AmplificationAssumption DEF Ann, N_COINS
<1>2. (d * A_MULTIPLIER) \div Ann \in Nat
  BY <1>1, MulNat, DivNat, AmplificationAssumption
<1>3. (d * d) \div (x * N_COINS) \in Nat
  BY <1>1, MulNat, DivNat
<1>4. ((d * d) \div (x * N_COINS)) * d * A_MULTIPLIER \in Nat
  BY <1>3, MulNat, AmplificationAssumption
<1>5. c_of(x, d) \in Nat
  BY <1>1, <1>4, DivNat DEF c_of
<1> QED BY <1>2, <1>5 DEF b_of

(* One step: its divisor stays positive unless the loop ends here.         *)
LEMMA RootStepStays ==
  ASSUME NEW B \in Int, NEW c \in Nat, NEW v \in Nat, 2 * v + B > 0,
         NEW y, y = (v * v + c) \div (2 * v + B)
  PROVE  /\ y \in Nat
         /\ (2 * v + B) * y <= v * v + c
         /\ v * v + c < (2 * v + B) * y + (2 * v + B)
         /\ 2 * y + B > 0 \/ (v <= 1 /\ y = 0)
<1> DEFINE slope == 2 * v + B
<1>1. slope \in Nat \ {0} /\ v * v \in Nat /\ v * v + c \in Nat
  BY MulNat
<1>2. y \in Nat /\ slope * y <= v * v + c /\ v * v + c < slope * y + slope
  BY <1>1, DivNat
<1>3. CASE B > 0
  BY <1>2, <1>3
<1>4. CASE B = 0
  <2>1. ASSUME v >= 2 PROVE y >= 1
    <3>1. 1 * slope <= v * v + c
      <4>1. v * 2 <= v * v
        BY <2>1, MulMonotone
      <4> QED BY <4>1, <1>1, <1>4
    <3> QED BY <3>1, <1>1, DivAtLeast
  <2>2. v <= 1 => y = 0 \/ y >= 1
    BY <1>2
  <2> QED BY <2>1, <2>2, <1>2, <1>4
<1>5. CASE B < 0
  <2>1. (v + B) * (v + B) >= 0
    OBVIOUS
  <2>2. (v + B) * (v + B) = v * v + B * (2 * v + B)
    OBVIOUS
  <2>3. (- B) * slope = - (B * (2 * v + B))
    OBVIOUS
  <2>4. (- B) * slope <= v * v + c
    <3>1. B * (2 * v + B) \in Int /\ (v + B) * (v + B) \in Int
      OBVIOUS
    <3> HIDE DEF slope
    <3> QED BY <2>1, <2>2, <2>3, <3>1, <1>1
  <2>5. - B <= y
    BY <2>4, <1>1, DivAtLeast
  <2> QED BY <2>5, <1>2, <1>5
<1> QED BY <1>2, <1>3, <1>4, <1>5

(* Two values that are close differ by at most one.                        *)
LEMMA CloseValues ==
  ASSUME NEW a \in Nat, NEW b \in Nat, close(a, b)
  PROVE  \E e \in {-1, 0, 1} : a = b + e
<1>1. a - b \in {-1, 0, 1}
  BY DEF close, Distance
<1> QED BY <1>1

(* A step to a value close by leaves little of the quadratic.              *)
LEMMA RootStepResidual ==
  ASSUME NEW B \in Int, NEW c \in Nat, NEW v \in Nat, NEW y \in Nat,
         NEW e \in {-1, 0, 1}, y = v + e,
         (2 * v + B) * y <= v * v + c,
         v * v + c < (2 * v + B) * y + (2 * v + B)
  PROVE  /\ y * y + B * y - c <= 1
         /\ (y + 1) * (y + 1) + B * (y + 1) - c > 0
<1>1. CASE e = 0
  <2>1. v = y
    BY <1>1
  <2> QED BY <2>1
<1>2. CASE e = 1
  <2>1. v = y - 1
    BY <1>2
  <2> QED BY <2>1
<1>3. CASE e = -1
  <2>1. v = y + 1
    BY <1>3
  <2> QED BY <2>1
<1> QED BY <1>1, <1>2, <1>3

(* get_y on uint256 never subtracts D below zero and never divides by      *)
(* zero: its divisor is positive at the start, and after every step that   *)
(* is not its last.                                                        *)
THEOREM RootDivisorStaysPositive ==
  ASSUME NEW x \in Nat \ {0}, NEW d \in Nat
  PROVE  /\ d \in DOMAIN RootStep(x, d)
         /\ \A v \in DOMAIN RootStep(x, d) :
              \/ close(RootStep(x, d)[v], v)
              \/ RootStep(x, d)[v] \in DOMAIN RootStep(x, d)
<1> DEFINE B == b_of(x, d) - d
<1>1. B \in Int /\ c_of(x, d) \in Nat /\ b_of(x, d) \in Nat /\ b_of(x, d) >= x
  BY CoefficientsNat
<1>2. \A v \in Nat : RootDivisor(x, d, v) = 2 * v + B
  BY <1>1 DEF RootDivisor
<1>3. d \in DOMAIN RootStep(x, d)
  <2>1. RootDivisor(x, d, d) > 0
    BY <1>1 DEF RootDivisor
  <2> QED BY <2>1 DEF RootStep
<1>4. ASSUME NEW v \in DOMAIN RootStep(x, d)
      PROVE  \/ close(RootStep(x, d)[v], v)
             \/ RootStep(x, d)[v] \in DOMAIN RootStep(x, d)
  <2> DEFINE y == RootStep(x, d)[v]
  <2>1. v \in Nat /\ 2 * v + B > 0
    BY <1>2 DEF RootStep
  <2>2. y = (v * v + c_of(x, d)) \div (2 * v + B)
    BY <1>2, <2>1 DEF RootStep
  <2> HIDE DEF y, B
  <2>3. y \in Nat /\ (2 * y + B > 0 \/ (v <= 1 /\ y = 0))
    BY <1>1, <2>1, <2>2, RootStepStays
  <2>4. CASE 2 * y + B > 0
    <3>1. y \in DOMAIN RootStep(x, d)
      BY <1>2, <2>3, <2>4 DEF RootStep
    <3> QED BY <3>1 DEF y
  <2>5. CASE v <= 1 /\ y = 0
    <3>1. close(y, v)
      BY <2>1, <2>5 DEF close, Distance
    <3> QED BY <3>1 DEF y
  <2> QED BY <2>3, <2>4, <2>5
<1> QED BY <1>3, <1>4

(* What get_y returns on uint256 is the positive root of the quadratic     *)
(* that the floating-point code solves in closed form: rounded down, or    *)
(* one above that.                                                         *)
THEOREM GetYFindsTheRoot ==
  ASSUME NEW xp, NEW i, xp[Other(i)] \in Nat, NEW d \in Nat,
         NEW y \in get_y(xp, d, i)
  PROVE  /\ y \in Nat
         /\ OffRoot(xp[Other(i)], d, y) <= 1
         /\ OffRoot(xp[Other(i)], d, y + 1) > 0
<1> DEFINE x == xp[Other(i)]
           step == RootStep(x, d)
           B == b_of(x, d) - d
           c == c_of(x, d)
<1>1. x \in Nat \ {0} /\ y \in Iterate(step, d)
  BY DEF get_y
<1>2. B \in Int /\ c \in Nat
  <2> HIDE DEF x
  <2> QED BY <1>1, CoefficientsNat
<1>3. PICK v \in DOMAIN step : v \in Nat /\ y = step[v] /\ close(y, v) /\ y \in Nat
  <2>1. /\ d \in DOMAIN step
        /\ \A u \in DOMAIN step : close(step[u], u) \/ step[u] \in DOMAIN step
    BY <1>1, RootDivisorStaysPositive
  <2>2. DOMAIN step \in SUBSET Nat
    BY DEF RootStep
  <2> HIDE DEF step
  <2> QED BY <1>1, <2>1, <2>2, IterateEnds
<1>4. 2 * v + B > 0 /\ y = (v * v + c) \div (2 * v + B)
  <2>1. RootDivisor(x, d, v) = 2 * v + B
    BY <1>1, <1>3, CoefficientsNat DEF RootDivisor
  <2> QED BY <1>3, <2>1 DEF RootStep
<1> HIDE DEF x, step, B, c
<1>5. (2 * v + B) * y <= v * v + c /\ v * v + c < (2 * v + B) * y + (2 * v + B)
  BY <1>2, <1>3, <1>4, RootStepStays
<1>6. PICK e \in {-1, 0, 1} : y = v + e
  BY <1>3, CloseValues
<1>7. y * y + B * y - c <= 1 /\ (y + 1) * (y + 1) + B * (y + 1) - c > 0
  BY <1>2, <1>3, <1>5, <1>6, RootStepResidual
<1>8. /\ OffRoot(x, d, y) = y * y + B * y - c
      /\ OffRoot(x, d, y + 1) = (y + 1) * (y + 1) + B * (y + 1) - c
  BY DEF OffRoot, B, c
<1> QED BY <1>3, <1>7, <1>8 DEF x

(* Above the root the quadratic stays positive.                            *)
LEMMA AboveRoot ==
  ASSUME NEW x \in Nat \ {0}, NEW d \in Nat,
         NEW y \in Nat, OffRoot(x, d, y) > 0, NEW z \in Nat, y <= z
  PROVE  OffRoot(x, d, z) > 0
<1> DEFINE B == b_of(x, d) - d
           c == c_of(x, d)
<1>1. B \in Int /\ c \in Nat
  BY CoefficientsNat
<1> HIDE DEF B, c
<1>2. y * y + B * y > c /\ (y * y + B * y) \in Int
  BY <1>1 DEF OffRoot, B, c
<1>3. y * (y + B) > 0
  <2>1. y * (y + B) = y * y + B * y
    BY <1>1
  <2> QED BY <1>1, <1>2, <2>1
<1>4. y + B > 0
  <2>1. ASSUME y + B <= 0 PROVE FALSE
    <3>1. y * (y + B) <= y * 0
      BY <1>1, <2>1, MulMonotone
    <3> QED BY <1>1, <1>3, <3>1
  <2> QED BY <1>1, <2>1
<1>5. (z - y) * (z + y + B) >= 0
  <2>1. z - y \in Nat /\ z + y + B \in Nat
    BY <1>1, <1>4
  <2> QED BY <2>1, MulNat
<1>6. z * z + B * z = y * y + B * y + (z - y) * (z + y + B)
  BY <1>1
<1>7. z * z + B * z \in Int /\ (z - y) * (z + y + B) \in Int
  BY <1>1
<1>8. z * z + B * z > c
  BY <1>1, <1>2, <1>5, <1>6, <1>7
<1> QED BY <1>1, <1>7, <1>8 DEF OffRoot, B, c

LEMMA DPNat ==
  ASSUME NEW xp, xp[1] \in Nat \ {0}, xp[2] \in Nat \ {0}, NEW d \in Nat
  PROVE  D_P(xp, d) \in Nat
<1> DEFINE p == (d * d) \div xp[1]
           q == (p * d) \div xp[2]
<1>1. p \in Nat
  BY MulNat, DivNat
<1> HIDE DEF p
<1>2. q \in Nat
  BY <1>1, MulNat, DivNat
<1> HIDE DEF q
<1>3. q \div (N_COINS * N_COINS) \in Nat
  BY <1>2, DivNat DEF N_COINS
<1> QED BY <1>3 DEF D_P, p, q

(* The equation newton_D solves, divided by D and rounded as in the code.  *)
OffInvariant(xp, d) ==
  ((Ann - A_MULTIPLIER) * d) \div A_MULTIPLIER + D_P(xp, d)
    - (Ann * (xp[1] + xp[2])) \div A_MULTIPLIER

(* newton_D on uint256 stops within one of a value at which the invariant, *)
(* as rounded, is off by at most two units of the slope the step divides   *)
(* by: it never stops because the rounding of a step hides the rest.       *)
THEOREM NewtonDNearlySolves ==
  ASSUME NEW xp, xp[1] \in Nat, xp[2] \in Nat, NEW d \in newton_D(xp)
  PROVE  \E v \in Nat :
           /\ close(d, v)
           /\ NewtonDivisor(xp, v, N_COINS + 1) > 0
           /\ v * OffInvariant(xp, v) <= NewtonDivisor(xp, v, N_COINS + 1)
           /\ v * OffInvariant(xp, v) > - (2 * NewtonDivisor(xp, v, N_COINS + 1))
<1> DEFINE S == xp[1] + xp[2]
           step == NewtonStep(xp, N_COINS, N_COINS + 1)
<1>1. xp[1] \in Nat \ {0} /\ xp[2] \in Nat \ {0} /\ S \in Nat
  BY DEF newton_D, InNewtonRange
<1>2. d \in Iterate(step, S)
  BY DEF newton_D
<1>3. DOMAIN step \subseteq Nat
  BY DEF NewtonStep
<1>m. Ann - A_MULTIPLIER \in Nat /\ A_MULTIPLIER \in Nat \ {0} /\ Ann \in Nat
  BY AmplificationAssumption DEF Ann, N_COINS
<1> DEFINE K == (Ann * S) \div A_MULTIPLIER
           M(v) == ((Ann - A_MULTIPLIER) * v) \div A_MULTIPLIER
           den(v) == NewtonDivisor(xp, v, N_COINS + 1)
<1>4. K \in Nat
  BY <1>1, <1>m, MulNat, DivNat
<1>5. ASSUME NEW v \in Nat
      PROVE  /\ M(v) \in Nat /\ D_P(xp, v) \in Nat
             /\ den(v) = M(v) + 3 * D_P(xp, v)
  BY <1>1, <1>m, MulNat, DivNat, DPNat DEF NewtonDivisor, N_COINS
<1>6. ASSUME NEW v \in DOMAIN step
      PROVE  /\ v \in Nat /\ den(v) > 0
             /\ step[v] = ((K + 2 * D_P(xp, v)) * v) \div den(v)
  BY DEF NewtonStep, N_COINS
<1>7. ASSUME NEW v \in DOMAIN step
      PROVE  /\ step[v] \in Nat
             /\ den(v) * step[v] <= (K + 2 * D_P(xp, v)) * v
             /\ (K + 2 * D_P(xp, v)) * v < den(v) * step[v] + den(v)
  <2>1. v \in Nat /\ den(v) \in Nat \ {0} /\ K + 2 * D_P(xp, v) \in Nat
    BY <1>4, <1>5, <1>6
  <2> HIDE DEF K, den, step
  <2>2. (K + 2 * D_P(xp, v)) * v \in Nat
    BY <2>1, MulNat
  <2> QED BY <1>6, <2>1, <2>2, DivNat
<1> HIDE DEF step, S
<1>8. PICK v \in DOMAIN step : d = step[v] /\ close(d, v) /\ d \in Nat
  <2>1. \A u \in Nat \cap DOMAIN step : close(step[u], u) \/ step[u] \in Nat
    BY <1>7
  <2> QED BY <1>1, <1>2, <2>1, IterateEnds
<1>9. PICK e \in {-1, 0, 1} : d = v + e
  BY <1>3, <1>8, CloseValues
<1> DEFINE P == D_P(xp, v)
           slope == den(v)
           off == M(v) + P - K
<1>10. /\ v \in Nat /\ P \in Nat /\ K \in Nat /\ M(v) \in Nat
       /\ slope = M(v) + 3 * P /\ slope > 0
       /\ slope * (v + e) <= (K + 2 * P) * v /\ (K + 2 * P) * v < slope * (v + e) + slope
  BY <1>4, <1>5, <1>6, <1>7, <1>8, <1>9
<1> HIDE DEF K, M, den, P, slope
<1>11. v * off <= slope /\ v * off > - (2 * slope)
  <2>1. v * off = slope * v - (K + 2 * P) * v
    BY <1>10
  <2>2. slope * (v + e) = slope * v + e * slope
    BY <1>10
  <2>3. slope \in Nat /\ slope * v \in Int /\ (K + 2 * P) * v \in Int
    BY <1>10
  <2> HIDE DEF off
  <2>4. e * slope <= slope /\ e * slope >= - slope /\ e * slope \in Int
    BY <2>3
  <2>5. slope * v - (K + 2 * P) * v <= - (e * slope) /\ slope * v - (K + 2 * P) * v > - (e * slope) - slope
    BY <1>10, <2>2, <2>3, <2>4
  <2> QED BY <2>1, <2>3, <2>4, <2>5
<1>12. off = OffInvariant(xp, v)
  BY DEF OffInvariant, M, P, K, S
<1> QED BY <1>8, <1>10, <1>11, <1>12 DEF slope, den

-----------------------------------------------------------------------------
(* sqrt.                                                                   *)
IsFloorRoot(s, n) == s \in Nat /\ s * s <= n /\ n < (s + 1) * (s + 1)

LEMMA FloorRootExists ==
  ASSUME NEW n \in Nat
  PROVE  \E s : IsFloorRoot(s, n)
<1> DEFINE Above == {m \in Nat : n < m * m}
<1>1. n + 1 \in Above
  <2>1. n < (n + 1) * (n + 1)
    <3>1. (n + 1) * 1 <= (n + 1) * (n + 1)
      BY MulMonotone
    <3>2. (n + 1) * (n + 1) \in Nat
      BY MulNat
    <3> QED BY <3>1, <3>2
  <2> QED BY <2>1
<1>2. PICK m \in Above : \A k \in Above : m <= k
  <2> HIDE DEF Above
  <2>1. Above \in SUBSET Nat
    BY DEF Above
  <2> QED BY <1>1, <2>1, LeastNat
<1>3. m \in Nat \ {0} /\ n < m * m
  BY <1>2
<1>4. m - 1 \in Nat /\ ~ (n < (m - 1) * (m - 1))
  <2>1. m - 1 \in Nat /\ ~ (m <= m - 1)
    BY <1>3
  <2> QED BY <1>2, <2>1
<1>5. (m - 1) * (m - 1) \in Nat
  BY <1>4, MulNat
<1>6. IsFloorRoot(m - 1, n)
  <2>1. (m - 1) + 1 = m
    BY <1>3
  <2> QED BY <1>3, <1>4, <1>5, <2>1 DEF IsFloorRoot
<1> QED BY <1>6

LEMMA FloorRootStep ==
  ASSUME NEW n \in Nat, NEW s, IsFloorRoot(s, n \div 4)
  PROVE  IsFloorRoot(IF (2 * s + 1) * (2 * s + 1) > n THEN 2 * s ELSE 2 * s + 1, n)
<1> DEFINE q == n \div 4
<1>1. q \in Nat /\ 4 * q <= n /\ n < 4 * q + 4
  OBVIOUS
<1>2. s \in Nat /\ s * s <= q /\ q < (s + 1) * (s + 1)
  BY DEF IsFloorRoot
<1> HIDE DEF q
<1>3. (2 * s) * (2 * s) = 4 * (s * s) /\ (2 * s + 2) * (2 * s + 2) = 4 * ((s + 1) * (s + 1))
  BY <1>2
<1>4. /\ s * s \in Nat /\ (s + 1) * (s + 1) \in Nat /\ (2 * s + 1) * (2 * s + 1) \in Nat
  BY <1>2, MulNat
<1>5. (2 * s) * (2 * s) <= n /\ n < (2 * s + 2) * (2 * s + 2)
  BY <1>1, <1>2, <1>3, <1>4
<1>6. CASE (2 * s + 1) * (2 * s + 1) > n
  BY <1>2, <1>5, <1>6 DEF IsFloorRoot
<1>7. CASE ~ (2 * s + 1) * (2 * s + 1) > n
  <2>1. (2 * s + 1) * (2 * s + 1) <= n
    BY <1>4, <1>7
  <2>2. (2 * s + 1) + 1 = 2 * s + 2 /\ 2 * s + 1 \in Nat
    BY <1>2
  <2> QED BY <1>5, <1>7, <2>1, <2>2 DEF IsFloorRoot
<1> QED BY <1>6, <1>7

LEMMA FloorRootUnique ==
  ASSUME NEW n \in Nat, NEW s, NEW t, IsFloorRoot(s, n), IsFloorRoot(t, n)
  PROVE  s = t
<1>1. ASSUME NEW a \in Nat, NEW b \in Nat, a < b, b * b <= n, n < (a + 1) * (a + 1)
      PROVE  FALSE
  <2>1. (a + 1) * (a + 1) <= (a + 1) * b /\ (a + 1) * b <= b * b
    BY <1>1, MulMonotone
  <2>2. (a + 1) * (a + 1) \in Nat /\ (a + 1) * b \in Nat /\ b * b \in Nat
    BY MulNat
  <2> QED BY <1>1, <2>1, <2>2
<1>2. s \in Nat /\ t \in Nat
  BY DEF IsFloorRoot
<1>3. ~ (s < t)
  BY <1>1, <1>2 DEF IsFloorRoot
<1>4. ~ (t < s)
  BY <1>1, <1>2 DEF IsFloorRoot
<1> QED BY <1>2, <1>3, <1>4

(* sqrt is the integer square root, for every number: the digits it doubles *)
(* up are never off by more than the one it corrects.                       *)
THEOREM SqrtRoundsDown ==
  ASSUME NEW n \in Nat
  PROVE  IsFloorRoot(sqrt[n], n)
<1> DEFINE root == [m \in Nat |-> CHOOSE s : IsFloorRoot(s, m)]
<1>1. ASSUME NEW m \in Nat
      PROVE  IsFloorRoot(root[m], m)
  BY FloorRootExists
<1>2. ASSUME NEW m \in Nat
      PROVE  root[m] = IF m = 0 THEN 0
                       ELSE LET r == 2 * root[m \div 4]
                            IN  IF (r + 1) * (r + 1) > m THEN r ELSE r + 1
  <2> HIDE DEF root
  <2>1. CASE m = 0
    <3>1. IsFloorRoot(0, 0)
      BY DEF IsFloorRoot
    <3> QED BY <1>1, <2>1, <3>1, FloorRootUnique
  <2>2. CASE m # 0
    <3>1. m \div 4 \in Nat
      OBVIOUS
    <3>2. IsFloorRoot(root[m \div 4], m \div 4)
      BY <1>1, <3>1
    <3> QED BY <1>1, <2>2, <3>2, FloorRootStep, FloorRootUnique
  <2> QED BY <2>1, <2>2
<1>3. root = [m \in Nat |-> IF m = 0 THEN 0
                            ELSE LET r == 2 * root[m \div 4]
                                 IN  IF (r + 1) * (r + 1) > m THEN r ELSE r + 1]
  <2>1. root = [m \in Nat |-> root[m]]
    OBVIOUS
  <2> HIDE DEF root
  <2> QED BY <1>2, <2>1
<1> HIDE DEF root
<1>4. sqrt = [m \in Nat |-> IF m = 0 THEN 0
                            ELSE LET r == 2 * sqrt[m \div 4]
                                 IN  IF (r + 1) * (r + 1) > m THEN r ELSE r + 1]
  BY <1>3 DEF sqrt
<1> DEFINE Bad == {m \in Nat : ~ IsFloorRoot(sqrt[m], m)}
<1>5. ASSUME Bad # {} PROVE FALSE
  <2>1. PICK m \in Bad : \A k \in Bad : m <= k
    <3>1. Bad \in SUBSET Nat
      OBVIOUS
    <3> HIDE DEF Bad
    <3> QED BY <1>5, <3>1, LeastNat
  <2>2. m \in Nat
    BY <2>1
  <2>3. CASE m = 0
    <3>1. sqrt[m] = 0
      BY <1>4, <2>2, <2>3
    <3> QED BY <2>1, <2>3, <3>1 DEF IsFloorRoot
  <2>4. CASE m # 0
    <3>1. m \div 4 \in Nat /\ m \div 4 < m
      BY <2>2, <2>4
    <3>2. IsFloorRoot(sqrt[m \div 4], m \div 4)
      <4>1. ~ (m <= m \div 4)
        BY <2>2, <3>1
      <4> QED BY <2>1, <3>1, <4>1
    <3>3. sqrt[m] = IF (2 * sqrt[m \div 4] + 1) * (2 * sqrt[m \div 4] + 1) > m
                      THEN 2 * sqrt[m \div 4] ELSE 2 * sqrt[m \div 4] + 1
      BY <1>4, <2>2, <2>4
    <3>4. IsFloorRoot(sqrt[m], m)
      BY <2>2, <3>2, <3>3, FloorRootStep
    <3> QED BY <2>1, <3>4
  <2> QED BY <2>3, <2>4
<1> QED BY <1>5

-----------------------------------------------------------------------------
(* Outcomes of the arithmetic that may throw.                              *)

LEMMA NewtonNat ==
  ASSUME NEW xp, NEW d \in newton_D(xp)
  PROVE  d \in Nat /\ xp[1] > 0 /\ xp[2] > 0
<1>1. InNewtonRange(xp) /\ d \in Nat
  BY IterateResults DEF newton_D
<1> QED BY <1>1 DEF InNewtonRange

LEMMA GetYNat ==
  ASSUME NEW xp, NEW d, NEW i, NEW y \in get_y(xp, d, i)
  PROVE  y \in Nat
BY IterateResults DEF get_y

LEMMA GetPNat ==
  ASSUME NEW xp, NEW d, NEW p \in get_p(xp, d)
  PROVE  p \in Nat /\ xp[1] > 0 /\ xp[2] > 0
BY DEF get_p

(* xcp has at most one outcome, and none at a scale of zero.               *)
LEMMA XcpNat ==
  ASSUME NEW d, NEW scale, NEW x \in xcp(d, scale)
  PROVE  x \in Nat /\ scale > 0 /\ xcp(d, scale) = {x}
BY DEF xcp

LEMMA XcpPositive ==
  ASSUME NEW d \in Nat, NEW scale \in Nat, NEW x \in xcp(d, scale), x > 0
  PROVE  d > 0
BY PrecisionAssumption DEF xcp, N_COINS

(* How far xcp rounds down.                                                *)
LEMMA XcpBounds ==
  ASSUME NEW d \in Nat, NEW scale \in Nat, NEW x \in xcp(d, scale)
  PROVE  /\ sqrt[PRECISION * scale] \in Nat \ {0}
         /\ 2 * (sqrt[PRECISION * scale] * x) <= PRECISION * d
         /\ PRECISION * d < 2 * (sqrt[PRECISION * scale] * (x + 1))
<1> DEFINE r == sqrt[PRECISION * scale]
           half == (d * PRECISION) \div N_COINS
<1>1. r \in Nat \ {0} /\ x = half \div r /\ x \in Nat
  BY DEF xcp
<1>2. d * PRECISION \in Nat /\ d * PRECISION = PRECISION * d
  BY MulNat, PrecisionAssumption
<1>3. /\ half \in Nat /\ 2 * half <= PRECISION * d
      /\ PRECISION * d < 2 * half + 2
  BY <1>2, DivNat DEF N_COINS
<1> HIDE DEF r, half
<1>4. r * x <= half /\ half < r * x + r /\ r * x \in Nat
  BY <1>1, <1>3, DivNat, MulNat
<1>5. r * (x + 1) = r * x + r
  BY <1>1
<1> QED BY <1>1, <1>2, <1>3, <1>4, <1>5 DEF r

LEMMA WadExpBounded ==
  ASSUME NEW k
  PROVE  wad_exp(k) \in 0 .. PRECISION
BY ExpAssumption, PrecisionAssumption DEF wad_exp

-----------------------------------------------------------------------------
(* Scaled balances and fees.                                               *)

LEMMA XPType ==
  ASSUME NEW bal \in PairsOfNat, NEW scale \in Nat
  PROVE  /\ XP(bal, scale) \in PairsOfNat
         /\ XP(bal, scale)[1] = bal[1] * precisions[1]
         /\ XP(bal, scale)[2] = (bal[2] * precisions[2] * scale) \div PRECISION
<1>1. bal[1] \in Nat /\ bal[2] \in Nat /\ precisions[1] \in Nat /\ precisions[2] \in Nat
  BY PoolAssumption DEF PairsOfNat
<1>2. bal[1] * precisions[1] \in Nat /\ bal[2] * precisions[2] * scale \in Nat
  BY <1>1, MulNat
<1>3. (bal[2] * precisions[2] * scale) \div PRECISION \in Nat
  BY <1>2, DivNat, PrecisionAssumption
<1> QED BY <1>2, <1>3 DEF XP, PairsOfNat

(* Four times the product of two numbers is at most the square of the sum. *)
LEMMA BalancednessBounded ==
  ASSUME NEW xp \in PairsOfNat, xp[1] + xp[2] > 0
  PROVE  Balancedness(xp) \in 0 .. PRECISION
<1> DEFINE x == xp[1]  y == xp[2]  S == x + y
           q == (PRECISION * N_COINS * N_COINS * x) \div S
<1>1. x \in Nat /\ y \in Nat /\ S \in Nat \ {0}
  BY DEF PairsOfNat
<1>2. PRECISION * N_COINS * N_COINS * x = PRECISION * (4 * x)
  BY <1>1, PrecisionAssumption DEF N_COINS
<1> HIDE DEF x, y, S
<1>3. PRECISION * (4 * x) \in Nat
  BY <1>1, MulNat, PrecisionAssumption
<1>4. q \in Nat /\ S * q <= PRECISION * (4 * x)
  BY <1>1, <1>2, <1>3, DivNat
<1> HIDE DEF q
<1>5. q * y <= PRECISION * S
  <2>1. (S * q) * y <= (PRECISION * (4 * x)) * y
    <3>1. S * q \in Nat
      BY <1>1, <1>4, MulNat
    <3> QED BY <1>1, <1>3, <1>4, <3>1, MulMonotone
  <2>2. 4 * (x * y) <= S * S
    <3>1. (x - y) * (x - y) >= 0
      BY <1>1
    <3>2. S * S - 4 * (x * y) = (x - y) * (x - y)
      BY <1>1 DEF S
    <3>3. S * S \in Int /\ 4 * (x * y) \in Int
      BY <1>1
    <3> QED BY <3>1, <3>2, <3>3
  <2>3. PRECISION * (4 * (x * y)) <= PRECISION * (S * S)
    <3>1. 4 * (x * y) \in Int /\ S * S \in Int
      BY <1>1
    <3> QED BY <2>2, <3>1, MulMonotone, PrecisionAssumption
  <2>4. S * (q * y) <= S * (PRECISION * S)
    <3>1. (S * q) * y = S * (q * y)
      BY <1>1, <1>4
    <3>2. (PRECISION * (4 * x)) * y = PRECISION * (4 * (x * y))
      BY <1>1, PrecisionAssumption
    <3>3. PRECISION * (S * S) = S * (PRECISION * S)
      BY <1>1, PrecisionAssumption
    <3>4. S * (q * y) \in Int /\ S * (PRECISION * S) \in Int
          /\ PRECISION * (4 * (x * y)) \in Int
      BY <1>1, <1>4, PrecisionAssumption
    <3> QED BY <2>1, <2>3, <3>1, <3>2, <3>3, <3>4
  <2>5. q * y \in Int /\ PRECISION * S \in Int
    BY <1>1, <1>4, PrecisionAssumption
  <2> QED BY <2>4, <2>5, <1>1
<1>6. q * y \in Nat
  BY <1>1, <1>4, MulNat
<1>7. (q * y) \div S \in 0 .. PRECISION
  BY <1>1, <1>5, <1>6, DivNat, DivAtMost, PrecisionAssumption
<1> QED BY <1>7 DEF Balancedness, x, y, S, q

(* The weight of mid_fee is a fraction.                                    *)
LEMMA FeeWeightBounded ==
  ASSUME NEW B \in 0 .. PRECISION, FeeWeightDivisor(B) # 0
  PROVE  (fee_gamma * B) \div FeeWeightDivisor(B) \in 0 .. PRECISION
<1> DEFINE g == (fee_gamma * B) \div PRECISION
           d == FeeWeightDivisor(B)
<1>1. fee_gamma * B \in Nat
  BY MulNat, FeeAssumption
<1>2. g \in Nat /\ fee_gamma * B < PRECISION * g + PRECISION
  BY <1>1, DivNat, PrecisionAssumption
<1>3. d = g + (PRECISION - B)
  BY <1>2, PrecisionAssumption DEF FeeWeightDivisor
<1>4. d \in Nat \ {0}
  BY <1>2, <1>3, PrecisionAssumption
<1>5. fee_gamma * B <= PRECISION * d
  <2>1. PRECISION * d = PRECISION * g + PRECISION * (PRECISION - B)
    BY <1>2, <1>3, PrecisionAssumption
  <2>2. CASE B = PRECISION
    <3>1. (fee_gamma * PRECISION) \div PRECISION = fee_gamma
      BY PrecisionAssumption, FeeAssumption
    <3> QED BY <2>2, <3>1, <1>2, <1>3, PrecisionAssumption, FeeAssumption
  <2>3. CASE B # PRECISION
    <3>1. PRECISION * 1 <= PRECISION * (PRECISION - B)
      BY <2>3, MulMonotone, PrecisionAssumption
    <3>2. PRECISION * g \in Int /\ PRECISION * (PRECISION - B) \in Int
      BY <1>2, PrecisionAssumption
    <3> QED BY <2>1, <3>1, <3>2, <1>1, <1>2, PrecisionAssumption
  <2> QED BY <2>2, <2>3
<1> HIDE DEF d
<1>6. (fee_gamma * B) \div d \in Nat /\ (fee_gamma * B) \div d <= PRECISION
  BY <1>1, <1>4, <1>5, DivNat, DivAtMost, PrecisionAssumption
<1> QED BY <1>6, PrecisionAssumption DEF d

(* Any dynamic fee lies between the bound that pre-filters trades and one. *)
LEMMA FeeBounded ==
  ASSUME NEW xp \in PairsOfNat, NEW rate \in fee(xp)
  PROVE  /\ rate \in 0 .. FEE_PRECISION - 1
         /\ rate >= fee_lower_bound
<1> DEFINE low == MinOf(mid_fee, out_fee)
           high == MaxOf(mid_fee, out_fee)
<1>1. PICK native \in native_fee(xp) : rate = clamp_fee(native)
  BY DEF fee
<1>2. native \in low .. high
  <2>1. CASE xp[1] + xp[2] = 0
    <3>1. native = out_fee
      BY <2>1, <1>1 DEF native_fee
    <3> QED BY <3>1, FeeAssumption DEF MinOf, MaxOf
  <2>2. CASE xp[1] + xp[2] # 0
    <3> DEFINE B == Balancedness(xp)
               w == (fee_gamma * B) \div FeeWeightDivisor(B)
               mean == (mid_fee * w + out_fee * (PRECISION - w)) \div PRECISION
    <3>1. xp[1] + xp[2] > 0
      BY <2>2 DEF PairsOfNat
    <3>2. B \in 0 .. PRECISION
      BY <3>1, BalancednessBounded
    <3>3. FeeWeightDivisor(B) # 0 /\ native = mean
      BY <2>2, <1>1 DEF native_fee
    <3> HIDE DEF B
    <3>4. w \in 0 .. PRECISION
      BY <3>2, <3>3, FeeWeightBounded
    <3> HIDE DEF w
    <3>5. /\ mid_fee <= out_fee => mean \in mid_fee .. out_fee
          /\ out_fee <= mid_fee => mean \in out_fee .. mid_fee
      BY <3>4, MeanNat, FeeAssumption, PrecisionAssumption
    <3> HIDE DEF mean
    <3> QED BY <3>3, <3>5, FeeAssumption DEF MinOf, MaxOf
  <2> QED BY <2>1, <2>2
<1> QED
  BY <1>1, <1>2, FeeAssumption DEF clamp_fee, fee_lower_bound, MinOf, MaxOf

(* Scaled balances stand for coins of the pool.                            *)
LEMMA CoinsBehindXP ==
  ASSUME NEW bal \in PairsOfNat, NEW scale \in Nat
  PROVE  /\ XP(bal, scale)[1] > 0 => bal[1] > 0
         /\ XP(bal, scale)[2] > 0 => bal[2] > 0
<1>1. /\ bal[1] \in Nat /\ bal[2] \in Nat
      /\ precisions[1] \in Nat /\ precisions[2] \in Nat
  BY PoolAssumption DEF PairsOfNat
<1>2. /\ XP(bal, scale)[1] = bal[1] * precisions[1]
      /\ XP(bal, scale)[2] = (bal[2] * precisions[2] * scale) \div PRECISION
  BY XPType
<1>3. ASSUME bal[1] = 0 PROVE XP(bal, scale)[1] = 0
  <2>1. 0 * precisions[1] = 0
    BY <1>1
  <2> QED BY <1>2, <1>3, <2>1
<1>4. ASSUME bal[2] = 0 PROVE XP(bal, scale)[2] = 0
  <2>1. 0 * precisions[2] * scale = 0
    BY <1>1
  <2>2. 0 \div PRECISION = 0
    BY PrecisionAssumption
  <2> QED BY <1>2, <1>4, <2>1, <2>2
<1> QED BY <1>1, <1>3, <1>4

(* A scaled balance is worth no more than the coins it stands for.         *)
LEMMA XPWorth ==
  ASSUME NEW bal \in PairsOfNat, cached_price_scale \in Nat \ {0}, NEW k \in Coin
  PROVE  /\ XP(bal, cached_price_scale)[k] \in Nat
         /\ CoinScale(k) \in Nat \ {0}
         /\ XP(bal, cached_price_scale)[k] * PRECISION <= bal[k] * CoinScale(k)
<1> DEFINE xp == XP(bal, cached_price_scale)
           held == bal[2] * precisions[2] * cached_price_scale
<1>1. /\ bal[1] \in Nat /\ bal[2] \in Nat
      /\ precisions[1] \in Nat \ {0} /\ precisions[2] \in Nat \ {0}
      /\ PRECISION \in Nat \ {0}
  BY PoolAssumption, PrecisionAssumption DEF PairsOfNat
<1>2. xp[1] = bal[1] * precisions[1] /\ xp[2] = held \div PRECISION
      /\ xp[1] \in Nat /\ xp[2] \in Nat
  BY XPType DEF PairsOfNat
<1>3. CASE k = 1
  <2>1. PRECISION * precisions[1] \in Nat \ {0}
    BY <1>1, MulPositive
  <2>2. (bal[1] * precisions[1]) * PRECISION = bal[1] * (PRECISION * precisions[1])
    BY <1>1
  <2>3. bal[1] * (PRECISION * precisions[1]) \in Nat
    BY <1>1, <2>1, MulNat
  <2> QED BY <1>2, <1>3, <2>1, <2>2, <2>3 DEF CoinScale
<1>4. CASE k = 2
  <2>1. cached_price_scale * precisions[2] \in Nat \ {0}
    BY <1>1, MulPositive
  <2>2. held \in Nat /\ held = bal[2] * (cached_price_scale * precisions[2])
    BY <1>1, MulNat
  <2> HIDE DEF held
  <2>3. PRECISION * xp[2] <= held
    BY <1>1, <1>2, <2>2, DivNat
  <2>4. PRECISION * xp[2] = xp[2] * PRECISION
    BY <1>1, <1>2
  <2> QED BY <1>2, <1>4, <2>1, <2>2, <2>3, <2>4 DEF CoinScale
<1> QED BY <1>3, <1>4 DEF Coin

LEMMA ScaledAmountsNat ==
  ASSUME NEW amounts \in PairsOfNat, NEW basis \in PairsOfNat
  PROVE  ScaledAmounts(amounts, basis) \in PairsOfNat
<1> DEFINE denom == basis[2] * precisions[2]
           ratio == IF denom > 0
                      THEN (basis[1] * precisions[1] * PRECISION) \div denom
                      ELSE 0
<1>1. precisions[1] \in Nat /\ precisions[2] \in Nat /\ PRECISION \in Nat \ {0}
  BY PoolAssumption, PrecisionAssumption
<1>2. amounts[1] \in Nat /\ amounts[2] \in Nat /\ basis[1] \in Nat /\ basis[2] \in Nat
  BY DEF PairsOfNat
<1>3. denom \in Nat /\ basis[1] * precisions[1] * PRECISION \in Nat
      /\ amounts[1] * precisions[1] \in Nat /\ amounts[2] * precisions[2] \in Nat
  BY <1>1, <1>2, MulNat
<1> HIDE DEF denom
<1>4. ratio \in Nat
  BY <1>3, DivNat
<1> HIDE DEF ratio
<1>5. (amounts[2] * precisions[2] * ratio) \div PRECISION \in Nat
  BY <1>1, <1>3, <1>4, MulNat, DivNat
<1> QED
  BY <1>3, <1>5 DEF ScaledAmounts, PairsOfNat, denom, ratio

(* The share of protection time left is a fraction.                        *)
LEMMA ProtectionFactorBounded ==
  ASSUME block_timestamp \in Nat, NEW expiry \in Nat
  PROVE  ProtectionFactor(expiry) \in 0 .. PRECISION
<1>1. CASE expiry > block_timestamp
  <2>1. (expiry - block_timestamp) * PRECISION \in Nat
    BY <1>1, MulNat, PrecisionAssumption
  <2>2. ((expiry - block_timestamp) * PRECISION) \div donation_protection_period \in Nat
    BY <2>1, DivNat, DonationAssumption
  <2> QED BY <1>1, <2>2, PrecisionAssumption DEF ProtectionFactor, MinOf
<1>2. CASE ~(expiry > block_timestamp)
  BY <1>2, PrecisionAssumption DEF ProtectionFactor
<1> QED BY <1>1, <1>2

(* _calc_token_fee is a natural, whatever the deposit or withdrawal.       *)
LEMMA CalcTokenFeeNat ==
  ASSUME NEW amounts \in PairsOfNat, NEW xp \in PairsOfNat,
         NEW basis \in PairsOfNat, NEW deposit \in BOOLEAN,
         block_timestamp \in Nat, donation_protection_expiry_ts \in Nat,
         donation_shares \in Nat, totalSupply \in Nat \ {0},
         NEW rate \in calc_token_fee(amounts, xp, basis, deposit)
  PROVE  rate \in Nat
<1> DEFINE scaled == ScaledAmounts(amounts, basis)
           S == scaled[1] + scaled[2]
           avg == S \div N_COINS
           Sdiff == Distance(scaled[1], avg) + Distance(scaled[2], avg)
           Prime(r) == (r * N_COINS) \div (4 * (N_COINS - 1))
           Penalty(f) == IF deposit THEN lp_spam_penalty_fee(f) ELSE 0
           Rate(f) == IF S = 0 THEN NOISE_FEE
                      ELSE (f * Sdiff) \div S + NOISE_FEE + Penalty(f)
<1>1. PICK r \in fee(xp) : rate = Rate(Prime(r))
  BY DEF calc_token_fee
<1>2. scaled[1] \in Nat /\ scaled[2] \in Nat
  BY ScaledAmountsNat DEF PairsOfNat
<1>3. S \in Nat /\ Sdiff \in Nat
  BY <1>2 DEF Distance, N_COINS
<1>4. Prime(r) \in Nat
  BY FeeBounded, FeeAssumption DEF N_COINS
<1> HIDE DEF S, Sdiff, Prime
<1>5. lp_spam_penalty_fee(Prime(r)) \in Nat
  <2> DEFINE pf == ProtectionFactor(donation_protection_expiry_ts)
             a == (pf * Prime(r) * donation_shares) \div totalSupply
  <2>1. pf \in Nat
    BY ProtectionFactorBounded, PrecisionAssumption
  <2> HIDE DEF pf
  <2>2. a \in Nat
    BY <1>4, <2>1, MulNat, DivNat
  <2> HIDE DEF a
  <2>3. a \div donation_shares_max_ratio \in Nat
    BY <2>2, DivNat, DonationAssumption
  <2> QED BY <1>4, <2>3 DEF lp_spam_penalty_fee, MinOf, pf, a
<1>6. S # 0 => (Prime(r) * Sdiff) \div S \in Nat
  BY <1>3, <1>4, MulNat, DivNat
<1> QED
  BY <1>1, <1>5, <1>6, FeeAssumption

-----------------------------------------------------------------------------
(* What is set aside for the admin.                                        *)

LEMMA AdminCutBounded ==
  ASSUME NEW bal \in PairsOfNat, NEW d_token_fee \in Nat,
         NEW fee_supply \in Nat, d_token_fee <= fee_supply
  PROVE  /\ AdminCut(bal, d_token_fee, fee_supply) \in PairsOfNat
         /\ \A k \in Coin : AdminCut(bal, d_token_fee, fee_supply)[k] <= bal[k]
<1> DEFINE cut == (d_token_fee * reserved_profit_fraction * admin_fee)
                    \div (FEE_PRECISION * FEE_PRECISION)
<1>1. bal[1] \in Nat /\ bal[2] \in Nat
  BY DEF PairsOfNat
<1>2. cut \in 0 .. fee_supply
  BY PartOfPart, FeeAssumption
<1> HIDE DEF cut
<1>3. CASE cut > 0 /\ fee_supply > 0
  <2>1. /\ (bal[1] * cut) \div fee_supply \in 0 .. bal[1]
        /\ (bal[2] * cut) \div fee_supply \in 0 .. bal[2]
    BY <1>1, <1>2, <1>3, PartOfWhole
  <2> QED BY <1>1, <1>3, <2>1 DEF AdminCut, Coin, PairsOfNat, cut
<1>4. CASE ~(cut > 0 /\ fee_supply > 0)
  BY <1>1, <1>4 DEF AdminCut, None, Coin, PairsOfNat, cut
<1> QED BY <1>3, <1>4

-----------------------------------------------------------------------------
(* The oracle and the profit.                                              *)

LEMMA EmaNat ==
  ASSUME last_prices \in Nat, cached_price_scale \in Nat,
         cached_price_oracle \in Nat, NEW dt
  PROVE  ema(dt) \in Nat
<1> DEFINE alpha == wad_exp((dt * PRECISION) \div ma_time)
<1>1. alpha \in 0 .. PRECISION
  BY WadExpBounded
<1> HIDE DEF alpha
<1>2. CappedLastPrice \in Nat
  BY DEF CappedLastPrice, MinOf, MaxOf
<1>3. CappedLastPrice * (PRECISION - alpha) \in Nat /\ cached_price_oracle * alpha \in Nat
  BY <1>1, <1>2, MulNat, PrecisionAssumption
<1>4. (CappedLastPrice * (PRECISION - alpha) + cached_price_oracle * alpha)
        \div PRECISION \in Nat
  BY <1>3, DivNat, PrecisionAssumption
<1> QED BY <1>4 DEF ema, alpha

(* The LPs' share of a profit is a part of it.                             *)
LEMMA LpShareBounded ==
  ASSUME NEW d_profit \in Nat
  PROVE  LpShare(d_profit) \in 0 .. d_profit
<1> DEFINE F == FEE_PRECISION
           r == reserved_profit_fraction
           part == r * (F - admin_fee)
           whole == F * F - r * admin_fee
<1>1. F \in Nat \ {0} /\ r \in 0 .. F /\ admin_fee \in 0 .. F - 1
  BY FeeAssumption
<1> HIDE DEF F, r
<1>2. part \in Nat
  BY <1>1, MulNat
<1>3. part = r * F - r * admin_fee
  BY <1>1
<1>4. r * F <= F * F
  BY <1>1, MulMonotone
<1>5. r * admin_fee <= F * admin_fee /\ F * admin_fee <= F * (F - 1)
  BY <1>1, MulMonotone
<1>6. F * (F - 1) = F * F - F
  BY <1>1
<1>7. /\ r * F \in Nat /\ F * F \in Nat
      /\ r * admin_fee \in Nat /\ F * admin_fee \in Nat
  BY <1>1, MulNat
<1>8. part <= whole /\ whole \in Nat \ {0}
  BY <1>1, <1>3, <1>4, <1>5, <1>6, <1>7
<1> HIDE DEF part, whole
<1>9. (d_profit * part) \div whole \in 0 .. d_profit
  BY <1>2, <1>8, PartOfWhole
<1>10. d_profit * r * (F - admin_fee) = d_profit * part
  BY <1>1 DEF part
<1> QED BY <1>9, <1>10 DEF LpShare, F, r, whole

(* Accounting a virtual price that has not fallen keeps the reserve of the *)
(* LPs between one, the profit and that price, and never lowers it.        *)
LEMMA AccrualProtects ==
  ASSUME NEW vp \in Nat, virtual_price \in Nat, vp >= virtual_price,
         xcp_profit \in Nat, lp_xcp_profit \in Nat,
         PRECISION <= lp_xcp_profit, lp_xcp_profit <= xcp_profit
  PROVE  /\ AccruedProfit(vp) \in Nat /\ AccruedLpProfit(vp) \in Nat
         /\ PRECISION <= AccruedLpProfit(vp)
         /\ AccruedLpProfit(vp) <= AccruedProfit(vp)
         /\ lp_xcp_profit <= virtual_price => AccruedLpProfit(vp) <= vp
         /\ AccruedLpProfit(vp) >= lp_xcp_profit
<1>1. CASE vp > virtual_price
  <2>1. AccruedProfit(vp) = xcp_profit + (vp - virtual_price)
    BY <1>1 DEF AccruedProfit
  <2>2. MaxOf(xcp_profit, PRECISION) = xcp_profit
    BY PrecisionAssumption DEF MaxOf
  <2>3. AccruedLpProfit(vp) = lp_xcp_profit + LpShare(vp - virtual_price)
    BY <1>1, <2>1, <2>2 DEF AccruedLpProfit
  <2>4. LpShare(vp - virtual_price) \in 0 .. vp - virtual_price
    BY <1>1, LpShareBounded
  <2> QED BY <1>1, <2>1, <2>3, <2>4, PrecisionAssumption
<1>2. CASE vp = virtual_price
  <2>1. AccruedProfit(vp) = xcp_profit
    BY <1>2 DEF AccruedProfit, MaxOf
  <2>2. AccruedLpProfit(vp) = lp_xcp_profit
    BY <1>2, PrecisionAssumption DEF AccruedLpProfit
  <2> QED BY <1>2, <2>1, <2>2
<1> QED BY <1>1, <1>2

-----------------------------------------------------------------------------
(* Donated shares.                                                         *)

LEMMA UnlockedBounded ==
  ASSUME block_timestamp \in Nat, NEW shares \in Nat, NEW release \in Nat
  PROVE  UnlockedShares(shares, release) \in 0 .. shares
<1>1. CASE shares = 0 \/ block_timestamp < release
  BY <1>1 DEF UnlockedShares
<1>2. CASE ~(shares = 0 \/ block_timestamp < release)
  <2>1. (shares * (block_timestamp - release)) \div donation_duration \in Nat
    <3>1. shares * (block_timestamp - release) \in Nat
      BY <1>2, MulNat
    <3> QED BY <3>1, DivNat, DonationAssumption
  <2> QED BY <1>2, <2>1 DEF UnlockedShares, MinOf
<1> QED BY <1>1, <1>2

LEMMA AvailableBounded ==
  ASSUME block_timestamp \in Nat, NEW shares \in Nat, NEW release \in Nat,
         NEW expiry \in Nat
  PROVE  AvailableShares(shares, release, expiry)
           \in 0 .. UnlockedShares(shares, release)
<1> DEFINE u == UnlockedShares(shares, release)
           f == ProtectionFactor(expiry)
<1>1. u \in Nat
  BY UnlockedBounded
<1>2. f \in 0 .. PRECISION
  BY ProtectionFactorBounded
<1> HIDE DEF u, f
<1>3. (u * (PRECISION - f)) \div PRECISION \in 0 .. u
  BY <1>1, <1>2, PartOfWhole, PrecisionAssumption
<1> QED BY <1>3 DEF AvailableShares, u, f

(* The more shares are unlocked the more are available.                    *)
LEMMA AvailableMonotone ==
  ASSUME block_timestamp \in Nat, NEW expiry \in Nat,
         NEW s1 \in Nat, NEW r1 \in Nat, NEW s2 \in Nat, NEW r2 \in Nat,
         UnlockedShares(s1, r1) <= UnlockedShares(s2, r2)
  PROVE  AvailableShares(s1, r1, expiry) <= AvailableShares(s2, r2, expiry)
<1> DEFINE u1 == UnlockedShares(s1, r1)
           u2 == UnlockedShares(s2, r2)
           rest == PRECISION - ProtectionFactor(expiry)
<1>1. u1 \in Nat /\ u2 \in Nat /\ u1 <= u2
  BY UnlockedBounded
<1>2. rest \in Nat
  BY ProtectionFactorBounded, PrecisionAssumption
<1> HIDE DEF u1, u2, rest
<1>3. u1 * rest <= u2 * rest /\ u1 * rest \in Nat /\ u2 * rest \in Nat
  BY <1>1, <1>2, MulMonotone, MulNat
<1>4. (u1 * rest) \div PRECISION <= (u2 * rest) \div PRECISION
  <2>1. (u2 * rest) \div PRECISION \in Nat
        /\ u2 * rest < PRECISION * ((u2 * rest) \div PRECISION) + PRECISION
    BY <1>3, DivNat, PrecisionAssumption
  <2>2. (u1 * rest) \div PRECISION < (u2 * rest) \div PRECISION + 1
    <3> DEFINE q == (u2 * rest) \div PRECISION
    <3> HIDE DEF q
    <3>1. u1 * rest < (q + 1) * PRECISION
      BY <2>1, <1>3, PrecisionAssumption DEF q
    <3> QED BY <3>1, <2>1, <1>3, DivBelow, PrecisionAssumption DEF q
  <2>3. (u1 * rest) \div PRECISION \in Nat
    BY <1>3, DivNat, PrecisionAssumption
  <2> QED BY <2>1, <2>2, <2>3
<1> QED BY <1>4 DEF AvailableShares, u1, u2, rest

(* A release time chosen for a number of unlocked shares unlocks no more.  *)
LEMMA ReleaseUnlocksNoMore ==
  ASSUME block_timestamp \in Nat, block_timestamp >= donation_duration,
         NEW shares \in Nat, NEW unlocked \in 0 .. shares
  PROVE  /\ ReleaseFor(unlocked, shares) \in 0 .. block_timestamp
         /\ UnlockedShares(shares, ReleaseFor(unlocked, shares)) <= unlocked
<1>1. CASE shares = 0
  BY <1>1 DEF ReleaseFor, UnlockedShares
<1>2. CASE shares > 0
  <2> DEFINE elapsed == (unlocked * donation_duration) \div shares
  <2>1. unlocked * donation_duration \in Nat
        /\ unlocked * donation_duration <= shares * donation_duration
    BY MulNat, MulMonotone, DonationAssumption
  <2>2. /\ elapsed \in Nat /\ shares * elapsed <= unlocked * donation_duration
        /\ elapsed <= donation_duration
    <3>1. unlocked * donation_duration <= donation_duration * shares
      BY <2>1, DonationAssumption
    <3> QED BY <1>2, <2>1, <3>1, DivNat, DivAtMost, DonationAssumption
  <2> HIDE DEF elapsed
  <2>3. (shares * elapsed) \div donation_duration <= unlocked
    BY <2>2, MulNat, DivAtMost, DonationAssumption
  <2>4. ReleaseFor(unlocked, shares) = block_timestamp - elapsed
    BY <1>2 DEF ReleaseFor, elapsed
  <2>5. /\ ReleaseFor(unlocked, shares) \in 0 .. block_timestamp
        /\ ~(block_timestamp < ReleaseFor(unlocked, shares))
        /\ block_timestamp - ReleaseFor(unlocked, shares) = elapsed
    BY <2>2, <2>4, DonationAssumption
  <2>6. (shares * elapsed) \div donation_duration \in Nat
    BY <2>2, MulNat, DivNat, DonationAssumption
  <2> QED BY <1>2, <2>3, <2>5, <2>6 DEF UnlockedShares, MinOf
<1> QED BY <1>1, <1>2

-----------------------------------------------------------------------------
(* A rebalance.                                                            *)

(* The actuator moves towards the oracle, at most a fifth of the way.      *)
LEMMA ActuatorTowardsOracle ==
  ASSUME NEW ps \in Nat \ {0}, NEW to \in Nat,
         NEW new, new = Actuator!NewPriceScale(0, to, ps), new # ps
  PROVE  /\ new \in Nat
         /\ new > ps <=> to > ps
         /\ 5 * (Distance(new, ps) - 1) <= Distance(to, ps)
<1> DEFINE norm == Actuator!Norm(to, ps)
           step == Actuator!AdjustmentStep(norm)
<1>1. Actuator!TargetPrice(0, to) = to
  BY DEF Actuator!TargetPrice
<1>2. norm \in Nat
  <2>1. to * PRECISION \in Nat
    BY MulNat, PrecisionAssumption
  <2>2. (to * PRECISION) \div ps \in Nat
    BY <2>1, DivNat
  <2> QED BY <2>2, PrecisionAssumption DEF Actuator!Norm
<1>3. step \in Nat /\ 5 * step <= norm
  <2> HIDE DEF norm
  <2> QED BY <1>2, PoolAssumption DEF Actuator!AdjustmentStep
<1>4. step > 0 /\ new = (ps * (norm - step) + step * to) \div norm
  BY <1>1, <1>3, PoolAssumption DEF Actuator!NewPriceScale
<1> HIDE DEF norm, step
<1>5. norm \in Nat \ {0}
  BY <1>2, <1>3, <1>4
<1>6. /\ new \in Nat
      /\ new > ps <=> to > ps
      /\ ps < to => 5 * (new - ps) <= to - ps
      /\ to <= ps => 5 * (ps - new - 1) <= ps - to
  BY <1>3, <1>4, <1>5, FifthOfTheWay
<1> QED BY <1>6 DEF Distance

(* A ledger with room for MINIMUM_LIQUIDITY besides the donated shares.    *)
SoundBook(book) ==
  /\ book = Book(book.supply, book.shares, book.release)
  /\ book.supply \in Nat /\ book.shares \in Nat /\ book.release \in Nat
  /\ book.shares + MINIMUM_LIQUIDITY <= book.supply

LEMMA SpendableBounded ==
  ASSUME block_timestamp \in Nat, donation_protection_expiry_ts' \in Nat,
         NEW book, SoundBook(book)
  PROVE  /\ Spendable(book) \in 0 .. UnlockedShares(book.shares, book.release)
         /\ UnlockedShares(book.shares, book.release) \in 0 .. book.shares
<1>1. book.shares \in Nat /\ book.release \in Nat
  BY DEF SoundBook
<1>2. UnlockedShares(book.shares, book.release) \in 0 .. book.shares
  BY <1>1, UnlockedBounded
<1>3. Spendable(book) \in 0 .. UnlockedShares(book.shares, book.release)
  BY <1>1, AvailableBounded DEF Spendable
<1> QED BY <1>2, <1>3

(* A burn leaves a sound ledger, and takes what it burns out of the        *)
(* unlocked shares.                                                        *)
LEMMA BurnedSound ==
  ASSUME block_timestamp \in Nat, block_timestamp >= donation_duration,
         donation_protection_expiry_ts' \in Nat,
         NEW book, SoundBook(book), NEW burn \in 0 .. Spendable(book)
  PROVE  /\ SoundBook(Burned(book, burn))
         /\ Burned(book, burn).supply = book.supply - burn
         /\ Burned(book, burn).shares = book.shares - burn
         /\ \/ Burned(book, burn).release = book.release
            \/ Burned(book, burn).release <= block_timestamp
         /\ UnlockedShares(Burned(book, burn).shares, Burned(book, burn).release)
              + burn <= UnlockedShares(book.shares, book.release)
<1> DEFINE sp == Spendable(book)
           u == UnlockedShares(book.shares, book.release)
           left == u - (burn * u) \div sp
           rel == ReleaseFor(left, book.shares - burn)
<1>1. sp \in 0 .. u /\ u \in 0 .. book.shares
  BY SpendableBounded
<1>2. /\ book.supply \in Nat /\ book.shares \in Nat /\ book.release \in Nat
      /\ book.shares + MINIMUM_LIQUIDITY <= book.supply
  BY DEF SoundBook
<1>3. CASE burn = 0
  <2>1. Burned(book, burn) = book
    BY <1>3 DEF Burned
  <2> QED BY <1>1, <1>2, <1>3, <2>1
<1>4. CASE burn # 0
  <2> HIDE DEF sp, u
  <2>0. burn \in 1 .. sp
    BY <1>4, <1>1 DEF sp
  <2>1. burn \in Nat /\ sp \in Nat \ {0} /\ u \in Nat /\ burn <= sp /\ sp <= u
    BY <1>1, <1>2, <2>0
  <2>taken. (burn * u) \div sp \in burn .. u
    <3>1. burn * sp <= burn * u /\ burn * u <= sp * u /\ burn * u \in Nat
      BY <2>1, MulMonotone, MulNat
    <3>2. burn * u <= u * sp
      BY <2>1, <3>1
    <3>3. burn <= (burn * u) \div sp
      BY <2>1, <3>1, DivAtLeast
    <3>4. (burn * u) \div sp <= u
      BY <2>1, <3>1, <3>2, DivAtMost
    <3>5. (burn * u) \div sp \in Nat
      BY <2>1, <3>1, DivNat
    <3> QED BY <2>1, <3>3, <3>4, <3>5
  <2>2. left \in 0 .. book.shares - burn /\ left + burn <= u
        /\ book.shares - burn \in Nat
    BY <1>1, <1>2, <2>0, <2>1, <2>taken
  <2> HIDE DEF left
  <2>3. /\ rel \in 0 .. block_timestamp /\ rel \in Nat
        /\ UnlockedShares(book.shares - burn, rel) <= left
    BY <2>2, ReleaseUnlocksNoMore
  <2> HIDE DEF rel
  <2>4. UnlockedShares(book.shares - burn, rel) \in Nat
    <3>1. UnlockedShares(book.shares - burn, rel) \in 0 .. book.shares - burn
      BY <2>2, <2>3, UnlockedBounded
    <3> QED BY <2>2, <3>1
  <2>5. Burned(book, burn) = Book(book.supply - burn, book.shares - burn, rel)
    BY <1>4 DEF Burned, rel, left, u, sp
  <2>6. /\ Burned(book, burn).supply = book.supply - burn
        /\ Burned(book, burn).shares = book.shares - burn
        /\ Burned(book, burn).release = rel
    BY <2>5 DEF Book
  <2>7. SoundBook(Burned(book, burn))
    BY <1>2, <2>0, <2>1, <2>2, <2>3, <2>5, <2>6, PoolAssumption DEF SoundBook
  <2> QED BY <1>1, <2>1, <2>2, <2>3, <2>4, <2>6, <2>7 DEF u
<1> QED BY <1>3, <1>4

(* What a settlement of a sound ledger leaves: the price written is the    *)
(* live one, it covers the LPs' profit, shares were burned only from what  *)
(* was spendable and only by a move of the scale, and one share fewer      *)
(* would have left the price below the goal.                               *)
SoundSettlement(D_, book, vp, s) ==
  /\ s.D \in Nat \ {0} /\ s.vp \in Nat /\ s.scale \in Nat \ {0}
  /\ PRECISION <= s.vp
  /\ lp_xcp_profit' <= vp => s.vp >= lp_xcp_profit'
  /\ \E burn \in 0 .. Spendable(book) : s.book = Burned(book, burn)
  /\ \E x \in Nat : /\ xcp(s.D, s.scale) = {x}
                    /\ s.vp = VirtualPrice(x, s.book.supply)
                    /\ s.book.supply < book.supply
                         => PRECISION * x < (s.book.supply + 1)
                                              * MaxOf(lp_xcp_profit', vp)
  /\ \/ /\ s.scale = cached_price_scale
        /\ s.D = D_ /\ s.book = book /\ s.vp = vp
     \/ /\ s.scale = p_new /\ p_new # cached_price_scale
        /\ s.vp >= lp_xcp_profit'
        /\ last_timestamp < block_timestamp

LEMMA SettlementsSound ==
  ASSUME block_timestamp \in Nat, block_timestamp >= donation_duration,
         donation_protection_expiry_ts' \in Nat,
         cached_price_scale \in Nat \ {0}, cached_price_oracle' \in Nat,
         lp_xcp_profit' \in Nat, PRECISION <= lp_xcp_profit',
         NEW xp, NEW D_ \in Nat, NEW book, SoundBook(book),
         NEW x \in xcp(D_, cached_price_scale),
         NEW vp, vp = VirtualPrice(x, book.supply), PRECISION <= vp,
         NEW s \in Settlements(xp, D_, x, book, vp)
  PROVE  SoundSettlement(D_, book, vp, s)
<1>1. /\ Spendable(book) \in 0 .. UnlockedShares(book.shares, book.release)
      /\ UnlockedShares(book.shares, book.release) \in 0 .. book.shares
  BY SpendableBounded
<1>2. /\ book.supply \in Nat /\ book.shares \in Nat
      /\ book.shares + MINIMUM_LIQUIDITY <= book.supply
      /\ MINIMUM_LIQUIDITY \in Nat \ {0}
      /\ Spendable(book) \in Nat /\ Spendable(book) < book.supply
      /\ book.supply > 0
  BY <1>1, PoolAssumption DEF SoundBook
<1>3. x \in Nat /\ xcp(D_, cached_price_scale) = {x}
  BY XcpNat
<1>4. vp = (PRECISION * x) \div book.supply /\ vp \in Nat
  <2>1. PRECISION * x \in Nat
    BY <1>3, MulNat, PrecisionAssumption
  <2> QED BY <1>2, <2>1, DivNat DEF VirtualPrice
<1>5. x > 0 /\ D_ > 0
  <2>1. x # 0
    <3> SUFFICES ASSUME x = 0 PROVE FALSE
      OBVIOUS
    <3>1. (PRECISION * x) \div book.supply = 0
      BY <1>2, PrecisionAssumption
    <3> QED BY <3>1, <1>4, PrecisionAssumption
  <2>2. x > 0
    BY <1>3, <2>1
  <2> QED BY <2>2, XcpPositive
<1>6. ASSUME s \in Keep(xp, D_, book, vp)
      PROVE  SoundSettlement(D_, book, vp, s)
  <2>1. s = [D |-> D_, vp |-> vp, scale |-> cached_price_scale, book |-> book]
    BY <1>6 DEF Keep
  <2>2. s.book = Burned(book, 0) /\ 0 \in 0 .. Spendable(book)
    BY <2>1, <1>2 DEF Burned
  <2>3. /\ s.D = D_ /\ s.vp = vp /\ s.scale = cached_price_scale /\ s.book = book
    BY <2>1
  <2>4. /\ s.D \in Nat \ {0} /\ s.vp \in Nat /\ s.scale \in Nat \ {0}
        /\ PRECISION <= s.vp
        /\ lp_xcp_profit' <= vp => s.vp >= lp_xcp_profit'
    BY <1>4, <1>5, <2>3
  <2>5. /\ xcp(s.D, s.scale) = {x} /\ s.vp = VirtualPrice(x, s.book.supply)
        /\ ~(s.book.supply < book.supply)
    BY <1>2, <1>3, <2>3
  <2> QED BY <1>3, <2>2, <2>3, <2>4, <2>5 DEF SoundSettlement
<1>7. ASSUME s \in Move(xp, D_, book, vp), Rebalances(x, book, vp)
      PROVE  SoundSettlement(D_, book, vp, s)
  <2> DEFINE xp_new == [xp EXCEPT ![2] = (xp[2] * p_new) \div cached_price_scale]
             goal == MaxOf(lp_xcp_profit', vp)
             Short(c) == VirtualPrice(c, book.supply) < goal
             Burn(c) == IF Short(c) THEN BurnFor(c, goal, book) ELSE 0
             NewVp(c) == PriceAfterBurn(c, book.supply, Burn(c))
             Outcome(d, c) ==
               IF Short(c) /\ (PRECISION * c) \div goal >= book.supply THEN {}
               ELSE IF ~lp_gate_passed(NewVp(c)) THEN Keep(xp, D_, book, vp)
               ELSE IF assert_balance(xp_new)
                 THEN {[D |-> d, vp |-> NewVp(c), scale |-> p_new,
                        book |-> Burned(book, Burn(c))]}
                 ELSE {}
  <2>0. s \in UNION {UNION {Outcome(d, c) : c \in xcp(d, p_new)}
                       : d \in newton_D(xp_new)}
    BY <1>7 DEF Move
  <2> HIDE DEF Outcome, xp_new
  <2>p. PICK new_D \in newton_D(xp_new) :
          s \in UNION {Outcome(new_D, c) : c \in xcp(new_D, p_new)}
    BY <2>0
  <2>q. PICK new_xcp \in xcp(new_D, p_new) : s \in Outcome(new_D, new_xcp)
    BY <2>p
  <2>1. \/ s \in Keep(xp, D_, book, vp)
        \/ /\ ~(/\ Short(new_xcp)
               /\ (PRECISION * new_xcp) \div goal >= book.supply)
           /\ lp_gate_passed(NewVp(new_xcp))
           /\ s = [D |-> new_D, vp |-> NewVp(new_xcp), scale |-> p_new,
                   book |-> Burned(book, Burn(new_xcp))]
    BY <2>q DEF Outcome
  <2>2. CASE s \in Keep(xp, D_, book, vp)
    BY <2>2, <1>6
  <2>3. CASE ~(s \in Keep(xp, D_, book, vp))
    <3> DEFINE burn == Burn(new_xcp)
               new_vp == NewVp(new_xcp)
    <3>1. /\ ~(/\ Short(new_xcp)
              /\ (PRECISION * new_xcp) \div goal >= book.supply)
          /\ lp_gate_passed(new_vp)
          /\ s.D = new_D /\ s.vp = new_vp /\ s.scale = p_new
          /\ s.book = Burned(book, burn)
      BY <2>1, <2>3
    <3>2. /\ new_D \in Nat /\ new_xcp \in Nat /\ PRECISION * new_xcp \in Nat
          /\ p_new > 0 /\ xcp(new_D, p_new) = {new_xcp}
      BY NewtonNat, XcpNat, MulNat, PrecisionAssumption
    <3>3. goal \in Nat \ {0}
      BY <1>4, PrecisionAssumption DEF MaxOf
    <3>4. p_new # cached_price_scale /\ last_timestamp < block_timestamp
      BY <1>7 DEF Rebalances
    <3>5. p_new \in Nat \ {0}
      BY <3>2, <3>4, ActuatorTowardsOracle DEF p_new
    <3> HIDE DEF goal
    <3>6. burn \in 0 .. Spendable(book)
      <4>1. CASE Short(new_xcp)
        <5>1. (PRECISION * new_xcp) \div goal \in Nat
          BY <3>2, <3>3, DivNat
        <5>2. (PRECISION * new_xcp) \div goal < book.supply
          BY <3>1, <4>1, <5>1, <1>2
        <5> QED BY <4>1, <5>1, <5>2, <1>2 DEF BurnFor, MinOf
      <4>2. CASE ~Short(new_xcp)
        BY <4>2, <1>2
      <4> QED BY <4>1, <4>2
    <3>burned. burn > 0 => PRECISION * new_xcp < (book.supply - burn + 1) * goal
      <4> SUFFICES ASSUME burn > 0
                   PROVE  PRECISION * new_xcp < (book.supply - burn + 1) * goal
        OBVIOUS
      <4> DEFINE q == (PRECISION * new_xcp) \div goal
      <4>1. burn = BurnFor(new_xcp, goal, book)
        BY <1>2 DEF BurnFor, goal
      <4>2. q \in Nat /\ PRECISION * new_xcp < goal * q + goal
        BY <3>2, <3>3, DivNat
      <4>3. burn <= book.supply - q
        BY <4>1, <4>2, <1>2 DEF BurnFor, MinOf
      <4> HIDE DEF q, burn
      <4>4. goal * (q + 1) <= goal * (book.supply - burn + 1)
        BY <4>2, <4>3, <3>3, <3>6, <1>2, MulMonotone
      <4>5. /\ goal * (q + 1) = goal * q + goal
            /\ goal * (book.supply - burn + 1) = (book.supply - burn + 1) * goal
            /\ goal * q \in Nat
        BY <4>2, <3>3, <3>6, <1>2, MulNat
      <4>6. (book.supply - burn + 1) * goal \in Int /\ goal * (q + 1) \in Int
        BY <4>2, <3>3, <3>6, <1>2
      <4>7. PRECISION * new_xcp < goal * (q + 1)
        BY <4>2, <4>5
      <4>8. goal * (q + 1) <= (book.supply - burn + 1) * goal
        BY <4>4, <4>5
      <4> QED BY <4>6, <4>7, <4>8, <3>2
    <3> HIDE DEF burn
    <3>7. /\ book.supply - burn \in Nat \ {0}
          /\ new_vp = (PRECISION * new_xcp) \div (book.supply - burn)
      BY <3>6, <1>2 DEF PriceAfterBurn, burn
    <3>8. new_vp \in Nat /\ new_vp > PRECISION /\ new_vp >= lp_xcp_profit'
      BY <3>1, <3>2, <3>7, DivNat DEF lp_gate_passed
    <3>9. new_D \in Nat \ {0}
      <4>1. new_xcp # 0
        <5> SUFFICES ASSUME new_xcp = 0 PROVE FALSE
          OBVIOUS
        <5>1. (PRECISION * new_xcp) \div (book.supply - burn) = 0
          BY <3>7, PrecisionAssumption
        <5> QED BY <5>1, <3>7, <3>8, PrecisionAssumption
      <4>2. new_xcp > 0
        BY <4>1, <3>2
      <4> QED BY <4>2, <3>2, <3>5, XcpPositive
    <3>10. /\ s.book.supply = book.supply - burn
           /\ new_vp = VirtualPrice(new_xcp, s.book.supply)
      BY <3>1, <3>6, <3>7, BurnedSound DEF VirtualPrice
    <3>11. s.book.supply < book.supply
             => PRECISION * new_xcp < (s.book.supply + 1) * MaxOf(lp_xcp_profit', vp)
      BY <1>2, <3>6, <3>10, <3>burned DEF goal
    <3> HIDE DEF new_vp
    <3>12. PRECISION <= new_vp
      BY <3>8, PrecisionAssumption
    <3> QED BY <3>1, <3>2, <3>4, <3>5, <3>6, <3>8, <3>9, <3>10,
               <3>11, <3>12
            DEF SoundSettlement
  <2> QED BY <2>2, <2>3
<1>8. Rebalances(x, book, vp) \/ s \in Keep(xp, D_, book, vp)
  BY DEF Settlements
<1>9. Rebalances(x, book, vp) => s \in Move(xp, D_, book, vp)
  BY DEF Settlements
<1> QED BY <1>6, <1>7, <1>8, <1>9
=============================================================================
