--------------------------- MODULE PoolArithmetic ---------------------------
(***************************************************************************)
(* Facts about the rounded-down divisions the pool's accounting is built   *)
(* from, for natural numbers of any size.                                  *)
(***************************************************************************)
EXTENDS Integers, TLAPS

(* A quotient is the largest number whose product fits.                    *)
LEMMA DivNat ==
  ASSUME NEW a \in Nat, NEW b \in Nat \ {0}
  PROVE  a \div b \in Nat /\ b * (a \div b) <= a /\ a < b * (a \div b) + b
OBVIOUS

(* Upper and lower bounds of a quotient, from a product.                   *)
LEMMA DivAtMost ==
  ASSUME NEW a \in Int, NEW b \in Nat \ {0}, NEW c \in Int, a <= c * b
  PROVE  a \div b <= c
OBVIOUS

LEMMA DivBelow ==
  ASSUME NEW a \in Int, NEW b \in Nat \ {0}, NEW c \in Int, a < c * b
  PROVE  a \div b < c
OBVIOUS

LEMMA DivAtLeast ==
  ASSUME NEW a \in Int, NEW b \in Nat \ {0}, NEW c \in Int, c * b <= a
  PROVE  c <= a \div b
OBVIOUS

(* Products of naturals are monotone in each factor.                       *)
LEMMA MulNat ==
  ASSUME NEW a \in Nat, NEW b \in Nat
  PROVE  a * b \in Nat
OBVIOUS

LEMMA MulMonotone ==
  ASSUME NEW a \in Nat, NEW b \in Int, NEW c \in Int, b <= c
  PROVE  a * b <= a * c /\ b * a <= c * a
OBVIOUS

LEMMA MulPositive ==
  ASSUME NEW a \in Nat \ {0}, NEW b \in Nat \ {0}
  PROVE  a * b \in Nat \ {0} /\ a <= a * b /\ b <= a * b
OBVIOUS

(* A part of a whole: x taken `part` times out of `whole`.                 *)
LEMMA PartOfWhole ==
  ASSUME NEW x \in Nat, NEW whole \in Nat \ {0}, NEW part \in 0 .. whole
  PROVE  (x * part) \div whole \in 0 .. x
<1>1. x * part \in Nat /\ x * part <= x * whole
  BY MulNat, MulMonotone
<1> QED
  BY <1>1, DivNat, DivAtMost

(* A strict part of a positive amount leaves something.                    *)
LEMMA StrictPart ==
  ASSUME NEW x \in Nat \ {0}, NEW whole \in Nat \ {0}, NEW part \in 0 .. whole - 1
  PROVE  (x * part) \div whole \in 0 .. x - 1
<1>1. x * part \in Nat
  BY MulNat
<1>2. x * part < x * whole
  <2>1. x * part <= x * (whole - 1)
    BY MulMonotone
  <2>2. x * (whole - 1) = x * whole - x
    OBVIOUS
  <2>3. x * whole \in Nat
    BY MulNat
  <2> QED BY <2>1, <2>2, <2>3, <1>1
<1> QED
  BY <1>1, <1>2, DivNat, DivBelow

(* A part of a part: the share of the reserve and the admin in a fee.      *)
LEMMA PartOfPart ==
  ASSUME NEW x \in Nat, NEW whole \in Nat \ {0},
         NEW p \in 0 .. whole, NEW q \in 0 .. whole
  PROVE  (x * p * q) \div (whole * whole) \in 0 .. x
<1>1. p * q \in Nat /\ p * q <= whole * whole
  <2>1. p * q <= p * whole
    BY MulMonotone
  <2>2. p * whole <= whole * whole
    BY MulMonotone
  <2>3. p * q \in Nat /\ p * whole \in Nat /\ whole * whole \in Nat
    BY MulNat
  <2> QED BY <2>1, <2>2, <2>3
<1>2. whole * whole \in Nat \ {0}
  BY MulPositive
<1>3. x * p * q = x * (p * q)
  OBVIOUS
<1> QED
  BY <1>1, <1>2, <1>3, PartOfWhole

(* The weighted mean of two naturals, rounded down, is a natural.          *)
LEMMA MeanNat ==
  ASSUME NEW a \in Nat, NEW b \in Nat,
         NEW whole \in Nat \ {0}, NEW w \in 0 .. whole
  PROVE  /\ (a * w + b * (whole - w)) \div whole \in Nat
         /\ a <= b => (a * w + b * (whole - w)) \div whole \in a .. b
         /\ b <= a => (a * w + b * (whole - w)) \div whole \in b .. a
<1> DEFINE sum == a * w + b * (whole - w)
<1>1. sum \in Nat
  <2>1. a * w \in Nat /\ b * (whole - w) \in Nat
    BY MulNat
  <2> QED BY <2>1
<1>2. ASSUME a <= b
      PROVE  a * whole <= sum /\ sum <= b * whole
  <2>1. (whole - w) * a <= (whole - w) * b /\ w * a <= w * b
    BY <1>2, MulMonotone
  <2>2. w * a + (whole - w) * a = whole * a /\ w * b + (whole - w) * b = whole * b
    OBVIOUS
  <2> QED BY <2>1, <2>2
<1>3. ASSUME b <= a
      PROVE  b * whole <= sum /\ sum <= a * whole
  <2>1. (whole - w) * b <= (whole - w) * a /\ w * b <= w * a
    BY <1>3, MulMonotone
  <2>2. w * a + (whole - w) * a = whole * a /\ w * b + (whole - w) * b = whole * b
    OBVIOUS
  <2> QED BY <2>1, <2>2
<1> HIDE DEF sum
<1>4. sum \div whole \in Nat
  BY <1>1, DivNat
<1>5. ASSUME a <= b PROVE sum \div whole \in a .. b
  BY <1>1, <1>2, <1>4, <1>5, DivAtMost, DivAtLeast
<1>6. ASSUME b <= a PROVE sum \div whole \in b .. a
  BY <1>1, <1>3, <1>4, <1>6, DivAtMost, DivAtLeast
<1> QED
  BY <1>4, <1>5, <1>6 DEF sum

(* A fraction step / norm of the way from one number to another, rounded   *)
(* down: between the two, and within one unit of the fraction of the gap.  *)
LEMMA PartOfTheWay ==
  ASSUME NEW from \in Nat, NEW to \in Nat,
         NEW norm \in Nat \ {0}, NEW step \in 0 .. norm,
         NEW new, new = (from * (norm - step) + step * to) \div norm
  PROVE  /\ new \in Nat
         /\ from <= to => /\ new \in from .. to
                          /\ norm * (new - from) <= step * (to - from)
         /\ to <= from => /\ new \in to .. from
                          /\ norm * (from - new - 1) < step * (from - to)
<1> DEFINE sum == from * (norm - step) + step * to
<1>0. new = sum \div norm
  OBVIOUS
<1>1. sum = from * (norm - step) + to * (norm - (norm - step))
  OBVIOUS
<1>2. /\ new \in Nat
      /\ from <= to => new \in from .. to
      /\ to <= from => new \in to .. from
  BY <1>0, <1>1, MeanNat
<1>3. sum \in Nat /\ norm * new <= sum /\ sum < norm * new + norm
  <2>1. from * (norm - step) \in Nat /\ step * to \in Nat
    BY MulNat
  <2>2. sum \in Nat
    BY <2>1
  <2> HIDE DEF sum
  <2> QED BY <1>0, <2>2, DivNat
<1>4. sum = norm * from + step * (to - from) /\ sum = norm * from - step * (from - to)
  OBVIOUS
<1>5. norm * from \in Int /\ step * (to - from) \in Int /\ step * (from - to) \in Int
      /\ norm * new \in Int
  BY <1>2
<1> HIDE DEF sum
<1>6. norm * (new - from) <= step * (to - from)
  <2>1. norm * (new - from) = norm * new - norm * from
    BY <1>2
  <2> QED BY <1>3, <1>4, <1>5, <2>1
<1>7. norm * (from - new - 1) < step * (from - to)
  <2>1. norm * (from - new - 1) = norm * from - norm * new - norm
    BY <1>2
  <2> QED BY <1>3, <1>4, <1>5, <2>1
<1> QED
  BY <1>2, <1>6, <1>7

(* A step of at most a fifth of norm: in the direction of the target, and  *)
(* up to the rounding down at most a fifth of the gap.                     *)
LEMMA FifthOfTheWay ==
  ASSUME NEW from \in Nat, NEW to \in Nat,
         NEW norm \in Nat \ {0}, NEW step \in Nat, 5 * step <= norm,
         NEW new, new = (from * (norm - step) + step * to) \div norm,
         new # from
  PROVE  /\ new \in Nat
         /\ to # from /\ (new > from <=> to > from)
         /\ from < to => 5 * (new - from) <= to - from
         /\ to <= from => 5 * (from - new - 1) <= from - to
<1>1. step \in 0 .. norm
  OBVIOUS
<1>2. /\ new \in Nat
      /\ from <= to => /\ new \in from .. to
                       /\ norm * (new - from) <= step * (to - from)
      /\ to <= from => /\ new \in to .. from
                       /\ norm * (from - new - 1) < step * (from - to)
  BY <1>1, PartOfTheWay
<1>3. CASE from < to
  <2>1. new \in from .. to /\ norm * (new - from) <= step * (to - from)
    BY <1>2, <1>3
  <2>2. (5 * step) * (to - from) <= norm * (to - from)
    BY <1>3, MulMonotone
  <2>3. norm * (5 * (new - from)) <= norm * (to - from)
    <3>1. norm * (5 * (new - from)) = 5 * (norm * (new - from))
          /\ (5 * step) * (to - from) = 5 * (step * (to - from))
      BY <1>2
    <3>2. /\ norm * (new - from) \in Int /\ step * (to - from) \in Int
          /\ norm * (to - from) \in Int
      BY <1>2
    <3> QED BY <2>1, <2>2, <3>1, <3>2
  <2>4. 5 * (new - from) <= to - from
    BY <2>3, <1>2
  <2> QED BY <1>2, <1>3, <2>1, <2>4
<1>4. CASE to <= from
  <2>1. new \in to .. from /\ norm * (from - new - 1) < step * (from - to)
    BY <1>2, <1>4
  <2>2. (5 * step) * (from - to) <= norm * (from - to)
    BY <1>4, MulMonotone
  <2>3. norm * (5 * (from - new - 1)) <= norm * (from - to)
    <3>1. norm * (5 * (from - new - 1)) = 5 * (norm * (from - new - 1))
          /\ (5 * step) * (from - to) = 5 * (step * (from - to))
      BY <1>2
    <3>2. /\ norm * (from - new - 1) \in Int /\ step * (from - to) \in Int
          /\ norm * (from - to) \in Int
      BY <1>2
    <3> QED BY <2>1, <2>2, <3>1, <3>2
  <2>4. 5 * (from - new - 1) <= from - to
    BY <2>3, <1>2
  <2> QED BY <1>2, <1>4, <2>1, <2>4
<1>5. to # from
  BY <1>2
<1> QED BY <1>3, <1>4, <1>5
=============================================================================
