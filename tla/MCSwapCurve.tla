---------------------------- MODULE MCSwapCurve ----------------------------
(* A balanced and an unbalanced pair of a few hundred units, so that the   *)
(* cubes of Excess stay below 2^31.                                        *)
EXTENDS SwapCurve

CurveStarts == {<<100, 100>>, <<60, 140>>}
NoEXP == [k \in {} |-> 0]
=============================================================================
