---------------------------- MODULE MCPricedPool ----------------------------
(* Instances of PricedPool: half-lives of one and two hours, prices of     *)
(* about PRECISION, and a clock in half hours.                             *)
EXTENDS PricedPool, TLC

Start == 1000000
MCTimestamps == {Start, Start + 1800, Start + 3600, Start + 7200}
MCWallClock == Start + 3600

MCDecay ==
  3600 :> (1800 :> 7071 @@ 3600 :> 5000 @@ 5400 :> 3535 @@ 7200 :> 2500)
    @@ 7200 :> (1800 :> 8408 @@ 3600 :> 7071 @@ 5400 :> 5946 @@ 7200 :> 5000)

(* ma_time = 866, as in the test of the report policy. *)
MCPoolDecay == 1800 :> 1251 @@ 3600 :> 156 @@ 5400 :> 19 @@ 7200 :> 2
=============================================================================
