--------------------------- MODULE MCReportedPool ---------------------------
(* Instances of ReportedPool: the defaults of the policy's descriptor, and *)
(* times at the edges of its windows: 6 s ahead, 12 s and 300 s back.      *)
EXTENDS ReportedPool, Sequences, TLC

Start == 1000000
MCTimestamps == {Start, Start + 6, Start + 300, Start + 3600}
MCReportTimes == {Start - 6, Start + 7, Start + 295}

(* The default report_lifetime_s, and -1 for delivered reports only.       *)
MCLifetimes == {300, -1}

MCDecay ==
  3600 :> (6 :> 9988 @@ 12 :> 9977 @@ 294 :> 9450 @@ 300 :> 9439 @@
           3300 :> 5297 @@ 3588 :> 5012 @@ 3594 :> 5006 @@ 3600 :> 5000)
    @@
  10800 :> (6 :> 9996 @@ 12 :> 9992 @@ 294 :> 9813 @@ 300 :> 9809 @@
            3300 :> 8091 @@ 3588 :> 7943 @@ 3594 :> 7940 @@ 3600 :> 7937)

(* The square root of age / relax_time, in units of PRECISION, rounded     *)
(* down, as a table that TLC computes once.                                *)
AgeingTable ==
  SubSeq([age \in 1 .. 300 |->
            LET square == (age * 1000000) \div 3
            IN  CHOOSE root \in 0 .. 10000 :
                  root * root <= square /\ square < (root + 1) * (root + 1)],
         1, 300)

MCAgeing == AgeingTable
=============================================================================
