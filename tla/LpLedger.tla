------------------------------- MODULE LpLedger -------------------------------
(***************************************************************************)
(* What the pool promises those who hold its LP tokens, without curve,     *)
(* fees, oracle or clock: who may gain or lose shares in which call, which *)
(* way tokens move, and when a share may become worth less.                *)
(***************************************************************************)
EXTENDS Integers

CONSTANTS PRECISION, MINIMUM_LIQUIDITY

VARIABLES
  tokens,     (* what the contract holds of each coin, for LPs and admin    *)
  shares,     (* LP tokens of the caller                                    *)
  donated,    (* LP tokens the pool holds to pay for rebalances             *)
  dead,       (* LP tokens nobody can ever burn                             *)
  scale,      (* where the liquidity is concentrated                        *)
  price,      (* of one share, in invariant                                 *)
  floor       (* below which no rebalance may take the price                *)

vars == <<tokens, shares, donated, dead, scale, price, floor>>

Init ==
  /\ tokens = <<0, 0>>
  /\ shares = 0 /\ donated = 0 /\ dead = 0
  /\ price = PRECISION /\ floor = PRECISION
  /\ scale > 0

Received == tokens'[1] >= tokens[1] /\ tokens'[2] >= tokens[2] /\ tokens' # tokens
PaidOut == tokens'[1] <= tokens[1] /\ tokens'[2] <= tokens[2]

(* Open pools stay open.  Only a rebalance lowers the price, and not below *)
(* the floor, which itself never falls; only a rebalance spends donations. *)
HoldersSafe ==
  /\ dead > 0 /\ dead' = dead
  /\ floor' >= floor /\ price' >= floor'
  /\ scale' > 0
  /\ scale' = scale => price' >= price /\ donated' >= donated

Open ==
  /\ dead = 0
  /\ Received
  /\ shares' > shares
  /\ dead' = MINIMUM_LIQUIDITY
  /\ price' = PRECISION /\ floor' = PRECISION
  /\ UNCHANGED <<donated, scale>>

Deposit ==
  /\ HoldersSafe /\ Received
  /\ shares' >= shares /\ donated' <= donated

(* A donor pays and gets nothing: not even the caller's shares grow.       *)
Donate ==
  /\ HoldersSafe /\ Received
  /\ shares' = shares

Withdraw ==
  /\ HoldersSafe /\ PaidOut
  /\ shares' <= shares /\ donated' <= donated

Trade ==
  /\ HoldersSafe /\ ~Received /\ ~PaidOut
  /\ shares' = shares /\ donated' <= donated

Rebalance ==
  /\ HoldersSafe
  /\ tokens' = tokens
  /\ shares' = shares /\ donated' <= donated

Next == Open \/ Deposit \/ Donate \/ Withdraw \/ Trade \/ Rebalance

Spec == Init /\ [][Next]_vars
=============================================================================
