----------------------------- MODULE Checkpoint -----------------------------
(***************************************************************************)
(* make_pool on a historical_state: the state of a live pool is exported,  *)
(* and a run starts from it instead of from a first deposit.  Between the  *)
(* export and the start the live pool goes on, and a run may be started    *)
(* from one export several times.                                          *)
(*                                                                         *)
(* Who exports is outside the repository: Export reads the fields that the *)
(* parser asks for.  The three protection parameters of an export are the  *)
(* constants of the pool, and the pool has no policy.                      *)
(***************************************************************************)
EXTENDS Twocrypto

CONSTANTS
  StartTimes,      (* start_timestamp of a run, 0 for none                  *)
  WallClock        (* the clock a pool is constructed at                    *)

ASSUME StartAssumption ==
  /\ StartTimes \subseteq Nat
  /\ WallClock \in Nat /\ WallClock >= donation_duration

VARIABLE checkpoint

(* HistoricalState, and what the world then held (`vault`, `issued`).      *)
Exported ==
  [enabled |-> TRUE,
   source_timestamp |-> block_timestamp,
   balances |-> balances,
   admin_balances |-> admin_balances,
   last_admin_fee_claim_timestamp |-> last_admin_fee_claim_timestamp,
   D |-> D,
   total_supply |-> totalSupply,
   price_scale |-> cached_price_scale,
   price_oracle |-> cached_price_oracle,
   last_prices |-> last_prices,
   last_timestamp |-> last_timestamp,
   virtual_price |-> virtual_price,
   xcp_profit |-> xcp_profit,
   lp_xcp_profit |-> lp_xcp_profit,
   donation_shares |-> donation_shares,
   last_donation_release_ts |-> last_donation_release_ts,
   donation_protection_expiry_ts |-> donation_protection_expiry_ts,
   donation_protection_extension_remainder |->
     donation_protection_extension_remainder,
   vault |-> vault, issued |-> issued]

NotTaken == [enabled |-> FALSE]

Export ==
  /\ totalSupply > 0
  /\ checkpoint' = Exported
  /\ UNCHANGED vars

(* parse_historical_state.                                                 *)
Accepted(state) ==
  /\ state.source_timestamp > 0 /\ state.last_timestamp > 0
  /\ state.D > 0 /\ state.total_supply > 0
  /\ state.price_scale > 0 /\ state.price_oracle > 0
  /\ state.virtual_price > 0

StartsAnyTime(start_ts) == TRUE                    (* Mutant: unchecked     *)

StartsAfter(start_ts) ==
  start_ts # 0 => start_ts >= checkpoint.source_timestamp

RestoreProtectionRestarted(state) ==               (* Mutant: one forgotten *)
  /\ donation_protection_expiry_ts' = state.donation_protection_expiry_ts
  /\ donation_protection_extension_remainder' = 0

RestoreProtection(state) ==
  /\ donation_protection_expiry_ts' = state.donation_protection_expiry_ts
  /\ donation_protection_extension_remainder' =
       state.donation_protection_extension_remainder

(* make_pool: a new pool at the start time, then every field but the clock *)
(* is overwritten.                                                         *)
Resume(start_ts) ==
  /\ checkpoint.enabled
  /\ Accepted(checkpoint)
  /\ StartsAfter(start_ts)
  /\ block_timestamp' = IF start_ts # 0 THEN start_ts ELSE WallClock
  /\ balances' = checkpoint.balances
  /\ D' = checkpoint.D
  /\ totalSupply' = checkpoint.total_supply
  /\ cached_price_scale' = checkpoint.price_scale
  /\ cached_price_oracle' = checkpoint.price_oracle
  /\ last_prices' = checkpoint.last_prices
  /\ last_timestamp' = checkpoint.last_timestamp
  /\ xcp_profit' = checkpoint.xcp_profit
  /\ lp_xcp_profit' = checkpoint.lp_xcp_profit
  /\ virtual_price' = checkpoint.virtual_price
  /\ admin_balances' = checkpoint.admin_balances
  /\ last_admin_fee_claim_timestamp' =
       checkpoint.last_admin_fee_claim_timestamp
  /\ donation_shares' = checkpoint.donation_shares
  /\ last_donation_release_ts' = checkpoint.last_donation_release_ts
  /\ RestoreProtection(checkpoint)
  /\ vault' = checkpoint.vault /\ issued' = checkpoint.issued
  /\ UNCHANGED checkpoint

CheckpointNext ==
  \/ Next /\ UNCHANGED checkpoint
  \/ Export
  \/ \E start_ts \in StartTimes : Resume(start_ts)

CheckpointSpec ==
  Init /\ checkpoint = NotTaken /\ [][CheckpointNext]_<<vars, checkpoint>>

-----------------------------------------------------------------------------
(* No field of a pool is lost between its export and the start of a run:   *)
(* but for the clock, the run starts where the pool was (make_pool).       *)
ResumesAsItWas ==
  [][\A start_ts \in StartTimes :
       Resume(start_ts) =>
         Exported' = [checkpoint EXCEPT !.source_timestamp = block_timestamp']]_vars
=============================================================================
