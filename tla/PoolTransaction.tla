--------------------------- MODULE PoolTransaction ---------------------------
(***************************************************************************)
(* The calls of TwoCryptoPool and its policy, statement by statement:      *)
(* which members each step writes, where it may throw, and who restores    *)
(* what when it does.  The values are in Twocrypto; here a member holds    *)
(* the number of the call that wrote it last.                              *)
(*                                                                         *)
(* A policy is code of its own (compiled.hpp): its hooks may throw before  *)
(* or after any of their writes.                                           *)
(***************************************************************************)
EXTENDS Naturals, Sequences, SequencesExt

CONSTANT MaxCalls        (* bound on the calls made                         *)

ASSUME CallsAssumption == MaxCalls \in Nat

(* alpha_cache stands for cached_ema_dt, cached_ema_alpha and its flag;    *)
(* ledgers for step_cost_log_ and step_gain_log_.                          *)
PoolMember ==
  {"balances", "D", "totalSupply", "cached_price_scale",
   "cached_price_oracle", "last_prices", "last_timestamp", "alpha_cache",
   "xcp_profit", "lp_xcp_profit", "virtual_price", "admin_balances",
   "last_admin_fee_claim_timestamp", "block_timestamp", "donation_shares",
   "last_donation_release_ts", "donation_protection_expiry_ts",
   "donation_protection_extension_remainder", "ledgers",
   "donated_supply_log_"}

(* The context the pool hands to the policy, and what the policy remembers.*)
PolicyMember == {"research", "compiled_state", "policy_cache"}

(* charged_lp_fee is the caller's own variable.                            *)
Member == PoolMember \cup PolicyMember \cup {"charged_lp_fee"}

SnapshotWithoutRemainder ==                        (* Mutant: one forgotten *)
  (PoolMember \cup PolicyMember) \ {"donation_protection_extension_remainder"}

(* What mutable_snapshot saves, and the policy's own part of it.           *)
Snapshot == PoolMember \cup PolicyMember
ResearchOnly == {"research"}                       (* Mutant: state kept    *)
PolicySnapshot == PolicyMember

-----------------------------------------------------------------------------
(* Programs: a step may throw, or writes some members.                     *)

Check == <<[throws |-> TRUE, writes |-> {}]>>
Write(members) == <<[throws |-> FALSE, writes |-> members]>>

(* The ways to go on from each of `heads` with each of `tails`.            *)
Then(heads, tails) == {h \o t : h \in heads, t \in tails}

UpdatePolicy ==
  Check \o Write({"policy_cache"}) \o Check \o Write({"compiled_state"})
    \o Check

(* tweak_price asks a policy for its target, on the context of this call.  *)
AskPolicy == Write({"research"}) \o Check \o Write({"policy_cache"}) \o Check

CommitOneByOne ==                                  (* Mutant: policy first  *)
  {Check \o Write({"totalSupply", "donation_shares"}) \o UpdatePolicy
     \o Write({"D", "virtual_price", "cached_price_scale", "ledgers",
               "last_donation_release_ts"})}

CommitRebalance ==
  {Check \o Write({"D", "virtual_price", "cached_price_scale", "ledgers"})
     \o burn \o UpdatePolicy :
   burn \in {<<>>, Write({"donation_shares", "totalSupply",
                          "last_donation_release_ts"})}}

SettleInPlace == Check \o Write({"D", "virtual_price"}) \o UpdatePolicy

(* The average moves once per timestamp, and only then is there a target.  *)
Tweak ==
  LET measure == Check \o Write({"last_prices"}) \o Check
                   \o Write({"xcp_profit", "lp_xcp_profit"}) \o Check
      advance == Write({"alpha_cache", "cached_price_oracle",
                        "last_timestamp"})
  IN  {measure \o SettleInPlace, advance \o measure \o SettleInPlace,
       advance \o measure \o AskPolicy \o SettleInPlace}
        \cup Then({advance \o measure \o AskPolicy}, CommitRebalance)

TweakAndStoreScale == Then(Tweak, {Write({"cached_price_scale"})})

AdminFee == {<<>>, Write({"admin_balances"}) \o Check}

Exchange ==
  Then({Check \o Write({"balances"}) \o Check \o Write({"D"})},
       Then({<<>>, Write({"admin_balances", "balances"}) \o Check
                     \o Write({"D"})},
            Tweak))

(* A deposit into a seeded pool, or a donation, which pays no admin fee.   *)
Extend == Write({"donation_protection_expiry_ts",
                 "donation_protection_extension_remainder"})
Release == Write({"last_donation_release_ts", "donation_shares",
                  "donated_supply_log_"})

Minted ==
  {Check \o paid.fee \o Check \o Write({"balances"}) \o Write({"D"})
     \o paid.for \o Write({"totalSupply"}) :
   paid \in [fee : AdminFee, for : {<<>>, Extend}]
              \cup {[fee |-> <<>>, for |-> Release]}}

(* The fee the caller asked about is handed out when all is done.          *)
AddLiquidity ==
  Then(Minted, Then(TweakAndStoreScale, {Write({"charged_lp_fee"})}))

FirstDeposit ==
  {Check \o Write({"balances"})
     \o Write({"D", "virtual_price", "xcp_profit", "lp_xcp_profit",
               "totalSupply"})
     \o UpdatePolicy \o Write({"charged_lp_fee"})}

RemoveFixedOut ==
  Then({claim \o Check \o fee \o Write({"totalSupply"}) :
          claim \in {<<>>, Write({"admin_balances",
                                  "last_admin_fee_claim_timestamp"})},
          fee \in AdminFee},
       Then(TweakAndStoreScale,
            {Write({"balances"}) \o Write({"charged_lp_fee"})}))

(* The policy is asked last, inside a handler of its own (Guarded).        *)
Withdraw == Write({"totalSupply"}) \o Write({"D"}) \o Write({"balances"})
RemoveLiquidity == {Check \o Withdraw, Check \o Withdraw \o UpdatePolicy}

SetClock == {Write({"block_timestamp"}) \o Write({"research"}) \o last :
               last \in {<<>>, Write({"last_timestamp"})}}

(* refresh_policy_context with a report: the clock and the oracle are      *)
(* stored before the report is judged.                                     *)
RefreshContext == {Write({"research"}) \o Check \o Write({"research"})}

Program ==
  [exchange |-> Exchange, add_liquidity |-> AddLiquidity \cup FirstDeposit,
   remove_liquidity |-> RemoveLiquidity, fixed_out |-> RemoveFixedOut,
   set_block_timestamp |-> SetClock, tick |-> TweakAndStoreScale,
   refresh_policy_context |-> RefreshContext]

(* execute_action offers no tick and no reports.                           *)
HarnessOps == DOMAIN Program \ {"tick", "refresh_policy_context"}
Requests == ({"harness"} \X HarnessOps) \cup ({"direct"} \X DOMAIN Program)

(* with_mutable_rollback, and the same by hand in add_liquidity_impl.      *)
RolledBack == {"exchange", "add_liquidity", "fixed_out"}

-----------------------------------------------------------------------------
VARIABLES
  value, calls, request,
  outcome,      (* "running", "throwing", "returned" or "refused"           *)
  rest,         (* the steps still to run                                   *)
  handlers,     (* the enclosing catch blocks, the innermost last           *)
  before        (* history: the members when the call began                 *)

vars == <<value, calls, request, outcome, rest, handlers, before>>

Init ==
  /\ value = [m \in Member |-> 0] /\ before = value
  /\ calls = 0 /\ request = <<"none", "none">> /\ outcome = "returned"
  /\ rest = <<>> /\ handlers = <<>>

Saved(members) == [m \in members |-> value[m]]
Handler(members, swallows) == [saved |-> Saved(members), swallows |-> swallows]

Begin(r, program) ==
  /\ outcome \in {"returned", "refused"} /\ calls < MaxCalls
  /\ calls' = calls + 1 /\ request' = r /\ before' = value
  /\ outcome' = "running" /\ rest' = program
  /\ handlers' =
       (IF r[1] = "harness" THEN <<Handler(Snapshot, FALSE)>> ELSE <<>>)
         \o (IF r[2] \in RolledBack THEN <<Handler(Snapshot, FALSE)>>
                                    ELSE <<>>)
  /\ UNCHANGED value

(* The withdrawal is done: what is left is the policy's, best effort.      *)
Guarded ==
  /\ request[2] = "remove_liquidity" /\ rest = UpdatePolicy
  /\ ~ \E k \in DOMAIN handlers : handlers[k].swallows

EnterPolicyHandler ==
  /\ outcome = "running" /\ Guarded
  /\ handlers' = Append(handlers, Handler(PolicySnapshot, TRUE))
  /\ UNCHANGED <<value, calls, request, outcome, rest, before>>

Step ==
  /\ outcome = "running" /\ rest # <<>> /\ ~Guarded
  /\ value' = [m \in Member |-> IF m \in Head(rest).writes THEN calls
                                ELSE value[m]]
  /\ rest' = Tail(rest)
  /\ UNCHANGED <<calls, request, outcome, handlers, before>>

Throw ==
  /\ outcome = "running" /\ rest # <<>> /\ ~Guarded /\ Head(rest).throws
  /\ outcome' = "throwing"
  /\ UNCHANGED <<value, calls, request, rest, handlers, before>>

Restored(saved) ==
  [m \in Member |-> IF m \in DOMAIN saved THEN saved[m] ELSE value[m]]

(* The innermost handler restores what it saved, and throws on or not.     *)
Catch ==
  /\ outcome = "throwing" /\ handlers # <<>>
  /\ value' = Restored(Last(handlers).saved)
  /\ handlers' = Front(handlers)
  /\ IF Last(handlers).swallows
       THEN outcome' = "running" /\ rest' = <<>>
       ELSE UNCHANGED <<outcome, rest>>
  /\ UNCHANGED <<calls, request, before>>

Fail ==
  /\ outcome = "throwing" /\ handlers = <<>>
  /\ outcome' = "refused" /\ rest' = <<>>
  /\ UNCHANGED <<value, calls, request, handlers, before>>

Return ==
  /\ outcome = "running" /\ rest = <<>>
  /\ outcome' = "returned" /\ handlers' = <<>>
  /\ UNCHANGED <<value, calls, request, rest, before>>

Next ==
  \/ \E r \in Requests : \E program \in Program[r[2]] : Begin(r, program)
  \/ EnterPolicyHandler \/ Step \/ Throw \/ Catch \/ Fail \/ Return

Spec == Init /\ [][Next]_vars

-----------------------------------------------------------------------------
InCall == outcome \in {"running", "throwing"}

Atomic ==
  INSTANCE AtomicCalls WITH
    value <- IF InCall THEN before ELSE value,
    outcome <- IF InCall THEN "running" ELSE outcome,
    Unprotected <- {<<"direct", "tick">>,
                    <<"direct", "refresh_policy_context">>}

(* A call that throws leaves every member, the policy's memory and the     *)
(* caller's variable as they were, wherever it throws; only tick and       *)
(* refresh_policy_context called directly may leave something behind.      *)
CallsAreAtomic == Atomic!Spec

(* A withdrawal that passes its checks is paid out whatever the policy     *)
(* does, and the policy has either seen it or remembers nothing of it      *)
(* (remove_liquidity's own handler).                                       *)
ExitIsBestEffort ==
  request[2] = "remove_liquidity" /\ outcome = "returned" =>
    /\ \A m \in {"totalSupply", "D", "balances"} : value[m] = calls
    /\ \A m \in Member \ {"totalSupply", "D", "balances",
                          "compiled_state", "policy_cache"} :
         value[m] = before[m]
    /\ value["compiled_state"] = calls
         \/ \A m \in PolicyMember : value[m] = before[m]

(* What a tick that throws leaves behind is never half a rebalance: if it  *)
(* burned donated shares or moved the scale, the invariant, the virtual    *)
(* price and the release time went with them, and balances, fees and the   *)
(* protection of donations are untouched (the writes of tweak_price).      *)
TornTickIsWhole ==
  request = <<"direct", "tick">> /\ outcome = "refused" =>
    /\ \A m \in {"balances", "admin_balances", "block_timestamp",
                 "donation_protection_expiry_ts"} : value[m] = before[m]
    /\ value["totalSupply"] = calls =>
         \A m \in {"donation_shares", "last_donation_release_ts",
                   "cached_price_scale"} : value[m] = calls
    /\ value["cached_price_scale"] = calls =>
         \A m \in {"D", "virtual_price", "last_prices", "xcp_profit",
                   "last_timestamp"} : value[m] = calls
    /\ value["compiled_state"] = calls =>
         value["D"] = calls /\ value["virtual_price"] = calls

=============================================================================
