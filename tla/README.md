# A verification of the twocrypto pool

TLA+ modules, model-checking runs and machine-checked proofs about
twocrypto-cpp: the C++ pool state machine of
`include/pools/twocrypto_fx/twocrypto.hpp`, the arithmetic and the price scale
actuator under it, and the parity harness of `src/benchmark_harness.cpp` that
drives it. File names below are relative to the repository; `twocrypto.hpp`,
`stableswap_math.hpp` and `price_scale_actuator.hpp` are in
`include/pools/twocrypto_fx/`.

## 1. The system

| Component | State | Operations | What makes it correct |
|---|---|---|---|
| Pool (`twocrypto.hpp`) | balances, D, totalSupply, price scale / oracle / last price and the oracle's clock, xcp_profit, lp_xcp_profit, virtual_price, admin balances and their claim time, block_timestamp, donated shares, their release time, the protection expiry and its remainder | add_liquidity (first deposit, deposit, donation), remove_liquidity, remove_liquidity_fixed_out, exchange, tick, set_block_timestamp, advance_time | tokens and shares all accounted for; holders never diluted; a rebalance spends neither the reserved LP profit nor protected donations; the cached virtual price is the real one; one rebalance per timestamp; the scale follows the oracle |
| Arithmetic (`stableswap_math.hpp`) | none | newton_D, get_y, get_p, sqrt, wad_exp | the iterations end at the solution to within one; rounding never pays a trader |
| Actuator (`price_scale_actuator.hpp`) | none; a scale moved step by step | preview_price_scale_actuator | no overshoot, a capped step, a policy that cannot drag the scale away from the oracle |
| Previews (`twocrypto.hpp` 605-641, 877-937, 1475-1517; `helpers.hpp`) | none | get_dy, get_dx, lp_price_at, projected oracle, simulate_exchange_once | a quote is what the trade then does; within a second nobody moves the oracle |
| Rollback (`twocrypto.hpp` 131-252; `policy.hpp` 28-64) | MutableSnapshot of the pool and of its policy | mutable_snapshot, restore_mutable, with_mutable_rollback | a call that throws leaves no trace |
| Harness (`src/benchmark_harness.cpp`) | shared counter, per-thread run, results | worker, run_one_pool, join | each pool reported once, as if alone; every failed action undone |
| Policy dispatch (`policy.hpp`, `policies/compiled.hpp`) | the context the policy is shown: block time and price feed | refresh_policy_context, set_price_feed, the hooks | the policy is told the time and the scale the pool has |
| Dual EMA policy (`policies/dual_ema_price_scale.hpp`; `yieldbasis.hpp` reuses it) | two averages with a clock of their own, a memo of decay factors | get_price_scale, update_state | no second counts twice; a move keeps to the cap earned |
| Report-lean policy (`policies/report_lean.hpp`) | the stored report, two averages, the committed spot | fee and fee floors, get_price_scale, update_state | reports are taken in order; a floor is a floor; the target is what is remembered |
| Historical import (`include/parity/pool_config.hpp` 208-436) | none | parse_historical_state, make_pool | no field is lost; no time lies ahead of the clock |
| Parsing (`include/parity/`) | none | JSON to structures | - |
| Python runners, tests, build | files, processes | run and compare | - |

**Interaction.** The harness calls the pool; every pool call that changes D
(other than a proportional exit) ends in `tweak_price`, which updates the
oracle, accrues profit, asks the actuator for a new scale and, if the profit
gate allows it, commits the move and burns donated shares for it. The policy is
called back from the fee and from tweak_price: it is asked for a target when a
new second allows a move, and told the outcome when the call has committed.
Import builds a pool from an exported state instead of from a first deposit; its
policy starts with no memory. There is no shared state between pools: worker
threads share only the counter and write separate slots.

**What is hard.** Not concurrency inside the pool, which has a single caller,
but order: what `tweak_price` computes from locals and what it reads back; the
values a donation, a deposit's protection and a rebalance's burn each derive
from the same release time; rounding that must always favour the pool, in Newton loops that stop near a
root and not at it; a clock
that the caller may move in both directions, while the averages of a policy
keep a clock of their own; reports that come late, twice or out of order; calls
that throw after they have written something; and, in the harness, threads that
race for pools.
`PROJECT.json` lists the hazards with their lines and the properties that cover
them.

## 2. Modules

| Module | Models | Correspondence |
|---|---|---|
| `StableswapMath` | `stableswap_math.hpp`, uint256 branch, and `_xcp` | The two Newton loops are one operator, `Iterate`, given the function that makes one step (`NewtonStep`, `RootStep`; a function is undefined where the code would divide by zero) and recursive over the remaining budget. An operation that can throw is the *set* of its outcomes: empty when it throws, a singleton otherwise; callers write `\E D_new \in newton_D(...)`. |
| `PriceScaleActuator` | `price_scale_actuator.hpp` | One operator per quantity: target, relative distance, step, new scale. |
| `PriceScaleWalk` | tweak_price's use of the actuator, alone | `Rebalance` applies it, `Observe` changes the oracle and the policy's target. |
| `SwapCurve` | the curve part of `exchange`, without fees | `Swap` trades against a fixed D; the trader's net position is a history variable. |
| `Twocrypto` | `TwoCryptoPool<uint256>` with `PolicyKind::None` | One action per call; the whole call, with its `tweak_price`, is one step. `tweak_price` is a predicate on the next state whose parts carry the code's names (`UpdateOracle`, `AccrueProfit`, `Settlements`, `Commit`). A call that throws is not a step, except in `RawNext`. |
| `LpLedger` | what the pool promises the holders of its LP tokens | Six moves (open, deposit, donate, withdraw, trade, rebalance) that say who may gain or lose shares and tokens and when a share may lose value, without curve, fees, oracle or clock. `Twocrypto` implements it (`HonoursLedger`), with the shares of the caller as the code derives them and the reserved profit as the floor. |
| `TwocryptoViews` | get_dy, get_dx, projected_price_oracle_at | Operators on the state of `Twocrypto`; the rounds of get_dx are a recursive function over the budget. |
| `Checkpoint` | `parse_historical_state`, `make_pool` | `Export` copies the fields of a live pool (external: the repository only reads exports), `Resume` checks and restores them at a start time; `CheckpointSpec` is the pool with both. |
| `AtomicCalls` | what a caller may count on | A call is refused without a trace, or returns with its effect all at once; two named calls may tear. |
| `PoolTransaction` | every call of the pool statement by statement, the two snapshots and the three handlers | A program is a sequence of steps that write members or may throw; a member holds the number of the call that wrote it last. Implements `AtomicCalls`. |
| `DualEmaPolicy` | `dual_ema_price_scale.hpp` on uint256 | One operator per function of the policy; its State is a record. |
| `PricedPool` | a pool with that policy: clocks, prices, context, `make_pool` | One action per kind of call (first deposit, touch, throwing tick, exit, clock, re-import). |
| `ReportLean` | `report_lean.hpp` | One operator per function; State and context are records. |
| `ReportedPool` | a pool with that policy, and the owner that delivers reports | One action per kind of call, for delivery and for the clock. |
| `ParityRun` | what the harness promises | Each pool's slot goes once from pending to the outcome of a run alone, then all are written. |
| `BenchmarkHarness` | `run_harness`, `run_one_pool` | One step per worker for the claim of an index, the construction, each action, its handler, the record of its state and the finish. Implements `ParityRun`. |
| `MCTwocrypto`, `MCTwocryptoViews`, `MCCheckpoint`, `MCSwapCurve`, `MCPricedPool`, `MCReportedPool` | - | Small amounts, decay tables, block times, bounds on calls. |
| `PoolArithmetic` | - | Lemmas about `\div`, `*` and weighted means. |
| `TwocryptoLemmas`, `TwocryptoProofs` | - | Lemmas about the operators of `Twocrypto`; theorems about it, `TwocryptoViews` and `Checkpoint`. |
| `PriceScaleProofs`, `PricedPoolProofs`, `ReportedPoolProofs` | - | Theorems about `PriceScaleWalk`, `PricedPool` and `ReportedPool`. |
| `PoolTransactionProofs`, `BenchmarkHarnessProofs` | - | The two implementations, `PoolTransaction` of `AtomicCalls` and `BenchmarkHarness` of `ParityRun`, and the invariants of either. |

**Variables of `Twocrypto`** are the fields of the pool under their own names,
and two history variables the code does not have: `vault`, the tokens actually
in the contract (in minus out), and `issued`, the LP tokens the caller was given
and has not returned. `Custody` and `SharesAccounted` relate them to what the
code stores or derives.

**Spec and RawSpec.** Every mutating call but `tick` and the clock wraps itself
in `with_mutable_rollback`; the harness in addition restores the pool after any
exception. So in `Spec` a call that throws does not happen. `tick` has no
rollback: `RawSpec` adds `TickThrows`, the pool left by a throwing tick that
nobody undoes. Under `RawSpec` the reserved profit may exceed the cached virtual
price, since profit is accrued before the throw and the price is not written, and
the next tick accrues it again: `LPProfitProtected` and `HonoursLedger` are
claimed of `Spec` only. The other properties are proved of both.

**Abstractions.** `PRECISION` (10^18) and `FEE_PRECISION` (10^10) are
constants; runs take 1000 for both, so that the code's products stay in TLC's
32-bit integers; the policies are run with 10000. The proofs hold for any
positive value. `wad_exp` is a table
`EXP` of decay factors, assumed to lie between 0 and PRECISION. uint256
subtraction that would wrap is a refused call or a value outside `Nat`, which
`TypeOK` rules out. Event data and gas, names, JSON and printing are left out.

`PoolTransaction` keeps the order of writes and throws and no values: those are
in `Twocrypto`. `PricedPool` and `ReportedPool` keep prices and clocks and no
amounts: the price after a call and, with reports, the pool's own oracle are any
of a small set, and whether a move pays is a choice, so every order of refused
and committed moves is in the runs. `ReportLean` computes in scaled integers
what the code computes in doubles: `SLACK` stands for the tolerance of
context_may_profit, the powers of two and the square root are tables, and a swap
is the coin that comes in, the average price paid and the spot after it.
`report_lifetime`, a parameter, is a variable that never changes, so that one
run has pools of both kinds. In `Checkpoint` the pool has no policy, and the
protection parameters that an export also carries are the constants of the pool.

## 3. Runs

| Run | Config | Question | Bounds |
|---|---|---|---|
| `calls` | `MCTwocrypto.cfg` | Do shares and tokens add up, and are holders safe, over every order of calls? Is a quote what the trade then pays, and the oracle steady within a second? | five calls on a pool of 4000, a clock that can be set back to the start; amounts chosen so that admin cuts, claims, rebalances, burns and refusals (among them a donation past its cap) all happen; quotes for 1, 50 and 200 units in both directions in every state. get_dx is allowed to be 3 units of input off (`QuoteError`) |
| `donations` | `MCDonations.cfg` | What may a rebalance take of donated shares? | seven calls; a release of 150 s with steps of 60 s gives partly unlocked and protected shares, hundreds of burns, and moves the gate rejects |
| `exits` | `MCCheckpoint.cfg` | Can the only caller leave and come back? Does any payment take the pool below the curve it stood on, or escape the least fee? Does a run resume what was exported? | five calls, exports and resumes on a pool of 200 units; burns up to all of the caller's shares; mid_fee above out_fee; no admin fee (the other branch of fixed-out); start times before and after the exports, and none |
| `transactions` | `PoolTransaction.cfg` | Does a call that throws leave a trace? | two calls, each from the harness or direct, every place of every call at which it can throw, the policy's hooks included |
| `priced_pool` | `MCPricedPool.cfg` | Do pool and policy agree, and does the policy keep time and cap? | six calls, fresh and imported pools with and without a start time, block times within and past the cap's ramp, in any order, three prices of which two lie far outside the clamps |
| `reported_pool` | `MCReportedPool.cfg` | Which reports count, and are the fee floors floors? | six calls; report and block times on both sides of the edges of the windows (6 s ahead, 12 s of admission, 300 s of life); reports kept for 300 s and delivered ones only; swaps between all pairs of six levels |
| `actuator` | `PriceScaleWalk.cfg` | Can the scale run away? | a grid of scales, oracles and targets on both sides of all clamps; unbounded steps |
| `curve` | `MCSwapCurve.cfg` | Does rounding ever pay a trader? Is D the root? | six swaps of 1 to 17 units, balanced and lopsided starts, A = 8 |
| `harness` | `MCBenchmarkHarness.cfg` | Does the harness report what a lone run would? | two threads, two pools, every combination of failing pools and actions, three actions, cadences 0, 1, 2 |
| `throwing_tick`, `exact_burn`, `gamma_zero` | | Three comments the code does not live up to (below). | |

**Implementations.** Three runs show a detailed module to implement an abstract
one: `Twocrypto` the ledger of shares and tokens (`HonoursLedger`),
`PoolTransaction` the atomic calls (`CallsAreAtomic`: a state inside a call maps
to the state before it, so a call is one step of the abstraction or a refusal),
`BenchmarkHarness` the lone runs (`KeepsItsPromise`).

Why small is enough: the properties compare neighbouring states, and
the bookkeeping they are about (a claim, a burn, an extension of the
protection, a cut) is complete within two or three calls after the first
deposit. The numbers are small but not degenerate: every run has states where
divisions round and where caps are hit. For the properties that are proved the
bounds are immaterial.

`CHECK_DEADLOCK FALSE` stands where the model does stop: at the bound on calls
or swaps, and in the harness when the output is written.

Two properties of the bare curve are true of the bounds of their run and not of
every pool; neither depends on how large the pool is. `NoFreeCoins` fails by
single units, the less amplification the sooner: at A = 8 and an A_MULTIPLIER of
4, a pool of 3 and 38 units gives one unit of the second coin away in a swap of
one unit there and three back, and the same formulas evaluated outside TLC lose
one unit over four swaps of nearly balanced pools of 10^21 units at an Ann of
A_MULTIPLIER. (The property is of the curve without fees.)
`SolvesTheInvariant` fails in pools more lopsided than about 100 to 1 at low
amplification: newton_D may stop two above the root, and a few more near the
limit of 10000 to 1, where at an Ann of at most four times A_MULTIPLIER it may
also not converge, and the call throws. What holds of every pool is weaker and
proved: `CurveIsNeverCrossed` (which the exchange would break if it did not keep
back its one unit) and `NewtonDNearlySolves`.

**Fairness.** The pool has one caller and nothing that is scheduled: no fairness
is assumed and no liveness claimed of it. The harness has threads the operating
system runs, and a `join` that waits for each: weak fairness of every worker and
of the main thread. Under it `KeepsItsPromise` includes that every pool is
reported and the output written. Reports arrive if their owner sends them, which
nobody has to.

## 4. Findings

* `throwing_tick`: `twocrypto.hpp:391` says the balance is checked "before
  committing state". The check stands at the two ends of `tweak_price`, after
  the oracle, its clock, the last price and both profits have been written. The
  wrapped calls and the harness undo them; a direct caller of `tick` sees them.
* `exact_burn`: `twocrypto.hpp:1438` says the available donation shares drop by
  exactly the burn. The release time is a whole second, so they may drop by more
  (never by less: `UnlockNeverGrows`).
* `gamma_zero`: `twocrypto.hpp:372` says fee_gamma = 0 yields out_fee. At
  perfect balance the divisor is zero and the integer pool throws.

More facts the modelling brought out, against which the repository makes no
promise:

* The cap on donated shares is checked when donating only: withdrawals exceed it
  (`CapExceededByExitsOnly`: nothing else does).
* A clock set behind the release time unlocks the whole donation until it
  catches up. `NothingAheadOfTheClock` says that this needs a caller who sets the
  clock back; a run that starts before its export is refused.
* A pool built without a start time runs on the wall clock and tells its policy
  time 0 (`pool_config.hpp:398`) until the clock is set or a target is asked for;
  `EachSecondCountsOnce` and `MovesWithinCap` hold all the same.
* get_dx approaches a fee that depends on the trade in five rounds and may name
  an input that buys a unit less than asked (`InputBuysWanted`, `QuoteError`).
* remove_liquidity is best effort towards its policy: afterwards the averages may
  not have seen the exit, but never half of it (`ExitIsBestEffort`).

## 5. Proofs

Each theorem is for all values of the constants that meet these assumptions, of
which TLC evaluates each in some run:

* the pool: `AmplificationAssumption` (Ann is at least A_MULTIPLIER),
  `PrecisionAssumption`, `ExpAssumption` (decay factors between 0 and one),
  `FeeAssumption` (fees plus the noise fee below one; admin fee below one; the
  reserved fraction at most one), `PoolAssumption` (positive precisions and
  price), `DonationAssumption` (positive periods and thresholds),
  `InputAssumption` (inputs are naturals and no clock is set before the first
  `donation_duration` seconds of the epoch), `ViewAssumption`, and of a resumed
  pool `StartAssumption` (start times are naturals, the wall clock is past the
  first `donation_duration` too);
* the actuator: `StepAssumption` and `PricesAssumption`;
* the dual-EMA policy: `PolicyAssumption` (the ranges its constructor enforces),
  `DecayAssumption` and `PriceInputAssumption` (positive prices and times, decay
  factors between 0 and one);
* the report policy: `ReportPolicyAssumption` (the ranges its constructor
  enforces), `TableAssumption` (decay factors between 0 and one; the weight of a
  report's age lies between 0 and one and grows with the age, as sqrt and exp2
  do), `ReportInputAssumption` (positive prices and report times);
* `CallsAssumption` (a bound on calls) and `HarnessAssumption` (at least one
  worker and one pool, any number of actions, any cadences).

**Twocrypto** (`TwocryptoProofs`). `Spec => []Inv`, where `Inv` is the type
invariant, `SharesAccounted`, `ProfitReserved` (the reserved profit lies between
one and the profit, the cached price is at least one), `Custody` and four facts
without which these are not inductive:

* an empty pool (D = 0) holds no balances and owes no shares: otherwise a first
  deposit could find leftovers, and a tick or an exchange on it could succeed;
* a seeded pool has some of either coin: a fixed-out exit could otherwise leave
  one coin at zero, where the curve has no price;
* the price scale is positive: calls divide by it;
* the clock is past one `donation_duration`: otherwise the release time a
  donation or a burn computes would be negative.

That the cached price pays for the reserved profit, `ProfitCovered`, is an
invariant of its own (`ProfitInvariance`): a tick that throws and is not undone
may break it, and `Inv` is to hold of such pools too. Nothing in `Inv` rests on
it.

The argument has four layers. (1) Operators: fees lie between the lower bound
and one (`FeeBounded`, with four times a product at most a squared sum), cuts
are part of what they are cut from (`AdminCutBounded`), accrual keeps the
reserved profit between one and the profit (`AccrualProtects`), a release time
unlocks no more than asked and is not ahead of the clock
(`ReleaseUnlocksNoMore`), the actuator moves towards the oracle
(`ActuatorTowardsOracle`). (2) `SettlementsSound` and `TweakPriceSound`:
whatever ledger a caller passes in, a tweak_price that does not throw commits a
sound one (`SoundTweak`). (3) One lemma per call (`AddLiquiditySound`,
`DonateSound`, `RemoveLiquidityInv`, `RemoveLiquidityFixedOutSound`,
`ExchangeSound`, `TickSound`, ...): the ledger it passes is sound, what it has
paid and cut is what it held. (4) `StepSound`: every step keeps `Inv` and is of
one of four kinds, a tweaked step (a deposit, donation, withdrawal, trade or
tick), a first deposit, a proportional exit or a step of the clock. The action
properties follow from the kinds; each is an operator and a lemma that a call from
a state of `Inv` has it (`Undiluted`, `UndilutedStep`, ...), which the theorems
about `Spec`, `RawSpec` and `CheckpointSpec` share:

* from `Inv` (and `ProfitCovered`): `TypeCorrect`, `SharesAreAccounted`,
  `TokensConserved`, `ProfitIsProtected`, `FeeBoundedBelow`;
* from the kinds of steps: `NoDilution`, `CachedPriceIsLive`,
  `RebalanceTowardsOracle`, `OneRebalancePerTimestamp`, `OnlyAvailableBurned`,
  `OnlyTheClockUnlocks`, `TicksSpendNoMore` (one share less would leave the price
  below its goal), `PoolStaysOpen`, `OracleIsSteady`;
* `AtMostOneUnitShort`, from the further invariant `Covered`: before xcp rounds
  it, the invariant pays for the cached price. An exit takes no more than its
  part of D, so it stays covered, and rounding xcp costs one unit once, not one
  unit per exit;
* `OnlyExitsPassTheCap`: a ratio falls when the supply grows and when shares are
  burned (`RatioFalls`), so it can rise by a donation, which checks it, or by an
  exit;
* `ProtectionIsKept` and `ClocksStayBehind`, under the hypothesis that the caller
  does not set the clock back, as their properties say: `ProtectionCapped`, no
  protection ends later than one period from now, is what makes the recomputed
  end of a deposit no earlier than the one before;
* `HoldersAreHonoured`: `Twocrypto` implements `LpLedger`, each kind of step by
  one move of the ledger;
* `QuotesArePaid`: what an exchange pays is the quote on the state before it. It
  needs no fact about get_y: both ask the same function for the same arguments;
* `PaymentsStayAboveTheCurve`, below.

**Newton's loops and the curve** (`TwocryptoLemmas`, `TwocryptoProofs`). The
library's induction theorems are out of the provers' reach, but not its least
number principle (`WFMin` on the naturals): of all iterates that break a claim
there is one with the least remaining budget, and one step leads from it to an
iterate that does not. So `Iterate` ends, if it ends, in the step of a value it
is close to; and the recursion of sqrt gives the floor of the root of every
number (`SqrtRoundsDown`). For get_y that is enough to say what it returns, for
every amplification, invariant and balance:

* `RootDivisorStaysPositive`: on uint256 the divisor 2y + b - D neither wraps nor
  is zero, at the start and after every step that is not the last. A step from
  any side lands at the root or above it, minus one (the square of a difference
  is not negative), and there the divisor is positive;
* `GetYFindsTheRoot`: with y and y + 1 put into the quadratic `OffRoot`, the value
  returned is the root rounded down, or the one above it;
* `NewtonDNearlySolves`: newton_D returns a value within one of some v at which
  the invariant, rounded as the code rounds it, is off by at most two steps of
  the loop. It is no root to within one: see the bounds above.

`CurveIsNeverCrossed` is what a caller needs of it: after a trade, with its whole
gross output gone, or a fixed-out exit, the scaled balances lie strictly above
the curve of the D the shares that stay had before, and the trader has paid at
least `fee_lower_bound` on the gross. `GrossOutputWorth` and `XPAtLeast` carry the
root through the division by the scale and back: the one unit kept back is worth
at least what the two roundings take. `OffRootGrows` (the quadratic grows above
its root) turns "at least y" into "above the curve". `ExchangeLeaves` and
`FixedOutLeaves` do this for the two payments.

**Ticks that throw.** `RawInvariance`: `Inv` holds of a pool whose throwing ticks
nobody undoes. Such a tick writes the oracle, its clock, the last price and the
two profits and nothing else (`TornTickStep`), so it loses no share and no token
and leaves the pool at most one unit short (`TornTicksLoseNothing`), and no later
call breaks its word for it: shares are not diluted, burns stay within what is
available, quotes are paid, and so on for twelve properties
(`TornTicksGrantNothing`). What may be lost is `ProfitCovered`.

**Export and resumption.** `CheckpointSpec` keeps `PoolAndExport`: `Inv`,
`ProfitCovered` and `Covered` of the pool, and the same of the export (`Saved`,
the pool instantiated with the fields of the export), however often the pool is
exported, resumed and exported again (`ResumedInvariance`). With it
`ResumedPoolsKeepTheirBounds`, `ResumedPoolsKeepTheCurve`,
`ResumedPoolsStayOpen`, `NothingIsForgotten`, and `ResumedPoolsKeepTheirWord`:
every call of a resumed pool, as opposed to the start itself, keeps the action
properties and is a move of the ledger. `ResumedClocksStayBehind`: no time wraps
while no caller sets the clock back, provided that no export is later than the
wall clock, which a run without a start time gets unchecked.

**The actuator** (`PriceScaleProofs`): `ScaleNeverOvershoots`,
`ScaleStepCapped`, `ScaleKeptByOracle`, for any scale, oracle, policy target and
step bounds. The cap holds up to (5 max + 1) / 5 rather than max: the floor of
the relative distance lets a move exceed the cap by a fifth of its last digit,
which the proof brought out and small grids do not show. No run repeats the
first two: the proofs say all there is to say about them, and `calls` checks
what the pool makes of the actuator.

**The dual-EMA policy** (`PricedPoolProofs`): `PoolAndPolicyAgree`,
`SecondsCountOnce`, `CacheNeverShows`, `PolicyAlwaysAnswers`, `MovesAreCapped`.
The inductive invariant adds to `PolicySeesPoolScale` that prices and scale stay
positive: a remembered scale of zero is how the policy tells that it was never
used, so an average or a move that reached zero would start it again from the
oracle. Averages of positive prices stay positive because a weighted mean lies
between its parts (`MeanNat`, `AveragePositive`), moves because they end on the
way to a positive target (`MovedScalePositive`). `UpdateRemembers` says what one
call of the policy leaves behind; every action but a re-import reaches it with a
clock that is not behind (`OnTime`). `CacheHolds` says of the memo that the
factors it keeps are those of the time it keeps with them.

**The report policy** (`ReportedPoolProofs`): `ReportsAreTakenInOrder` and
`TargetsAreRemembered` follow from what one update stores;
`FloorIsBelowEveryFee` and `WaitingNeverPays` from the monotonicity of the fee
in the spread and of a report's weight in its age, over the edges of every
window. `RejectedSwapsLose`: a trade
that context_may_profit rejects by its first unit pays at no size. At the average
price of a larger swap the fee may be lower than at the first unit, but by less
than what the price costs (`FirstUnitDecides`), up to the two roundings of a fee:
hence its hypothesis `SLACK >= 2`, units of the precision that the code's
tolerance of 1e-9 covers many times over. The run takes `SLACK = 2`.

**Rollback** (`PoolTransactionProofs`): `CallsAtomic`, `ExitsAreBestEffort`,
`TornTicksAreWhole`. Every handler
that rolls back holds the pool as it was before the call (`HandlersSound`), so
once a throw has left the last of them nothing is changed (`Undone`), but for the
two calls that run without one (`Unguarded` and `TornOps`). A call writes its fee
for the caller when nothing can throw any more (`TellsLast`). `Exiting` follows a
withdrawal from its check over its payment to its policy. `TickInv` is about a
tick called directly: of two members that belong together, the second is written
already or still to be written by what is left of the program, and the point
where it throws never lies between them (`TiedSoFar`, `Unfinished`).

**The harness** (`BenchmarkHarnessProofs`): `WorkersNeverShareSlots` and
`HarnessReportsRunsAlone`. The invariant says where the counter, the workers and
the results stand (`Taken`, `Reported`) and, of every job in progress, that its
state is the fold of the actions so far that do not fail (`RunsAlone`); the
number of kept states is a quotient of actions and cadence (`CountMoves`).

**Only model-checked.** `SolvesTheInvariant` and `NoFreeCoins`, which hold of the
bounds of their run and not for every value of the constants (section 3).
`InputBuysWanted`: how far five rounds of get_dx end from the input that buys the
wanted output depends on the fee curve, and `QuoteError` is a measured bound. That
newton_D and get_y converge within their 255 rounds is not proved either: the
theorems say what they return when they do, and a call whose loop does not
converge throws. `KeepsItsPromise` as far as it says that something happens: that
is liveness under fairness; its safety part is `HarnessReportsRunsAlone`.

## 6. Not modelled

* The `double` and `long double` instantiations: their rounding, the cached
  decay factor, warm starts, `exchange_from_preview`, `try_add_donation`, the
  prepared fee quote. ReportLean, a policy for pools of doubles, is modelled in
  scaled integers.
* `helpers.hpp` (simulate_exchange_once, price_impact_rate): templates for
  callers outside the repository, which contains none.
* Views that return one field or divide two (`get_virtual_price`, `lp_price_at`,
  `get_p`), and the ledgers of step costs, which nothing reads back.
* The choice of a policy and of its optional hooks at compile time, and the
  descriptor tables.
* JSON, the command line, printing and its mutex, the Python runners.

What is left of the C++ outside these is parsing and plumbing without state.

## 7. Plan

The models are complete as far as section 6 says, and every property of a run is
proved but for those under "Only model-checked". What could still be worth
writing, the first ones first:

1. Convergence: that the distance of get_y's iterates to the root shrinks, and so
   that 255 rounds are enough for balances below 2^256.
2. A bound on the units a round of swaps can gain from the roundings of the curve,
   and the least fee that covers it: `NoFreeCoins` of the exchange, not the curve.
3. `RawSpec`: how far repeated throwing ticks can take the reserved profit above
   the cached price.
