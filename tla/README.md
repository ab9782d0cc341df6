# CoralSwap core: TLA+ models, checks and proofs

CoralSwap is a constant-product exchange on Soroban (Stellar's contract
platform). This directory holds TLA+ models of its contracts, the TLC
configurations that check them on small instances, and TLAPS proofs of the
most important results for every value of the constants. `PROJECT.json` maps
every definition to the lines of `src/` it models.

## 1. The system

| Component | State | Operations |
|---|---|---|
| **Pair** (`contracts/pair`) | reserves, `k_last`, staged LP per owner and its cached total, fee state, accumulated protocol fees, freeze flag, cached pause flag, reentrancy guard | `initialize`, `mint`, `mint_with_one_token`, `deposit_lp`, `burn`, `burn_single_side`, `swap`, `flash_loan`, `sync`, `set_frozen`, `set_lp_token_paused`, `set_stale_threshold`, views |
| **Arithmetic** (`pair/src/math`, `contracts/shared`) | none | quotes, liquidity, redemption, single-sided split, integer root |
| **Dynamic fee** (`pair/src/dynamic_fee.rs`, `fee_decay.rs`) | volatility accumulator, time of last update, idle threshold | decay before a swap, update after it, fee for a quote |
| **Flash loans** (`pair/src/flash_loan.rs`) | (the pair's) | lend, call the receiver, verify, record |
| **LP token** (`contracts/lp_token`) | balances, supply, allowances with a deadline, administrator, pause flag | SEP-41 entry points, `admin_transfer`, `pause`, `unpause`, `permit` |
| **Router** (`contracts/router`) | commits, slot count, used nonces, commit configuration, hubs | exact-input and exact-output routes, `add_liquidity`, `remove_liquidity`, `commit_swap`, `reveal_swap`, `prune_expired_commit`, `sweep` |
| **Factory** (`contracts/factory`) | pair registry, fee configuration, frozen pairs, signers, pending upgrade | `create_pair`, fee setters, freeze and pause relays, upgrade with delay |
| **Oracle** (`pair/src/oracle`) | observation ring | record, query |

**Interaction.** The router quotes from a pair's reserves and effective fee,
sends tokens to the pair and calls `swap`, `mint` or `burn`; the pair finds
its inputs as the difference between its balances and its reserves. The pair
administers its LP token, asks the factory for the protocol's share and a fee
override on every swap (a failed answer counts as none), and hands control to
a flash-loan receiver in the middle of `flash_loan`. The factory relays
freezes and pauses.

**What is hard.** Soroban runs one call at a time and undoes all of a failing
call, so nothing interleaves inside an entry point. The exception is the flash
loan's callback, during which tokens and LP move while the pair is locked.
What is hard to test is what happens *between* calls: a user's tokens arrive
in one call and are picked up in another, possibly somebody else's; LP staged
by one owner is redeemed beside LP nobody owns; amounts are cached in two
places (`PendingLpTotal`, `k_last`, `CommitCount`, the reserves themselves);
rounding decides who gains in each of a long series of steps; two clocks are
compared; writes before an error return are lost. Each of these is listed with
its line under `hazards` in `PROJECT.json`.

**What makes each part correct.** Pair: the seed and staged LP are out of
reach of others, reserves are covered by holdings, no one gains from rounding,
K does not fall, switches hold on every path, a loan is all or nothing. Fee
engine: the fee is bounded, recoverable, what was quoted or less, and decays
when idle. LP token: conservation, allowances honoured in amount and time,
pause. Router: slots counted exactly, nonces executed once, a delay
between commit and reveal; routes that execute as quoted, for the least input
and over the best path, and leave nothing on the router; deposits at the pool's
ratio and withdrawals that burn nobody else's LP. Factory: one answer to which
pairs exist, one to which are frozen, pages that join up, no decision without a
majority, no upgrade without its delay. Oracle: a ring that behaves as a queue,
averages that are means of prices.

## 2. The modules

| Module | What it models | Used by |
|---|---|---|
| `AmmMath` | the arithmetic as operators, each checked step as a `...Fits` predicate | `PoolSwap` |
| `PoolSwap` | what one swap asks of a pool's balances and does to them, as operators | `Pair`, `Routes` |
| `Pair` | one pool with its tokens' balances, its LP ledger and its flash loan | `RouterLiquidity` |
| `RouterLiquidity` | the router's `add_liquidity` and `remove_liquidity`, composed with `Pair` | `MCPair`, `PairProofs` |
| `MCPair` | constants of the pool's instances | `Pool.cfg`, `PairOneTokenBacking.cfg`, `PairSeed.cfg`, `RouterRemoval.cfg` |
| `Routes`, `MCRoutes` | the router's swaps over several pools: exact-input and exact-output routes, the search for the best path, sweeps, and between them the pools' own entry points as others call them; and its instance. In the pools it reaches, the arithmetic is compared with reference definitions | `Routes.cfg` |
| `FeeEngine` | the fee state with a ledger clock and a wall clock | `FeeEngine.cfg`, `FeeNetworkClock.cfg` |
| `LpToken`, `MCLpToken` | the LP token contract, with amounts of either sign; and its instance | `LpToken.cfg` |
| `Factory`, `MCFactory` | registry, signers' quorum, freezes, fees, upgrades; and its instance | `Factory.cfg` |
| `RouterCommit` | the commit-reveal part of the router | `RouterCommits*.cfg` |
| `ObservationQueue` | abstract: what the oracle's ring promises | `Oracle` |
| `Oracle`, `MCOracle` | accumulators, observation ring and `consult_twap`; and its instance | `Oracle.cfg` |
| `LedgerArithmetic` | lemmas on products, quotients, least numbers and the sum of a finite ledger | the `...Proofs` modules |
| `PairProofs` | the theorems about the pool with its router | |
| `RoutesProofs`, `LpTokenProofs`, `RouterCommitProofs`, `FactoryProofs`, `FeeEngineProofs`, `OracleProofs` | the theorems about the module each is named after | |

Definitions keep the code's names. Definitions headed *Mutant* are
plausible mistakes in the definition that follows. They are not part of any
specification: they are substituted for it to confirm that the properties
notice.

### How code becomes an action

* An entry point that returns an error is rolled back by the host, so each
  entry point is one action whose guard is the conjunction of its early
  returns; an error is a step that does not happen. This includes the checked
  arithmetic: `MaxI128` is a constant and the `Fits` predicates are guards.
* `flash_loan` is `flash_loan_open`, any number of `TokenIn`, `LpTransfer` and
  `LpBurn` steps (the callback), and `flash_loan_settle` or
  `flash_loan_abort`. The last restores the snapshot the loan record carries.
  Entering the pair during the callback is refused by its guard and, for the
  entry points without a guard, by the host. Lending two zero amounts writes
  nothing and is a stutter.
* A call of the router is one action, however many contracts it calls: if a hop
  fails the host undoes all of it. `Routes!Execute` folds the hops over a record
  of what they write, with the amounts the code quoted before the first hop;
  `RouterLiquidity` composes the transfers it makes with `MintFrom` and
  `BurnFrom`, the bodies of the pool's own `mint` and `burn`.
* Answers of the factory are a choice made by each swap (`OverrideFees`,
  `ProtocolBps`); 0 stands for every way of not answering.

### What the models abstract

* `Pair`: wallets other than the pool's are not told apart; a unit that leaves
  the pool may come back from anyone. `min_lp_out` and `min_amount_out` are at
  their weakest. `block_timestamp_last` and entry lifetimes (TTL) affect no
  modelled decision. After a swap, the stored dynamic fee is any value between
  baseline and maximum, and the fee a swap charges any value between baseline
  and the stored one: module `FeeEngine` justifies both (`NotPegged`,
  `ChargedWithinQuote`). The LP token's pause flag and the pair's copy, written
  in one call, are one variable, so no property is about the two differing.
  Holders burn LP directly at the token, negative amounts included (`LpBurn`),
  which creates LP without the pool. Negative burns are left out before a pool's
  first mint: the supply is then positive without a seed, the first deposit is
  priced against empty reserves, and the pool's properties (`SeedLocked` first
  of all) are about pools that have had a first mint. `SupplyBound` bounds the
  supply that negative burns may lead to.
* `FeeEngine`: price moves, trade sizes and the reserves they are weighed by
  are given, not derived from a pool.
* `LpToken`: amounts are signed, as in the code. Only `transfer` and
  `transfer_from` look at the sign: a negative `burn` creates LP, a negative
  `burn_from` gives the owner LP and the spender more allowance, a negative
  `mint` by the administrator destroys LP. `permit` is left out: it verifies a
  signature against bytes that are not the owner's key, and the repository's
  tests only exercise its failure. `used` is a history variable.
* `RouterCommit`: SHA-256 is injective; the swap a reveal makes either succeeds
  or undoes the reveal. `placedAt`, `executed` and `refused` are history
  variables for the properties.
* `Factory`: a pair's address is the set of its tokens. Calls that only pass an
  instruction on to a pair are actions of the pair's modules. A new pair asks
  the factory whether its tokens are pairs or LP tokens of the same factory,
  while the factory waits for it: the host refuses such a re-entry and the code
  takes a failed answer as no, so any two tokens are accepted. `approved` and
  `voted` are history variables.
* `Routes`: one factory, whose registry does not change; deadlines and maximum
  inputs, which only refuse calls, are at their weakest, minimum outputs are a
  small set; accounts other than the pools and the router are not told apart.
  The fee charged by the hops of one call and the fee each pool quotes
  afterwards are one choice per call, with the charged fee at most the quoted
  one (`FeeEngine!ChargedWithinQuote`). Between routes others call the pools:
  `sync`, `mint`, `mint_with_one_token`, `burn` and `burn_single_side` do to
  balances and reserves what `Pair`'s actions do, with LP left out (a
  redemption is of some amount out of some redeemable supply). A route is never
  called from within a flash loan's callback here; a loan that has ended is a
  transfer and a `sync`.
* `RouterLiquidity`: the minimums of `remove_liquidity` are chosen at their
  weakest, those of `add_liquidity` from a small set. The pool exists: creating
  one first is `Factory!create_pair`.
* `Oracle`: no entry point of the pair calls `update_cumulative_prices` yet.
  Its caller is modelled as the tests call it, with the ledgers that passed
  since the last call, and may pass reserves of zero, which the code skips.
  `recent` is a history variable: the price of each ledger of the last window.

## 3. The runs

All constants are scaled down: `BPS` is 10, so that a fee of 1 is 10 % and is
felt by trades of two or three units, and so that products stay within TLC's
integers. The seed is 1 LP and the dust floor 2 units: both are met within a
few steps. `TokenSupply`, `Amounts`, `LpAmounts`, `BurnAmounts`, `SupplyBound`,
`LoanAmounts`, `Outs`, `OneTokenAmounts`, `Deposits`, `ProtocolFeeBound`,
`MaxPairs` and `LastLedger` are the bounds; the cap on the LP supply is a real
constant of the code and bounds the rest.

### Passing

* **pool** (`Pool.cfg`, 615 814 states up to the symmetry of the two users).
  Two providers add, deposit one token, stage, send, burn and redeem LP, directly
  and through the router, burn negative amounts at the LP token, trade at two
  fees, with and without a protocol share and with every pair of outputs
  (negative ones too), and take loans of one or both tokens whose callback moves
  tokens and LP, in every order, under freezes and pauses. Shows `SeedLocked`,
  `StagedLpIsOwners`, `PendingTotalIsSum` and `SupplyIsSum` (nobody is paid from
  the seed or from another owner's staged LP, and the cached sums stay sums),
  `ExitNeverDilutes`, `EntryNeverDilutes`, `BackingKept` (no call but a one-token
  deposit makes the reserves exceed the holdings), `KNeverFalls`,
  `KLastCurrent`, `FlashLoanAllOrNothing`, `FrozenPoolOnlyUnwinds`,
  `PausedLpStandsStill` and `OptimalAmountsFair`. Two owners are enough for one
  to be paid from the other; nine and six units of the tokens allow two deposits,
  a trade and a donation between them; `MaxI128` is so low that checked products
  do fail.
* **routes** (`Routes.cfg`, 6 998 states, in each of which every path and fee is
  tried). Four assets on a square of four pools, so that there are two ways
  between opposite corners, paths of one to three hops and paths that come back
  to a pool. In one of the two starting states a pool has recorded more than it
  holds, as a one-token deposit leaves it. One call that trades and one other
  move (a gift to a pool or to the router, a freeze, new hubs, an entry point of
  a pool called by others) in either order, and sweeps.
  `QuotedRouteExecutes` (a route made at its quote passes every K check, over
  pools that hold what they have recorded: the others are quoted from reserves
  they do not hold, and refuse until a `sync`),
  `PathInputLeast` (the exact-output route pays the least input that is enough;
  that the input found can also be quoted forwards is said only where those
  quotes fit 128 bits, as the backward ones are computed in 256),
  `HopMinimumsImplied` (minimums derived backwards never refuse more than the
  final one), `BestPathIsBest`, `NothingStranded`, `SplitSolvesQuadratic`,
  `NewtonIsRoot`. One trade of 4 units suffices for these: each property compares
  one call with the state it starts from, and the starting reserves cover
  balanced and skewed pools. `MaxI128` lets the products of some K checks
  overflow and not others, so that the guard `KChecksFit` matters both ways.
* **oracle** (`Oracle.cfg`, 612 128 states). Three slots, a longest window of
  four ledgers and twelve ledgers, so that the ring fills, wraps and expires in
  every combination, with accumulators of five bits, so that they wrap too.
  `TwapIsMean` (an average answered is the mean of the prices in its window; if a
  ledger since the starting sample had no price, that ledger counts as zero, and
  the average is at most the highest price seen but may be below every one) and
  the refinement `RingIsQueue`.
* **fee_engine** (6 552 states). Twelve ledgers of price moves, idling and
  changed thresholds: `NotPegged`, `ChargedWithinQuote` (a swap is charged
  exactly what the stored state quotes unless the pool was idle, and then no
  less than the baseline and no more than the quote). The clocks agree here
  because only then does the idle decay happen more than once: with a network's
  clocks the fee is the quoted one. The theorems are about every pair of clocks.
  Twelve ledgers cover more decay periods than the cap on them.
* **lp_token** (665 856 states). A holder, a holder who is also a spender (and
  may be its own), two administrators, amounts from -1 to 2 with 3 as the largest
  `i128`, two ledgers to let allowances expire: `Conservation`,
  `AllowanceHonoured`, `DeadlineHonoured`, `PausedTokenStandsStill`.
  `AllowanceHonoured` is about what a spender took on balance: a negative
  `burn_from` gives the owner as much LP as it adds to the allowance.
* **factory** (`Factory.cfg`, 223 083 states up to the symmetry of the tokens).
  Up to three pairs of three tokens, so that a page may be read before a creation
  and the following one, not empty, after it; signers' lists of two, of three and
  of two with one listed twice; presented lists of none, one and two of them
  (strangers and repetitions included), two candidates for the setter, upgrades
  after one of two ledgers:
  `RegistryAgrees` (five records of which pairs exist), `FreezeRelayed` (pair
  and factory agree on what is frozen; that a pair which refuses undoes the
  factory's part is the host's rollback, which the model takes as given),
  `PagesJoin` (a page read before a creation and the next one read after it
  neither skip nor repeat a pair), `QuorumsMeet` (disjoint
  groups never both decide), `UpgradeWaited` (one decision, one delay, one
  upgrade). A quorum of two or three is two, so lists of two reach it and lists
  of one do not.
* **router_commits** (276 360 states). Two senders, one or two slots, expiry
  after one or two ledgers, reconfiguration at any time: `CountIsOccupied`,
  `NonceExecutedOnce`, `DelayBeforeReveal`.

Deadlock is not checked: every call may be refused in some state of a bounded
instance, and a contract that nobody calls has not failed.

### Violations: where the code and its words disagree

* **pair_one_token_backing**, `ReservesBacked`: `mint_with_one_token` adds its
  deposit to reserves that its inner swap already set to the full balances.
  Until the next `sync` the pool records more than it holds, against
  SECURITY.md's "must exactly match the actual token contract balances".
* **pair_seed**, `SeedKeepsReserves`: redemption divides by the supply without
  the seed, so the last provider takes both reserves entirely. SECURITY.md says
  that the divisor ensures that the seed's reserves remain locked. A pool in
  that state has LP and no reserves, and `mint` fails until tokens are sent and
  `sync`ed.
* **fee_network_clock**, `IdleFeeDecays`: `update_volatility` stores a
  timestamp and `decay_stale_ema` compares it with a ledger sequence. With a
  network's clocks no idle period is recognised after the first swap.
* **router_expired_reveal**, `ExpiredRevealFreesSlot`: the slot freed by a
  reveal of an expired commit is restored when the call returns its error.
* **router_removal**, `RemovalBurnsExactly`: `remove_liquidity` says that the
  pair burns exactly the amount given for its recipient, and the pair burns all
  that the recipient has staged, what it staged before included. That no one
  else's LP is touched is `StagedLpIsOwners`, which holds.

Also met while modelling, without a run: `swap` does not look at the LP pause,
although a comment in `pair/src/lib.rs` and ARCHITECTURE.md list it; the flash
fee uses the baseline, not the dynamic fee; an expired commit cannot be
overwritten at capacity although `commit_swap` says that it reuses its slot;
the K check multiplies K by 10^8 and so overflows for reserves that `mint`
still accepts; `mint` prices LP on the whole supply and `burn` on the supply
without the seed, so a join lowers what earlier LP redeems by the seed's part;
LP staged in an amount whose redemption is below the dust floor can be neither
burned nor taken back; a factory initialised with the same signer twice has a
quorum that cannot be met; `LpToken::burn` and `burn_from` accept negative
amounts, so LP is not created by `mint` alone, and LP so created takes from
those already in; SECURITY.md (line 147) says that after the first mint the pair
holds exactly `MINIMUM_LIQUIDITY` LP, and it holds staged LP and LP sent to it as
well, which is why `SeedLocked` says at least; the comment of the pair's
`set_lp_token_paused` (lines 1342-1344) says that LP transfers are unaffected,
and the LP token's `transfer` refuses while paused, as `PausedLpStandsStill` and
`LpToken::pause` have it; the pair's `get_effective_fee_bps` (lines 944-948) says
that it returns the fee that will actually be charged, and after an idle period
the next swap is charged less, which is the second case of `ChargedWithinQuote`;
`add_liquidity` compares the caller's minimum only with the side that was
lowered; the router says (lines 293-295) that its per-hop minimums stop routes
whose middle hop slips while the final hop still meets the minimum, and
`HopMinimumsImplied` shows that they never refuse a route that the final minimum
accepts, both being derived from the same reserves in the same call;
ARCHITECTURE.md says that the LP pause blocks `approve` and
`permit`, and it blocks neither; SECURITY.md section 8 says that the oracle's
accumulators use checked arithmetic and are fed by every swap, mint and burn:
they wrap, and nothing feeds them; `prune_expired` says that an older sample
could never be the start of an average, but interpolation would have used it,
so a quiet pool's average is refused after a gap; `consult_twap` answers only
in the ledger of an update; a price is the integer quotient of the reserves;
the comment on `quote_input_amount` gives its formula with "+ 1", and the code
adds one only to a remainder; an exact input is quoted in 128 bits and an exact
output in 256, so near the limit a route may be quoted in one direction only;
docs/INDEXER.md says that the setter may unfreeze and that a frozen pair
refuses `burn`, and the code does neither; no pair calls
`deposit_protocol_fee`, so the factory's record of protocol fees stays at 0.

### The refinement

`Oracle!RingIsQueue` states that the ring implements `ObservationQueue`, under
the mapping that reads the live slots from the head on. The abstract queue has
one action that records: forget the leading observations that are older than the
longest window, of which none may be left, append, keep the last so many. The
ring does it with a head, a count, slots appended one by one and a pruning that
moves the head before the slots are full.

### Fairness

No specification states fairness. Nothing in the system is scheduled: no user has
to call anything, and a call, a flash loan with its callback included, is over
when the host says so. That a loan ends is the host's metering and rollback, and
no property of the contracts.

## 4. The proofs

Every theorem holds for every value of the constants that satisfies the named
assumptions, which TLC evaluates on the runs: constants are natural numbers,
fees are below `BPS`, protocol shares at most `BPS`, users are finitely many
and the pool is not one of them, and so on; all follow from checks in the
contracts' `initialize` functions and setters, or from types.

`LedgerArithmetic` holds the facts that several components need. Some of them
replace an induction, which the provers cannot apply as a rule: `LeastNat`, that
a set of numbers that is not empty has a least member, from which a statement
about all numbers follows by looking at its smallest counterexample (`UpTo`
packs that argument for the numbers up to a bound); `LoopDefined`, that a loop
over a list of steps has a function of its intermediate values; and the
certified sum `IsSum`, a running total along some enumeration of a finite set.
Its lemmas say what one or two changed entries do to a sum, and
`SumIsSumFunction` that a certified sum is the library's `SumFunction`, with
which the properties are stated. The rest are the products and quotients of
rounding arguments.

### The pool and its router

`PairProofs` is about `RouterSpec`, the pool called
directly and through the router. `PoolAlone`, `Spec => RouterSpec`, carries each
theorem over to the pool on its own.

| Theorem | Statement |
|---|---|
| `Invariance` | `RouterSpec => []IInv` |
| `TypeCorrect` | `RouterSpec => []TypeOK` |
| `SeedAlwaysLocked` | `RouterSpec => []SeedLocked` |
| `SupplyAlwaysSum`, `PendingTotalAlwaysSum` | `RouterSpec => []SupplyIsSum`, `... []PendingTotalIsSum` |
| `KLastAlwaysCurrent` | `RouterSpec => []KLastCurrent` |
| `BackingAlwaysKept` | `RouterSpec => BackingKept` |
| `KOnlyFallsByRedeeming` | `RouterSpec => KNeverFalls` |
| `StagedLpAlwaysOwners` | `RouterSpec => StagedLpIsOwners` |
| `PausedLpAlwaysStands`, `FrozenPoolAlwaysUnwinds` | `RouterSpec => PausedLpStandsStill`, `... FrozenPoolOnlyUnwinds` |
| `FlashLoanAlwaysAllOrNothing` | `RouterSpec => FlashLoanAllOrNothing` |
| `OptimalAmountsAlwaysFair` | `RouterSpec => []OptimalAmountsFair` |
| `ExitsNeverDilute`, `EntriesNeverDilute` | `RouterSpec => ExitNeverDilutes`, `... EntryNeverDilutes` |

`BackingKept` excepts the step `mint_with_one_token`, and `KNeverFalls` the steps
of a pool whose reserves exceed its holdings. Both exceptions are needed: the
violating run *pair_one_token_backing* shows reserves above the holdings after
such a call, and a later `sync` then lowers the product.

**The invariant.** `SeedLocked` is not inductive. That a redemption leaves the
others' staged LP alone needs the cached total to be the sum of the entries;
that a payout does not exceed a reserve needs the redeemed LP to be at most the
supply without the seed, hence the supply to be the sum of the balances; a
rolled-back loan restores a ledger for which all of this must hold too. So
`IInv` is `TypeOK`, `LedgerOK` for the current ledger, `StagedOK`, and `LoanOK`,
which is `LedgerOK` for the snapshot of an open loan. `BackingKept` is shown
from `IInv` together with `ReservesBacked` in the state before the step, which
speaks of the snapshot while a loan is open. For the pause, `PausedInv` adds
that LP is still as the snapshot has it when the token is paused during a loan,
as otherwise the rollback would move it.

**The router's calls** are the bodies of `mint` and `burn` on balances and on a
ledger that the same call has just changed. `AddIsMint` and `RemoveIsBurn` say
so, and `Redeemable` states what a burn needs of the ledger it finds, which the
pool's own burn and the router's both establish.

**The arguments.** `KNeverFalls` rests on `SwapKeepsK`: the K check passes on
balances from which the fee was deducted and the protocol's cut is at most that
fee. `ExitNeverDilutes` rests on a payout rounded down being at most its share
of each reserve, and on the K check of `burn_single_side`, which is made against
what redeeming both sides would leave. `EntryNeverDilutes` rests on LP credited
by the lower of two quotients. It speaks of the calls that record reserves, after
any negative burns: the negative burn itself creates LP, records nothing, and
does dilute. And it speaks of the recorded reserves: that a
one-token deposit records more than the pool holds, as *pair_one_token_backing*
shows, is felt only by the next `sync`.

### The LP token

`LpTokenProofs` proves, for every finite set of holders and all amounts of either
sign:

| Theorem | Statement |
|---|---|
| `LpInvariance` | `Spec => []LpInv` |
| `AlwaysConserved` | `Spec => []Conservation` |
| `AllowanceAlwaysHonoured` | `Spec => []AllowanceHonoured` |
| `DeadlineAlwaysHonoured` | `Spec => DeadlineHonoured` |
| `PausedAlwaysStandsStill` | `Spec => PausedTokenStandsStill` |

`LpInv` has three parts. `LpTypeOK` says that balances and supply are integers (a
negative mint by the administrator may leave a balance below zero), `LedgerOK`
that the supply is the certified sum of the balances. `TermsOK` adds to
`AllowanceHonoured` that an entry something was taken from is not below zero,
and that a stored entry still has the deadline its approval gave it, which
`DeadlineHonoured` needs after a partial spend. A transfer to oneself is a case
of its own (`TransferOK`).

### Commit and reveal

`RouterCommitProofs` proves, for every set of senders, swaps and nonces and for
every bound and expiry:

| Theorem | Statement |
|---|---|
| `CommitInvariance` | `Spec => []CommitInv` |
| `CountAlwaysOccupied` | `Spec => []CountIsOccupied` |
| `NonceAlwaysOnce` | `Spec => []NonceExecutedOnce` |
| `DelayAlwaysKept` | `Spec => DelayBeforeReveal` |

`CommitInv` adds to the counter that the set of stored commits is finite (so
that its cardinality is a number although the senders need not be finitely
many), and to the history that a stored hash was put there no later than its
entry says.

### The factory

`FactoryProofs` proves, for every set of tokens, list of signers and delay:

| Theorem | Statement |
|---|---|
| `FactoryInvariance` | `Spec => []FactoryInv` |
| `RegistryAlwaysAgrees`, `FreezeAlwaysRelayed` | `Spec => []RegistryAgrees`, `... []FreezeRelayed` |
| `QuorumsAlwaysMeet` | `Spec => QuorumsMeet` |
| `UpgradeAlwaysWaits` | `Spec => UpgradeWaited` |
| `PagesAlwaysJoin` | `Spec => PagesJoin` |

The invariant adds to the two record properties that the last approval was by
more than half of the entries of the signers' list (`QuorumOK`) and that a
pending upgrade is one that was voted for in the ledger it is dated with
(`PendingOK`). Two quorums meet because a list has at most as many members as
entries and two sets that are each more than half of it overlap; a repeated
entry makes the quorum harder to reach, never easier. `PagesJoin` is an argument
about `SubSeq` of a list and of the list with one pair appended.

### The fee engine

`FeeEngineProofs` proves, for every fee configuration, price move and threshold:

| Theorem | Statement |
|---|---|
| `FeeInvariance` | `Spec => []FeeInv` |
| `NeverPegged` | `Spec => []NotPegged` |
| `AlwaysWithinQuote` | `Spec => ChargedWithinQuote` |

`NotPegged` is inductive with the types once the decay is known to lower the
accumulator, for any number of periods: `Decayed` is a recursive function, and
what its value is for every number of periods is shown by smallest
counterexample. Both theorems hold for every pair of clocks. `IdleFeeDecays` has
no theorem: it is false with the clocks of a network (*fee_network_clock*).

### The routes

`RoutesProofs` proves, for every set of assets and pools, all reserves, fees and
amounts, and every list of hubs:

| Theorem | Statement |
|---|---|
| `RoutesInvariance` | `Spec => []RoutesInv` |
| `QuotedRoutes` | `Spec => []QuotedRouteExecutes` |
| `ExactOutputIsLeast` | `Spec => []PathInputLeast` |
| `HopMinimumsNeverRefuse` | `Spec => []HopMinimumsImplied` |
| `BestPathFound` | `Spec => []BestPathIsBest` |
| `NothingLeftOnRouter` | `Spec => NothingStranded` |
| `SplitIsExact` | `Spec => []SplitSolvesQuadratic` |
| `NewtonFindsRoot` | `Spec => []NewtonIsRoot` |

`RoutesInv` is typing, kept by every route and by every entry point of the pools.
That a pool holds what it has recorded is not part of it, as a one-token deposit
ends it: it is the hypothesis `Backed` of `QuotedRouteExecutes`, since a pool pays
a hop from its holdings and the quote was made from its reserves.

**One hop.** `Covers` is what the K check asks of an input and an output on the
recorded reserves. `OutputCovered` says that an exact-input quote is the largest
output its input covers, `InputCovers` that an exact-output quote is the least
input that covers its output: the two round against each other without a gap.
`SwapPasses` turns a covered output into all the guards of `swap_inner` at the
quoted fee or a lower one, whatever else the pool was sent, its overflow checks
and dust floor included.

**A path.** The walks along a path, forwards and backwards, are loops, and each
is shown to be the function of its intermediate amounts. `QuotedRouteExecutes`
then goes by induction over the hops: before hop i the router holds amount i - 1,
and the pools further on are still as they were quoted (`OnTheWay`), which is
where `Simple`, that no pool is visited twice, is needed. `PathInputLeast` and
`HopMinimumsImplied` go by induction in the two directions, using that a quote
grows with its input.

**The search.** `BestPathIsBest` follows the loops over the hubs with what has
been compared so far as their invariant; a hub that is one of the two ends, or
that is listed twice, is skipped or compared again without harm.

**The root.** `newton_sqrt` decreases while it is above the root and stops only
there, so a smallest counterexample would call the loop on a smaller value
(`NewtonEndsAtRoot`). `SplitIsRoot` uses the root's two inequalities to bound
the quadratic on both sides, through two divisions that round.

### The oracle

`OracleProofs` proves, for every capacity, window, range and sequence of
reserves:

| Theorem | Statement |
|---|---|
| `RingAlwaysQueue` | `Spec => RingIsQueue` |
| `TwapInvariance` | `Spec => []TwapInv` |
| `TwapAlwaysMean` | `PricesFit` implies `Spec => []TwapIsMean` |

**The ring.** Initial states map to an empty queue, an update with two reserves
to `Record`, and everything else to `CloseLedger` or a stutter. The invariant
`OracleInv` says that head and count are within the slots, that every slot
between them has been written (`RingOK`), and that the samples' ledgers ascend
to the present (`Ordered`). The last part is what makes pruning stop at the
right place: the loop ends at the first sample that is still fresh, and the
queue forgets the expired ones wherever they are.

**The average.** `TwapInv` ties the ring to the history of prices. Between two
neighbouring samples the price was unknown up to some ledger and one value p
from then on, and the second sample's accumulators are the first's plus p for
each of those ledgers, modulo the range (`Spaced`, with the congruence `Cong`);
the newest sample has the accumulators' present value, and no price is known
since (`Silent`); all samples are within one longest window of the newest. From
this, two samples differ by the sum of the prices between them (`LinkedAll`, by
induction over the ring). `consult_twap` finds the sample at the start of its
window or the two around it (`StartFound`). In the second case it interpolates:
one price held between the two, so the interpolated value is exact if the price
was known throughout, and otherwise spreads it over the ledgers without one. Such
ledgers add nothing to the sum and are counted in the window, so the average is
only between zero and the highest price seen, and may be below every price seen
(`AverageAt`, `AverageBetween`).

`PricesFit` says that a price held for the longest window stays below half the
accumulators' range: price × 86 400 below 2^127. It is needed, because a
difference of wrapped accumulators is known only modulo 2^128, and it is a
condition on the prices that the pool meets, not one that the code enforces. The
run's instance satisfies it (the highest price, 3, for 4 ledgers, against 16)
while its accumulators wrap.

### Only model-checked

Every property of a passing run is stated by a theorem: `TwapIsMean` under the
hypothesis named above, the others without any beyond the assumptions on the
constants. Only model-checked are the properties of the violating runs, which are
refuted, and not proved.

## 5. Not modelled

`permit` of the LP token; negative burns before a pool's first mint; events,
error codes and metadata, which no contract reads; entry lifetimes; the helper
files that no module declares and that are therefore not compiled
(`snapshot_view.rs`, `bounded_pairs.rs`, `path_guard.rs`, `ttl_maintenance.rs`);
and the flash receivers kept for tests.

## 6. State of the plan

The plan was carried out in this order: the pool and its arithmetic, the fee
engine with both clocks, the LP token, commit-reveal, the factory, the router's
routes and liquidity calls, the oracle; then the proofs of every safety property
in the same order. What could be added when the code grows:

1. the caller of `update_cumulative_prices`, when the pair has one: `Oracle`
   composed with `Pair`, so that prices come from the pool's reserves;
2. `permit`, when it verifies a signature against the owner's key;
3. the factory's record of protocol fees, when pairs deposit them.

## 7. Running

    tlc -workers 2 -config Pool.cfg MCPair     # and so on, see PROJECT.json
    tlapm PairProofs.tla            # and each other ...Proofs module, LedgerArithmetic
