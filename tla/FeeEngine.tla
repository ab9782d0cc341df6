----------------------------- MODULE FeeEngine -----------------------------
(***************************************************************************)
(* The dynamic fee of a pair (pair/src/dynamic_fee.rs, fee_decay.rs): a     *)
(* volatility accumulator that swaps feed, a cap that keeps it recoverable, *)
(* and a decay for pools that have been idle.                               *)
(*                                                                          *)
(* The decay compares a ledger sequence number with last_fee_update, into   *)
(* which update_volatility stores a timestamp.  Both clocks are therefore   *)
(* in the model: the network closes ledger n at Genesis + n * CloseTime.    *)
(* With Genesis = 0 and CloseTime = 1 they agree, as in a unit test that    *)
(* advances both together; on a network they do not.                        *)
(***************************************************************************)
EXTENDS Integers

CONSTANTS
    Scale,            \* SCALE, 1e14
    BPS,              \* 10_000
    MaxI128,          \* i128::MAX
    EmaAlpha,         \* ema_alpha
    BaselineFee,      \* baseline_fee_bps
    MinFee,           \* min_fee_bps
    MaxFee,           \* max_fee_bps
    RampUp,           \* ramp_up_multiplier
    CooldownDivisor,  \* cooldown_divisor
    DecayBlocks,      \* decay_threshold_blocks
    MaxDecayPeriods,  \* MAX_DECAY_PERIODS
    DefaultStale,     \* DEFAULT_STALE_LEDGER_THRESHOLD
    Genesis,          \* timestamp of ledger 0
    CloseTime,        \* seconds between ledgers
    PriceDeltas,      \* model bound: price moves a swap causes
    TradeSizes,       \* model bound: trade_size of a swap
    TotalReserve,     \* model bound: total_reserve, one value
    StaleThresholds,  \* model bound: thresholds governance asks for
    MaxStale,         \* the largest threshold set_stale_threshold accepts
    LastLedger        \* model bound on the ledger sequence

ASSUME FeeAssumption ==
    /\ {Scale, BPS, TotalReserve, DecayBlocks, CloseTime} \subseteq Nat \ {0}
    /\ {MaxI128, BaselineFee, MinFee, MaxFee, RampUp, CooldownDivisor,
        MaxDecayPeriods, DefaultStale, Genesis, MaxStale, LastLedger} \subseteq Nat
    /\ BPS <= Scale /\ MinFee <= BaselineFee /\ BaselineFee <= MaxFee
    /\ EmaAlpha \in 0..Scale
    /\ PriceDeltas \subseteq Nat /\ TradeSizes \subseteq Nat /\ StaleThresholds \subseteq Nat

VARIABLES
    vol,              \* vol_accumulator
    lastUpdate,       \* last_fee_update
    stale,            \* stale_threshold
    ledger,           \* the ledger sequence
    charged,          \* the dynamic fee the last swap computed (history)
    touchedAt         \* the ledger in which the accumulator was last updated or
                      \* decayed (history, for the properties)

vars == <<vol, lastUpdate, stale, ledger, charged, touchedAt>>

timestamp == Genesis + ledger * CloseTime

\* What initialize stores; the pair is deployed in ledger 0 of the model.
Init ==
    /\ vol = 0 /\ lastUpdate = 0 /\ stale = DefaultStale
    /\ ledger = 0 /\ charged = BaselineFee /\ touchedAt = 0

-----------------------------------------------------------------------------

ScaleToBps == Scale \div BPS

Clamp(x, lo, hi) == IF x < lo THEN lo ELSE IF x > hi THEN hi ELSE x

VolBps(v) == (v * RampUp) \div ScaleToBps

\* Mutant: the volatility component replaces the baseline instead of adding to it.
FeeWithoutBaseline(v) ==
    Clamp(IF v = 0 THEN BaselineFee ELSE VolBps(v), MinFee, MaxFee)

compute_fee_bps(v) == Clamp(BaselineFee + VolBps(v), MinFee, MaxFee)

\* The accumulator that already yields max_fee_bps: nothing above it is stored.
max_vol == ((MaxFee - BaselineFee) * ScaleToBps) \div RampUp

\* Mutant: no cap on the accumulator.
Uncapped(v) == v

Capped(v) == IF RampUp > 0 /\ v > max_vol THEN max_vol ELSE v

DecayPeriods(elapsed) ==
    LET n == elapsed \div DecayBlocks
    IN  IF n < MaxDecayPeriods THEN n ELSE MaxDecayPeriods

Divisor == IF CooldownDivisor > 2 THEN CooldownDivisor ELSE 2

\* v after `periods` divisions; a value that has reached 0 stays there.
Decayed(v, periods) ==
    LET left[n \in 0..periods] == IF n = 0 THEN v ELSE left[n - 1] \div Divisor
    IN  left[periods]

\* The pool has been idle beyond its threshold.
Stale == ledger > lastUpdate + stale

\* decay_stale_ema with the apply_time_decay it calls: the fee state a swap
\* continues with.
decay_stale_ema ==
    LET elapsed == ledger - lastUpdate
        periods == DecayPeriods(elapsed)
    IN  IF Stale /\ vol > 0 /\ periods > 0
        THEN [vol |-> Decayed(vol, periods), lastUpdate |-> ledger]
        ELSE [vol |-> vol, lastUpdate |-> lastUpdate]

weight(size) == (size * Scale) \div TotalReserve

observation(delta, size) == (delta * weight(size)) \div Scale

ema(v, delta, size) ==
    (EmaAlpha * observation(delta, size) + (Scale - EmaAlpha) * v) \div Scale

UpdateFits(v, delta, size) ==
    /\ size > 0
    /\ size * Scale <= MaxI128
    /\ delta * weight(size) <= MaxI128
    /\ EmaAlpha * observation(delta, size) + (Scale - EmaAlpha) * v <= MaxI128

\* swap_inner's use of the engine: decay, charge, and feed the price move; an
\* update that fails is ignored and leaves what the decay left.
swap(delta, size) ==
    LET decayed == decay_stale_ema
    IN  /\ charged' = compute_fee_bps(decayed.vol)
        /\ IF UpdateFits(decayed.vol, delta, size)
           THEN /\ vol' = Capped(ema(decayed.vol, delta, size))
                /\ lastUpdate' = timestamp
                /\ touchedAt' = ledger
           ELSE /\ vol' = decayed.vol
                /\ lastUpdate' = decayed.lastUpdate
                /\ touchedAt' = IF decayed.vol # vol THEN ledger ELSE touchedAt
        /\ UNCHANGED <<stale, ledger>>

set_stale_threshold(n) ==
    /\ n # 0 /\ n <= MaxStale
    /\ stale' = n
    /\ UNCHANGED <<vol, lastUpdate, ledger, charged, touchedAt>>

CloseLedger ==
    /\ ledger < LastLedger
    /\ ledger' = ledger + 1
    /\ UNCHANGED <<vol, lastUpdate, stale, charged, touchedAt>>

Next ==
    \/ \E delta \in PriceDeltas, size \in TradeSizes : swap(delta, size)
    \/ \E n \in StaleThresholds : set_stale_threshold(n)
    \/ CloseLedger

Spec == Init /\ [][Next]_vars

-----------------------------------------------------------------------------
(***************************************************************************)
(* Properties.                                                              *)
(***************************************************************************)

\* No sequence of price moves pushes the accumulator past the value that already
\* yields the maximum fee, so the first decay of an idle pool lowers the fee
\* instead of working off an excess ("can recover normally via time decay
\* instead of being pegged at maximum", update_volatility).
NotPegged == RampUp > 0 => BaselineFee + VolBps(vol) <= MaxFee

\* Every swap charges at most what get_current_fee_bps quoted in the state it started
\* from, at least the baseline, and less than the quote only if the pool was idle beyond
\* its threshold: the decay a quote does not apply can only work in the trader's favour.
\* get_effective_fee_bps has the quote as "the fee that will actually be charged on the
\* next swap", which after a decay it is not.
ChargedWithinQuote ==
    [][\A delta \in PriceDeltas, size \in TradeSizes :
          swap(delta, size) =>
              /\ charged' \in BaselineFee..compute_fee_bps(vol)
              /\ charged' # compute_fee_bps(vol) => Stale]_vars

\* "Called before every swap to prevent idle pools from charging inflated fees"
\* (apply_time_decay): when the accumulator has not been touched for more than the
\* threshold of ledgers, the next swap is charged on an accumulator divided once for every
\* decay period that passed.
IdleFeeDecays ==
    [][\A delta \in PriceDeltas, size \in TradeSizes :
          swap(delta, size) /\ ledger > touchedAt + stale =>
              charged' <= compute_fee_bps(Decayed(vol, DecayPeriods(ledger - touchedAt)))]_vars

=============================================================================
