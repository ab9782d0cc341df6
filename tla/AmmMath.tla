------------------------------- MODULE AmmMath -------------------------------
(***************************************************************************)
(* The integer arithmetic of a CoralSwap pool: quotes (contracts/shared),   *)
(* liquidity and redemption amounts and the single-sided split              *)
(* (pair/src/math), and the flash-loan fee (pair/src/flash_loan.rs).        *)
(*                                                                          *)
(* Rust's checked arithmetic returns an error instead of a value.  Each     *)
(* operator here is the value, and a predicate named XFits beside it says   *)
(* when every checked step of the code stays inside i128; callers put that  *)
(* predicate in their guard, which is what the code's early return does.    *)
(***************************************************************************)
EXTENDS Integers

CONSTANTS
    BPS,              \* BPS_DENOMINATOR, 10_000
    MaxI128,          \* i128::MAX, the limit of checked arithmetic
    MinLiquidity,     \* MINIMUM_LIQUIDITY, the LP seed locked by the first mint
    MinReserve,       \* MINIMUM_RESERVE, the dust floor
    MinUserLp,        \* MIN_LIQUIDITY_FOR_USER
    FlashFloorBps     \* FLASH_FEE_FLOOR_BPS

ASSUME MathAssumption ==
    /\ BPS \in Nat \ {0}
    /\ MaxI128 \in Nat
    /\ MinLiquidity \in Nat \ {0}
    /\ MinReserve \in Nat \ {0}
    /\ MinUserLp \in Nat
    /\ FlashFloorBps \in 0..BPS

Fits(x) == x <= MaxI128

AtLeastZero(x) == IF x > 0 THEN x ELSE 0

Least(x, y) == IF x <= y THEN x ELSE y

(***************************************************************************)
(* Quotes, shared by the pair and the router.                               *)
(***************************************************************************)

fee_factor(fee_bps) == BPS - fee_bps

QuoteOutFits(amount_in, reserve_in, reserve_out, fee_bps) ==
    /\ fee_bps < BPS
    /\ Fits(amount_in * fee_factor(fee_bps) * reserve_out)
    /\ Fits(reserve_in * BPS + amount_in * fee_factor(fee_bps))

\* Mutant: the quotient is rounded up.
QuoteOutputRoundedUp(amount_in, reserve_in, reserve_out, fee_bps) ==
    LET denominator == reserve_in * BPS + amount_in * fee_factor(fee_bps)
    IN  (amount_in * fee_factor(fee_bps) * reserve_out + denominator - 1) \div denominator

\* What amount_in buys, rounded down; 0 is the code's Dust error.
quote_output_amount(amount_in, reserve_in, reserve_out, fee_bps) ==
    (amount_in * fee_factor(fee_bps) * reserve_out)
        \div (reserve_in * BPS + amount_in * fee_factor(fee_bps))

\* Mutant: one unit is added whether or not the division is exact.
QuoteInputPlusOne(amount_out, reserve_in, reserve_out, fee_bps) ==
    (reserve_in * amount_out * BPS)
        \div ((reserve_out - amount_out) * fee_factor(fee_bps)) + 1

\* What must be paid to receive amount_out < reserve_out, rounded up.
quote_input_amount(amount_out, reserve_in, reserve_out, fee_bps) ==
    LET numerator   == reserve_in * amount_out * BPS
        denominator == (reserve_out - amount_out) * fee_factor(fee_bps)
    IN  numerator \div denominator
          + IF numerator % denominator # 0 THEN 1 ELSE 0

(***************************************************************************)
(* Liquidity.                                                               *)
(***************************************************************************)

\* The root the Newton iteration of the code converges to.
sqrt(value) == CHOOSE r \in 0..value : r * r <= value /\ value < (r + 1) * (r + 1)

initial_liquidity(amount_a, amount_b) == sqrt(amount_a * amount_b) - MinLiquidity

SubsequentLiquidityFits(amount_a, amount_b, reserve_a, reserve_b, total_supply) ==
    /\ Fits(amount_a * total_supply) /\ reserve_a # 0
    /\ Fits(amount_b * total_supply) /\ reserve_b # 0

\* Mutant: the deposit is credited by its more generous side.
LiquidityOfLargerSide(amount_a, amount_b, reserve_a, reserve_b, total_supply) ==
    LET a == (amount_a * total_supply) \div reserve_a
        b == (amount_b * total_supply) \div reserve_b
    IN  a + b - Least(a, b)

subsequent_liquidity(amount_a, amount_b, reserve_a, reserve_b, total_supply) ==
    Least((amount_a * total_supply) \div reserve_a,
          (amount_b * total_supply) \div reserve_b)

\* Mutant: the redemption is rounded up.
BurnAmountRoundedUp(lp_amount, reserve, burnable_supply) ==
    (lp_amount * reserve + burnable_supply - 1) \div burnable_supply

\* One side of burn_amounts: the share of a reserve that lp_amount redeems.
burn_amount(lp_amount, reserve, burnable_supply) ==
    (lp_amount * reserve) \div burnable_supply

\* Mutant: f is used where BPS + f belongs.
SplitWithoutBps(reserve_in, amount, fee_bps) ==
    LET f == fee_factor(fee_bps)
    IN  (sqrt(reserve_in * (reserve_in * f * f + 4 * f * amount * BPS)) - reserve_in * f)
            \div (2 * f)

\* The part of a one-token deposit to swap first: the positive root of
\* f x^2 + r (B + f) x - B r s, computed in 256 bits.
compute_swap_in_for_single_side(reserve_in, amount, fee_bps) ==
    LET f == fee_factor(fee_bps)
        b == BPS + f
    IN  (sqrt(reserve_in * (reserve_in * b * b + 4 * f * amount * BPS)) - reserve_in * b)
            \div (2 * f)

(***************************************************************************)
(* Flash loans: no fee at zero bps, else at least the floor rate and 1.     *)
(***************************************************************************)

FlashFeeFits(amount, fee_bps) ==
    fee_bps = 0 \/ Fits(amount * (IF fee_bps > FlashFloorBps THEN fee_bps ELSE FlashFloorBps))

compute_flash_fee(amount, fee_bps) ==
    LET rate == IF fee_bps > FlashFloorBps THEN fee_bps ELSE FlashFloorBps
        fee  == (amount * rate) \div BPS
    IN  IF fee_bps = 0 THEN 0 ELSE IF fee > 1 THEN fee ELSE 1

=============================================================================
