-------------------------------- MODULE Pair --------------------------------
(***************************************************************************)
(* One CoralSwap pool (contracts/pair) with the two tokens it holds, its LP *)
(* token and its flash-loan callback.                                       *)
(*                                                                          *)
(* A Soroban entry point either commits all of its writes or, on an error,  *)
(* none: every entry point is one action whose guard is the conjunction of  *)
(* the code's early returns.  The exception is flash_loan, which hands      *)
(* control to a receiver in the middle: it is an action that opens the      *)
(* loan, whatever the receiver does, and an action that settles the loan or *)
(* rolls everything back to its start.                                      *)
(*                                                                          *)
(* Wallets other than the pool's are not told apart: the TokenSupply[t]     *)
(* units of token t are in the pool (pool[t]) or outside it, and outside    *)
(* units may be sent to the pool at any time.                               *)
(***************************************************************************)
EXTENDS PoolSwap, FiniteSets, Functions

CONSTANTS
    User,             \* accounts that hold LP
    PairAddr,         \* the pool's own address
    TokenSupply,      \* units of each pool token in existence
    BaselineFee,      \* baseline_fee_bps
    MaxFee,           \* max_fee_bps
    OverrideFees,     \* the per-pair overrides the factory may answer with
    ProtocolBps,      \* protocol shares the factory may answer; 0 stands for
                      \* no fee_to, a zero share or a failed factory call
    MaxMintPerCall,   \* MAX_MINT_PER_CALL of the LP token
    MaxTotalSupply,   \* MAX_TOTAL_SUPPLY of the LP token
    ProtocolFeeBound, \* model bound on the cumulative protocol fee per token
    Amounts,          \* model bound: token amounts a caller sends
    LoanAmounts,      \* model bound: token amounts a flash loan borrows
    LpAmounts,        \* model bound: LP amounts moved, staged or redeemed by a call
    BurnAmounts,      \* model bound: amounts a holder burns at the LP token, negative
                      \* ones included, which LpToken::burn does not refuse
    SupplyBound,      \* model bound on the supply that a negative burn may lead to
    Outs,             \* model bound: outputs a swap asks for, negative included
    OneTokenAmounts   \* model bound: amounts given to mint_with_one_token

Account == User \cup {PairAddr}

ASSUME PairAssumption ==
    /\ IsFiniteSet(User) /\ PairAddr \notin User
    /\ TokenSupply \in [Token -> Nat]
    /\ BaselineFee \in Nat /\ MaxFee \in Nat
    /\ BaselineFee <= MaxFee /\ MaxFee < BPS
    /\ OverrideFees \subseteq 1..(BPS - 1)
    /\ ProtocolBps \subseteq 0..BPS
    /\ MaxMintPerCall \in Nat /\ MaxTotalSupply \in Nat
    /\ ProtocolFeeBound \in Nat
    /\ Amounts \subseteq Nat /\ LoanAmounts \subseteq Nat /\ LpAmounts \subseteq Nat
    /\ OneTokenAmounts \subseteq Nat
    /\ Outs \subseteq Int /\ BurnAmounts \subseteq Int /\ SupplyBound \in Nat

VARIABLES
    pool,             \* token balances of the pool's address
    res,              \* reserve_a, reserve_b of PairStorage
    k_last,           \* k_last of PairStorage
    lp,               \* LP balances
    supply,           \* LP total_supply
    pending,          \* PendingLp: LP staged by deposit_lp, per owner
    pendingTotal,     \* PendingLpTotal
    dynFee,           \* compute_fee_bps of the stored FeeState
    protocolFee,      \* ProtocolFeeA, ProtocolFeeB
    locked,           \* the reentrancy guard
    frozen,           \* the pair's copy of the factory's freeze flag
    lpPaused,         \* the LP token's pause flag; the pair's cached copy of it
                      \* is written in the same call, so it is one variable
    loan              \* the flash loan in progress and the state to roll back to

lpVars == <<lp, supply, pending, pendingTotal>>
feeVars == <<dynFee, protocolFee>>
adminVars == <<frozen, lpPaused>>
guardVars == <<locked, loan>>
vars == <<pool, res, k_last, lpVars, feeVars, adminVars, guardVars>>

NoLoan == [open |-> FALSE, amount |-> Zero, fee |-> Zero, pool |-> Zero,
           lp |-> [a \in Account |-> 0], supply |-> 0]

\* The state create_pair leaves: deployed, initialized, empty.
Init ==
    /\ pool = Zero /\ res = Zero /\ k_last = 0
    /\ lp = [a \in Account |-> 0] /\ supply = 0
    /\ pending = [u \in User |-> 0] /\ pendingTotal = 0
    /\ dynFee = BaselineFee /\ protocolFee = Zero
    /\ frozen = FALSE /\ lpPaused = FALSE
    /\ locked = FALSE /\ loan = NoLoan

-----------------------------------------------------------------------------
(***************************************************************************)
(* The LP token as the pool and its users see it.                           *)
(***************************************************************************)

\* LpToken::mint of amount, after the same call minted `before`: refused above
\* the per-call and the total cap.
LpMintAllowed(before, amount) ==
    /\ amount <= MaxMintPerCall
    /\ supply + before + amount <= MaxTotalSupply

\* Mutant: the sender's balance is not checked.
LpTransferUnchecked(from, to, amount) ==
    /\ ~lpPaused
    /\ lp' = [lp EXCEPT ![from] = @ - amount, ![to] = @ + amount]
    /\ UNCHANGED <<pool, res, k_last, supply, pending, pendingTotal,
                   feeVars, adminVars, guardVars>>

\* LpToken::transfer by a holder, to a user or straight to the pool.
LpTransfer(from, to, amount) ==
    /\ ~lpPaused
    /\ amount <= lp[from]
    /\ lp' = [lp EXCEPT ![from] = @ - amount, ![to] = @ + amount]
    /\ UNCHANGED <<pool, res, k_last, supply, pending, pendingTotal,
                   feeVars, adminVars, guardVars>>

\* Mutant: the total supply is not updated.
LpBurnKeepsSupply(from, amount) ==
    /\ ~lpPaused
    /\ amount <= lp[from]
    /\ lp' = [lp EXCEPT ![from] = @ - amount]
    /\ UNCHANGED <<pool, res, k_last, supply, pending, pendingTotal,
                   feeVars, adminVars, guardVars>>

\* LpToken::burn called by a holder without the pool.  The token compares the
\* amount with the balance and not with zero: a negative burn creates LP.
LpBurn(from, amount) ==
    /\ ~lpPaused
    /\ amount <= lp[from]
    /\ Fits(supply - amount) /\ supply - amount <= SupplyBound
    /\ lp' = [lp EXCEPT ![from] = @ - amount]
    /\ supply' = supply - amount
    /\ UNCHANGED <<pool, res, k_last, pending, pendingTotal,
                   feeVars, adminVars, guardVars>>

\* A pool token sent to the pool's address: the first half of a mint or a swap,
\* a flash-loan repayment, or a donation.
TokenIn(t, amount) ==
    /\ amount <= TokenSupply[t] - pool[t]
    /\ pool' = [pool EXCEPT ![t] = @ + amount]
    /\ UNCHANGED <<res, k_last, lpVars, feeVars, adminVars, guardVars>>

-----------------------------------------------------------------------------
(***************************************************************************)
(* Entry points.  Every one acquires the reentrancy guard and releases it   *)
(* on return, so outside a flash loan it only has to be free.               *)
(***************************************************************************)

Enter == ~locked

\* Mutants: a forgotten freeze guard, a forgotten pause guard.
NeverFrozen == TRUE
NeverPaused == TRUE

ensure_not_frozen == ~frozen

ensure_lp_token_not_paused == ~lpPaused

\* mint, called when the pool holds p of its tokens.
MintFrom(to, p) ==
    LET amount    == [t \in Token |-> p[t] - res[t]]
        liquidity == IF supply = 0
                     THEN initial_liquidity(amount["A"], amount["B"])
                     ELSE subsequent_liquidity(amount["A"], amount["B"],
                                               res["A"], res["B"], supply)
        seed      == IF supply = 0 THEN MinLiquidity ELSE 0
    IN  /\ Enter /\ ensure_not_frozen /\ ensure_lp_token_not_paused
        /\ \A t \in Token : amount[t] >= MinReserve
        /\ IF supply = 0
           THEN Fits(K(amount))
           ELSE SubsequentLiquidityFits(amount["A"], amount["B"],
                                        res["A"], res["B"], supply)
        /\ liquidity \in 1..MaxMintPerCall /\ liquidity >= MinUserLp
        /\ LpMintAllowed(0, seed) /\ LpMintAllowed(seed, liquidity)
        /\ Fits(K(p))
        /\ lp' = [lp EXCEPT ![PairAddr] = @ + seed, ![to] = @ + liquidity]
        /\ supply' = supply + seed + liquidity
        /\ pool' = p
        /\ res' = p
        /\ k_last' = K(p)
        /\ UNCHANGED <<pending, pendingTotal, feeVars, adminVars, guardVars>>

mint(to) == MintFrom(to, pool)

(***************************************************************************)
(* Trades: module PoolSwap says what swap_inner accepts and leaves behind.  *)
(***************************************************************************)

\* The fee a swap charges: an override, or the stored dynamic fee after the
\* staleness decay, which can only bring it back towards the baseline.
ChargedFees == OverrideFees \cup (BaselineFee..dynFee)

\* What swap_inner does to the fee state: the cut is accumulated and the new
\* volatility puts the dynamic fee anywhere between its bounds.
SwapFeeEffects(cut) ==
    /\ protocolFee' = [t \in Token |-> protocolFee[t] + cut[t]]
    /\ \A t \in Token : protocolFee[t] + cut[t] <= ProtocolFeeBound
    /\ dynFee' \in BaselineFee..MaxFee

\* Mutant: the reserves are recorded before the protocol is paid.
SwapForgetsCut(out, self) ==
    /\ Enter /\ ensure_not_frozen
    /\ \E fee \in ChargedFees, bps \in ProtocolBps :
        LET balance == SwapBalance(pool, out, self)
        IN  /\ SwapAllowed(pool, res, out, self, fee)
            /\ Fits(K(balance))
            /\ pool' = SwapResult(pool, res, out, self, fee, bps)
            /\ res' = balance
            /\ k_last' = K(balance)
            /\ SwapFeeEffects(SwapCut(pool, res, out, self, fee, bps))
    /\ UNCHANGED <<lpVars, adminVars, guardVars>>

swap(out, self) ==
    /\ Enter /\ ensure_not_frozen
    /\ \E fee \in ChargedFees, bps \in ProtocolBps :
        LET result == SwapResult(pool, res, out, self, fee, bps)
        IN  /\ SwapAllowed(pool, res, out, self, fee)
            /\ Fits(K(result))
            /\ pool' = result
            /\ res' = result
            /\ k_last' = K(result)
            /\ SwapFeeEffects(SwapCut(pool, res, out, self, fee, bps))
    /\ UNCHANGED <<lpVars, adminVars, guardVars>>

\* The caller's min_lp_out only restricts the call: it is the weakest, 1.
mint_with_one_token(to, t, amount) ==
    LET o        == Other(t)
        swap_in  == compute_swap_in_for_single_side(res[t], amount, dynFee)
        swap_out == quote_output_amount(swap_in, res[t], res[o], dynFee)
        deposit  == [x \in Token |-> IF x = t THEN amount - swap_in ELSE swap_out]
        out      == [x \in Token |-> IF x = t THEN 0 ELSE swap_out]
        funded   == [pool EXCEPT ![t] = @ + amount]
    IN  /\ Enter /\ ensure_not_frozen /\ ensure_lp_token_not_paused
        /\ amount > 0 /\ amount <= TokenSupply[t] - pool[t]
        /\ \A x \in Token : res[x] > 0
        /\ swap_in \in 1..(amount - 1)
        /\ QuoteOutFits(swap_in, res[t], res[o], dynFee)
        /\ swap_out > 0
        /\ supply > 0
        /\ \E fee \in ChargedFees, bps \in ProtocolBps :
            LET swapped   == SwapResult(funded, res, out, TRUE, fee, bps)
                lp_minted == subsequent_liquidity(deposit["A"], deposit["B"],
                                                  swapped["A"], swapped["B"], supply)
                total     == [x \in Token |-> swapped[x] + deposit[x]]
            IN  /\ SwapAllowed(funded, res, out, TRUE, fee)
                /\ Fits(K(swapped))
                /\ SubsequentLiquidityFits(deposit["A"], deposit["B"],
                                           swapped["A"], swapped["B"], supply)
                /\ lp_minted > 0 /\ lp_minted >= MinUserLp
                /\ LpMintAllowed(0, lp_minted)
                /\ Fits(K(total))
                /\ lp' = [lp EXCEPT ![to] = @ + lp_minted]
                /\ supply' = supply + lp_minted
                /\ pool' = swapped
                /\ res' = total
                /\ k_last' = K(total)
                /\ SwapFeeEffects(SwapCut(funded, res, out, TRUE, fee, bps))
        /\ UNCHANGED <<pending, pendingTotal, adminVars, guardVars>>

deposit_lp(from, amount) ==
    /\ Enter /\ ensure_lp_token_not_paused
    /\ amount > 0 /\ amount <= lp[from]
    /\ lp' = [lp EXCEPT ![from] = @ - amount, ![PairAddr] = @ + amount]
    /\ pending' = [pending EXCEPT ![from] = @ + amount]
    /\ pendingTotal' = pendingTotal + amount
    /\ UNCHANGED <<pool, res, k_last, supply, feeVars, adminVars, guardVars>>

\* Mutants: other users' staged LP counts as unattributed; everything the pool
\* holds above the seed is redeemed; the total keeps what was redeemed.
BurnLpIgnoresTotal(to, held, staged, total) ==
    IF staged[to] > 0 THEN staged[to] ELSE held - MinLiquidity
BurnLpIgnoresOwners(to, held, staged, total) == held - MinLiquidity
ClearPendingLpKeepsTotal(to, staged, total) ==
    /\ pending' = [staged EXCEPT ![to] = 0]
    /\ pendingTotal' = total

\* LP the pool may redeem for `to` out of the LP it holds: what `to` staged, else
\* what nobody staged.
BurnLp(to, held, staged, total) ==
    IF staged[to] > 0 THEN staged[to] ELSE held - MinLiquidity - total

\* The redeemed entry is dropped from PendingLp and from its total.
ClearPendingLp(to, staged, total) ==
    /\ pending' = [staged EXCEPT ![to] = 0]
    /\ pendingTotal' = total - staged[to]

\* burn, called when the LP balances are `ledger` and LP is staged as given.
BurnFrom(to, ledger, staged, total) ==
    LET burnable_supply == supply - MinLiquidity
        burn_lp == BurnLp(to, ledger[PairAddr], staged, total)
        amount  == [t \in Token |-> burn_amount(burn_lp, res[t], burnable_supply)]
        after   == [t \in Token |-> res[t] - amount[t]]
    IN  /\ Enter /\ ensure_lp_token_not_paused
        /\ supply > 0 /\ burnable_supply > 0
        /\ burn_lp > 0
        /\ \A t \in Token : /\ Fits(burn_lp * res[t])
                            /\ amount[t] > 0 /\ amount[t] >= MinReserve
                            /\ after[t] > 0 => after[t] >= MinReserve
                            /\ amount[t] <= pool[t]
        /\ burn_lp <= ledger[PairAddr]
        /\ Fits(K(after))
        /\ lp' = [ledger EXCEPT ![PairAddr] = @ - burn_lp]
        /\ supply' = supply - burn_lp
        /\ ClearPendingLp(to, staged, total)
        /\ pool' = [t \in Token |-> pool[t] - amount[t]]
        /\ res' = after
        /\ k_last' = K(after)
        /\ UNCHANGED <<feeVars, adminVars, guardVars>>

burn(to) == BurnFrom(to, lp, pending, pendingTotal)

\* As for mint_with_one_token, min_amount_out is the weakest, 1.
burn_single_side(to, lp_amount, t) ==
    LET o        == Other(t)
        burnable_supply == supply - MinLiquidity
        share    == [x \in Token |-> burn_amount(lp_amount, res[x], burnable_supply)]
        left     == [x \in Token |-> res[x] - share[x]]
        swap_out == IF left[t] = 0 THEN 0
                    ELSE quote_output_amount(share[o], left[o], left[t], dynFee)
        final    == [x \in Token |-> IF x = t THEN left[t] - swap_out ELSE res[o]]
        k_after  == (final[t] * BPS) * (final[o] * BPS - share[o] * dynFee)
    IN  /\ Enter /\ ensure_not_frozen /\ ensure_lp_token_not_paused
        /\ lp_amount > 0 /\ lp_amount <= lp[to]
        /\ supply > 0 /\ burnable_supply > 0
        /\ \A x \in Token : Fits(lp_amount * res[x]) /\ share[x] > 0
        /\ left[t] # 0 => /\ left[o] > 0 /\ left[t] > 0
                          /\ QuoteOutFits(share[o], left[o], left[t], dynFee)
        /\ Fits(K(left) * BPS * BPS)
        /\ \A x \in Token : Fits(final[x] * BPS)
        /\ Fits(k_after) /\ k_after >= K(left) * BPS * BPS
        /\ share[t] + swap_out <= pool[t]
        /\ Fits(K(final))
        /\ lp' = [lp EXCEPT ![to] = @ - lp_amount]
        /\ supply' = supply - lp_amount
        /\ pool' = [pool EXCEPT ![t] = @ - (share[t] + swap_out)]
        /\ res' = final
        /\ k_last' = K(final)
        /\ UNCHANGED <<pending, pendingTotal, feeVars, adminVars, guardVars>>

\* Mutant: k_last is not recomputed.
SyncKeepsK ==
    /\ Enter
    /\ Fits(K(pool))
    /\ res' = pool
    /\ UNCHANGED <<pool, k_last, lpVars, feeVars, adminVars, guardVars>>

sync ==
    /\ Enter
    /\ Fits(K(pool))
    /\ res' = pool
    /\ k_last' = K(pool)
    /\ UNCHANGED <<pool, lpVars, feeVars, adminVars, guardVars>>

-----------------------------------------------------------------------------
(***************************************************************************)
(* Flash loans.  A call with two zero amounts returns before anything is    *)
(* written: it is a stuttering step.                                        *)
(***************************************************************************)

flash_loan_open(amount) ==
    /\ ensure_not_frozen /\ Enter
    /\ \A t \in Token : amount[t] <= res[t] /\ amount[t] <= pool[t]
    /\ \E t \in Token : amount[t] > 0
    /\ Fits(K(res))
    /\ \A t \in Token : FlashFeeFits(amount[t], BaselineFee)
    /\ locked' = TRUE
    /\ loan' = [open |-> TRUE, amount |-> amount,
                fee |-> [t \in Token |-> IF amount[t] > 0
                                         THEN compute_flash_fee(amount[t], BaselineFee)
                                         ELSE 0],
                pool |-> pool, lp |-> lp, supply |-> supply]
    /\ pool' = [t \in Token |-> pool[t] - amount[t]]
    /\ UNCHANGED <<res, k_last, lpVars, feeVars, adminVars>>

\* Mutant: the loan is repaid without its fee.
SettleWithoutFee ==
    /\ loan.open
    /\ \A t \in Token : loan.amount[t] > 0 => pool[t] >= res[t]
    /\ Fits(K(pool)) /\ K(pool) >= K(res)
    /\ res' = pool
    /\ k_last' = K(pool)
    /\ locked' = FALSE
    /\ loan' = NoLoan
    /\ UNCHANGED <<pool, lpVars, feeVars, adminVars>>

\* The callback has returned Ok and every borrowed token is back with its fee.
flash_loan_settle ==
    /\ loan.open
    /\ \A t \in Token : loan.amount[t] > 0 => /\ Fits(res[t] + loan.fee[t])
                                              /\ pool[t] >= res[t] + loan.fee[t]
    /\ Fits(K(pool)) /\ K(pool) >= K(res)
    /\ res' = pool
    /\ k_last' = K(pool)
    /\ locked' = FALSE
    /\ loan' = NoLoan
    /\ UNCHANGED <<pool, lpVars, feeVars, adminVars>>

\* The callback failed or a check above did: the host undoes every write made
\* since the call began, the receiver's included.
flash_loan_abort ==
    /\ loan.open
    /\ pool' = loan.pool
    /\ lp' = loan.lp
    /\ supply' = loan.supply
    /\ locked' = FALSE
    /\ loan' = NoLoan
    /\ UNCHANGED <<res, k_last, pending, pendingTotal, feeVars, adminVars>>

-----------------------------------------------------------------------------
(***************************************************************************)
(* Factory-authorized switches.  They do not take the reentrancy guard; it  *)
(* is the host that refuses a second entry into the pool during a callback. *)
(***************************************************************************)

set_frozen(b) ==
    /\ ~loan.open
    /\ frozen' = b
    /\ UNCHANGED <<pool, res, k_last, lpVars, feeVars, lpPaused, guardVars>>

set_lp_token_paused(b) ==
    /\ ~loan.open
    /\ lpPaused' = b
    /\ UNCHANGED <<pool, res, k_last, lpVars, feeVars, frozen, guardVars>>

-----------------------------------------------------------------------------

\* LP is created by a negative burn only in a pool that has had its first mint.
\* Before it the same call gives a pool LP without a seed, and burn then records
\* reserves below zero: such a pool is not modelled.
LpStep ==
    \E u \in User :
        \/ \E n \in LpAmounts, v \in Account \ {u} : LpTransfer(u, v, n)
        \/ \E n \in BurnAmounts : (n < 0 => supply > 0) /\ LpBurn(u, n)
        \/ \E n \in LpAmounts : deposit_lp(u, n)

LiquidityStep ==
    \E u \in User :
        \/ mint(u)
        \/ burn(u)
        \/ \E t \in Token, n \in OneTokenAmounts : mint_with_one_token(u, t, n)
        \/ \E t \in Token, n \in LpAmounts : burn_single_side(u, n, t)

TradeStep ==
    \/ \E t \in Token, n \in Amounts : TokenIn(t, n)
    \/ \E out \in [Token -> Outs], self \in BOOLEAN : swap(out, self)
    \/ sync

LoanStep ==
    \/ \E amount \in [Token -> LoanAmounts \cup {0}] : flash_loan_open(amount)
    \/ flash_loan_settle
    \/ flash_loan_abort

AdminStep == \E b \in BOOLEAN : set_frozen(b) \/ set_lp_token_paused(b)

Next == LpStep \/ LiquidityStep \/ TradeStep \/ LoanStep \/ AdminStep

Spec == Init /\ [][Next]_vars

-----------------------------------------------------------------------------
(***************************************************************************)
(* Properties.                                                              *)
(***************************************************************************)

Loan == [open: BOOLEAN, amount: [Token -> Nat], fee: [Token -> Nat],
         pool: [Token -> Nat], lp: [Account -> Nat], supply: Nat]

AmountsOK ==
    /\ pool \in [Token -> Nat] /\ res \in [Token -> Nat] /\ k_last \in Nat
    /\ lp \in [Account -> Nat] /\ supply \in Nat
    /\ pending \in [User -> Nat] /\ pendingTotal \in Nat
    /\ dynFee \in BaselineFee..MaxFee /\ protocolFee \in [Token -> Nat]

FlagsOK ==
    /\ frozen \in BOOLEAN /\ lpPaused \in BOOLEAN /\ locked \in BOOLEAN
    /\ loan \in Loan

\* Balances, reserves and LP amounts are never negative, the stored dynamic fee
\* stays between its bounds, and the accumulated protocol fee is a counter.
TypeOK == AmountsOK /\ FlagsOK

\* From the first mint on the pool holds the locked seed and everything that was
\* staged with it: no burn, by anyone, is paid out of the seed or of another user's
\* staged LP (the promise of burn's "LP attribution" comment), also in the middle of
\* a flash loan and after its rollback.  What the pool holds is more than the seed
\* while LP is staged or was sent to it, where SECURITY.md has "exactly
\* MINIMUM_LIQUIDITY".
SeedLocked == supply > 0 => lp[PairAddr] >= MinLiquidity + pendingTotal

\* The cached total that burn subtracts for unattributed LP is the sum of the
\* per-owner entries: PendingLpTotal never drifts from PendingLp.
PendingTotalIsSum == pendingTotal = SumFunction(pending)

\* The LP token's total_supply is the sum of the balances its holders and the
\* pool see, through mints, burns, raw transfers and rolled-back loans.
SupplyIsSum == supply = SumFunction(lp)

\* Staged LP leaves only through its owner's own burn, all of it at once, with
\* exactly that much LP destroyed (and what the owner adds to it in the same call,
\* through the router) and nobody else's entry touched.
StagedLpIsOwners ==
    [][\A u \in User : pending'[u] < pending[u] =>
           /\ pending'[u] = 0
           /\ supply' = supply - pending[u] - (lp[u] - lp'[u])
           /\ \A v \in User \ {u} : pending'[v] = pending[v]]_vars

\* The recorded reserves never exceed what the pool holds, or, during a flash loan,
\* what it held when the loan began ("the reserves always match the actual
\* holdings", flash_loan.rs).
ReservesBacked ==
    LET held == IF loan.open THEN loan.pool ELSE pool
    IN  \A t \in Token : res[t] <= held[t]

\* No redemption, swap, fee payment, donation or loan, repaid or rolled back, makes
\* a pool promise tokens that are not there: of all calls only mint_with_one_token
\* does.
BackingKept ==
    [][/\ ReservesBacked
       /\ ~\E u \in User, t \in Token, n \in OneTokenAmounts : mint_with_one_token(u, t, n)
       => ReservesBacked']_vars

\* k_last is the product of the reserves after every entry point that writes
\* either.
KLastCurrent == k_last = K(res)

\* As long as no LP is created or destroyed, K never falls: trades, protocol-fee
\* payments, donations recognised by sync, and flash loans, in any order, leave
\* the liquidity providers with at least the product they had.  A pool that
\* mint_with_one_token has left with reserves above its holdings is excepted: its
\* next sync lowers K.
KNeverFalls == [][supply' = supply /\ ReservesBacked => K(res') >= K(res)]_vars

\* Leaving never takes from those who stay: when LP is burned, through burn,
\* burn_single_side or directly, the pool's product per redeemable LP squared
\* does not fall.  The redeemable supply excludes the seed, as burn's does.
ExitNeverDilutes ==
    [][supply' < supply /\ ~loan.open =>
           LET old == supply - MinLiquidity
               new == supply' - MinLiquidity
           IN  K(res') * old * old >= K(res) * new * new]_vars

\* A deposit never takes from those already in, measured as mint measures a share:
\* against the whole supply, seed included.  This is about every call that records
\* reserves.  LP is also created without the pool, by a negative LpToken::burn: that
\* raises the supply, records nothing, and does take from those already in.
EntryNeverDilutes ==
    [][supply' > supply /\ supply > 0 /\ res' # res /\ ~loan.open =>
           K(res') * supply * supply >= K(res) * supply' * supply']_vars

\* A flash loan is all or nothing: while it is open no reserve and no staged LP
\* moves, and it ends either with every balance as it was when it began, or with
\* the reserves equal to the holdings and each borrowed side up by its fee.
FlashLoanAllOrNothing ==
    [][loan.open =>
           IF loan'.open THEN UNCHANGED <<res, pending, frozen, lpPaused>>
           ELSE \/ /\ pool' = loan.pool /\ lp' = loan.lp /\ supply' = loan.supply
                   /\ UNCHANGED res
                \/ /\ res' = pool'
                   /\ \A t \in Token : loan.amount[t] > 0 => res'[t] >= res[t] + loan.fee[t]]_vars

\* While the pool is frozen its reserves change only by a burn that reduces both
\* sides, or by sync; no trade, deposit, one-sided exit or loan gets through.
FrozenPoolOnlyUnwinds ==
    [][frozen /\ res' # res =>
           \/ supply' < supply /\ \A t \in Token : res'[t] < res[t]
           \/ supply' = supply /\ res' = pool /\ pool' = pool]_vars

\* While the LP token is paused no LP is created, destroyed, moved or staged,
\* whichever contract the attempt goes through, as LpToken::pause documents.  The
\* comment of set_lp_token_paused says that "LP transfers are unaffected", which the
\* LP token contradicts: its transfer refuses while paused.
PausedLpStandsStill == [][lpPaused => UNCHANGED lpVars]_vars

\* "computing redemption amounts with total_supply - MINIMUM_LIQUIDITY ensures
\* the seed's proportional reserves remain locked" (SECURITY.md): as long as LP
\* exists, the seed among it, the pool keeps some of both tokens, and the next
\* mint has reserves to price against.
SeedKeepsReserves == supply > 0 => \A t \in Token : res[t] > 0

=============================================================================
