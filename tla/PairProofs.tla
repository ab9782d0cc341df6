----------------------------- MODULE PairProofs -----------------------------
(***************************************************************************)
(* What holds of the pair, used directly and through the router, for every  *)
(* set of users, every token supply and every value of the protocol's       *)
(* constants.                                                               *)
(***************************************************************************)
EXTENDS RouterLiquidity, LedgerArithmetic

\* A redemption never exceeds the reserve it is taken from.
LEMMA BurnAmountBound ==
    ASSUME NEW l \in Nat, NEW r \in Nat, NEW s \in Nat \ {0}, l <= s
    PROVE  /\ burn_amount(l, r, s) \in Nat
           /\ burn_amount(l, r, s) <= r
<1>1. l * r \in Nat /\ l * r <= s * r
  BY MulNat, MulMono
<1> QED
  BY <1>1, DivFloor, DivBound DEF burn_amount

\* A quoted output never exceeds the reserve it is paid from.
LEMMA QuoteBound ==
    ASSUME NEW a \in Nat, NEW r \in Nat \ {0}, NEW o \in Nat,
           NEW f \in Nat, f < BPS
    PROVE  /\ quote_output_amount(a, r, o, f) \in Nat
           /\ quote_output_amount(a, r, o, f) <= o
<1> USE MathAssumption
<1> DEFINE x == a * fee_factor(f)
           d == r * BPS + x
<1>1. fee_factor(f) \in Nat
  BY DEF fee_factor
<1>2. x \in Nat
  BY <1>1, MulNat
<1>3. r * BPS \in Nat \ {0}
  BY SMT
<1> HIDE DEF x
<1>4. d \in Nat \ {0} /\ x <= d
  BY <1>2, <1>3
<1> HIDE DEF d
<1>5. x * o \in Nat /\ x * o <= d * o
  BY <1>2, <1>4, MulNat, MulMono
<1>6. quote_output_amount(a, r, o, f) = (x * o) \div d
  BY DEF quote_output_amount, x, d
<1> QED
  BY <1>4, <1>5, <1>6, DivFloor, DivBound

(***************************************************************************)
(* A swap that passes the K check.                                          *)
(***************************************************************************)

\* The protocol's cut is a natural number and at most the fee on the input.
LEMMA CutBound ==
    ASSUME NEW input \in Nat, NEW fee \in 0..BPS, NEW bps \in 0..BPS
    PROVE  /\ ProtocolCut(input, fee, bps) \in Nat
           /\ ProtocolCut(input, fee, bps) * BPS <= input * fee
<1> DEFINE x == Least(input * fee * bps, MaxI128)
<1>1. x = IF input * fee * bps <= MaxI128 THEN input * fee * bps ELSE MaxI128
  BY DEF Least
<1> HIDE DEF x
<1>2. x \div (BPS * BPS) \in Nat /\ (x \div (BPS * BPS)) * BPS <= input * fee
  BY <1>1, ShareOfFee, MathAssumption
<1> QED
  BY <1>2 DEF ProtocolCut, x

\* One side of a swap: what is left after the cut is at least the fee-adjusted
\* balance of the K check, which is itself not negative.
LEMMA SideBound ==
    ASSUME NEW balance \in Nat, NEW input \in Nat, input <= balance,
           NEW fee \in 0..BPS, NEW bps \in 0..BPS
    PROVE  /\ balance * BPS - input * fee \in Nat
           /\ balance - ProtocolCut(input, fee, bps) \in Nat
           /\ (balance - ProtocolCut(input, fee, bps)) * BPS \in Nat
           /\ balance * BPS - input * fee <= (balance - ProtocolCut(input, fee, bps)) * BPS
BY CutBound, LeftAfterShare, MathAssumption

\* Balances and inputs of an allowed swap are natural numbers, and no input is
\* larger than the balance it is part of.
LEMMA SwapSides ==
    ASSUME NEW p \in [Token -> Nat], NEW r \in [Token -> Nat],
           NEW out \in [Token -> Int], NEW self \in BOOLEAN, NEW fee,
           SwapAllowed(p, r, out, self, fee), NEW t \in Token
    PROVE  /\ SwapBalance(p, out, self)[t] \in Nat
           /\ SwapInput(p, r, out, self)[t] \in Nat
           /\ SwapInput(p, r, out, self)[t] <= SwapBalance(p, out, self)[t]
<1> USE MathAssumption
<1>1. out[t] <= p[t] /\ r[t] - out[t] >= MinReserve
  BY DEF SwapAllowed
<1>2. SwapBalance(p, out, self)[t] = IF out[t] > 0 /\ ~self THEN p[t] - out[t] ELSE p[t]
  BY DEF SwapBalance
<1>3. SwapBalance(p, out, self)[t] \in Nat
  BY <1>1, <1>2
<1>4. SwapInput(p, r, out, self)[t]
        = AtLeastZero(SwapBalance(p, out, self)[t] - (r[t] - out[t]))
  BY DEF SwapInput
<1> QED
  BY <1>1, <1>3, <1>4 DEF AtLeastZero

\* After an allowed swap and the payment of the protocol's cut the balances are
\* natural numbers whose product is at least that of the old reserves.
LEMMA SwapKeepsK ==
    ASSUME NEW p \in [Token -> Nat], NEW r \in [Token -> Nat],
           NEW out \in [Token -> Int], NEW self \in BOOLEAN,
           NEW fee \in 0..BPS, NEW bps \in 0..BPS,
           SwapAllowed(p, r, out, self, fee)
    PROVE  /\ SwapCut(p, r, out, self, fee, bps) \in [Token -> Nat]
           /\ SwapResult(p, r, out, self, fee, bps) \in [Token -> Nat]
           /\ K(SwapResult(p, r, out, self, fee, bps)) >= K(r)
<1> USE MathAssumption
<1> DEFINE b == SwapBalance(p, out, self)
           i == SwapInput(p, r, out, self)
           s == SwapResult(p, r, out, self, fee, bps)
           adj(t) == b[t] * BPS - i[t] * fee
<1>1. \A t \in Token : /\ b[t] \in Nat /\ i[t] \in Nat /\ i[t] <= b[t]
  BY SwapSides
<1>2. \A t \in Token : SwapCut(p, r, out, self, fee, bps)[t] = ProtocolCut(i[t], fee, bps)
  BY DEF SwapCut
<1>3. SwapCut(p, r, out, self, fee, bps) \in [Token -> Nat]
  BY <1>1, CutBound DEF SwapCut
<1>4. \A t \in Token : s[t] = b[t] - ProtocolCut(i[t], fee, bps)
  BY <1>2 DEF SwapResult
<1>5. \A t \in Token : /\ adj(t) \in Nat /\ s[t] \in Nat /\ s[t] * BPS \in Nat
                       /\ adj(t) <= s[t] * BPS
  <2>1. SUFFICES ASSUME NEW t \in Token
                 PROVE  /\ adj(t) \in Nat /\ s[t] \in Nat /\ s[t] * BPS \in Nat
                        /\ adj(t) <= s[t] * BPS
    OBVIOUS
  <2>2. b[t] \in Nat /\ i[t] \in Nat /\ i[t] <= b[t]
    BY <1>1
  <2>3. s[t] = b[t] - ProtocolCut(i[t], fee, bps)
    BY <1>4
  <2> HIDE DEF b, i, s
  <2>4. /\ b[t] * BPS - i[t] * fee \in Nat
        /\ b[t] - ProtocolCut(i[t], fee, bps) \in Nat
        /\ (b[t] - ProtocolCut(i[t], fee, bps)) * BPS \in Nat
        /\ b[t] * BPS - i[t] * fee <= (b[t] - ProtocolCut(i[t], fee, bps)) * BPS
    BY <2>2, SideBound
  <2> QED
    BY <2>3, <2>4
<1>6. s \in [Token -> Nat]
  BY <1>5 DEF SwapResult
<1>7. adj("A") * adj("B") >= K(r) * BPS * BPS
  BY DEF SwapAllowed, AdjustedK
<1> HIDE DEF b, i, s, adj
<1>8. "A" \in Token /\ "B" \in Token
  BY DEF Token
<1>9. adj("A") * adj("B") <= (s["A"] * BPS) * (s["B"] * BPS)
  BY <1>5, <1>8, MulMonoTwo
<1>10. K(r) \in Nat /\ K(s) \in Nat /\ BPS * BPS \in Nat \ {0}
  BY <1>5, <1>8, MulNat, SMT DEF K
<1>11. (s["A"] * BPS) * (s["B"] * BPS) = K(s) * (BPS * BPS)
  BY <1>5, <1>8, SMT DEF K
<1>12. K(r) * BPS * BPS = K(r) * (BPS * BPS)
  BY <1>10, SMT
<1>13. adj("A") * adj("B") \in Nat
  BY <1>5, <1>8, MulNat
<1>14. K(r) * (BPS * BPS) <= K(s) * (BPS * BPS)
  BY <1>7, <1>9, <1>10, <1>11, <1>12, <1>13, MulNat
<1>15. K(r) <= K(s)
  BY <1>10, <1>14, MulCancel
<1> QED
  BY <1>3, <1>6, <1>10, <1>15 DEF s

-----------------------------------------------------------------------------
(***************************************************************************)
(* The inductive invariant.  SeedLocked alone is not inductive: that a burn *)
(* leaves the seed alone depends on the staged total being the sum of the   *)
(* entries, that no payout exceeds a reserve depends on the supply being    *)
(* the sum of the balances, and a rolled-back loan restores a ledger that   *)
(* must satisfy all of this too.                                            *)
(***************************************************************************)

SeedOf(s) == IF s > 0 THEN MinLiquidity ELSE 0

\* Balances l add up to s and cover the seed and everything that is staged.
LedgerOK(l, s) ==
    /\ IsSum(l, Account, s)
    /\ l[PairAddr] >= pendingTotal + SeedOf(s)

StagedOK == IsSum(pending, User, pendingTotal)

LoanOK ==
    /\ locked = loan.open
    /\ loan.open => LedgerOK(loan.lp, loan.supply)

IInv == TypeOK /\ LedgerOK(lp, supply) /\ StagedOK /\ LoanOK

\* What the constants and TypeOK give every step below.
LEMMA Accounts ==
    /\ IsFiniteSet(Account) /\ PairAddr \in Account
    /\ \A u \in User : u \in Account /\ u # PairAddr
<1>1. IsFiniteSet({PairAddr})
  BY FS_Singleton
<1>2. IsFiniteSet(User)
  BY PairAssumption
<1> QED
  BY <1>1, <1>2, FS_Union, PairAssumption DEF Account

\* A pool as initialize leaves it satisfies the invariant.
LEMMA InitInv == Init => IInv
<1> SUFFICES ASSUME Init PROVE IInv
  OBVIOUS
<1> USE MathAssumption, PairAssumption
<1>1. NoLoan \in Loan
  BY DEF NoLoan, Loan, Zero
<1>2. TypeOK
  <2>1. AmountsOK
    BY DEF Init, AmountsOK, Zero
  <2>2. FlagsOK
    BY <1>1, Zenon DEF Init, FlagsOK
  <2> QED
    BY <2>1, <2>2 DEF TypeOK
<1>3. IsSum(lp, Account, 0) /\ IsSum(pending, User, 0)
  BY Accounts, SumZero DEF Init
<1>4. lp[PairAddr] = 0 /\ supply = 0 /\ pendingTotal = 0 /\ locked = FALSE /\ loan.open = FALSE
  BY Accounts DEF Init, NoLoan
<1>5. LedgerOK(lp, supply)
  BY <1>3, <1>4 DEF LedgerOK, SeedOf
<1> QED
  BY <1>2, <1>3, <1>4, <1>5 DEF IInv, StagedOK, LoanOK

\* A step that changes neither the LP ledger nor the guard only has to keep the
\* types.
LEMMA LedgerUntouched ==
    ASSUME IInv, TypeOK', UNCHANGED lpVars, UNCHANGED guardVars
    PROVE  IInv'
BY DEF IInv, LedgerOK, StagedOK, LoanOK, SeedOf, lpVars, guardVars

\* A step outside a loan that keeps the guard keeps LoanOK.
LEMMA NoLoanOpen ==
    ASSUME IInv, Enter, UNCHANGED guardVars
    PROVE  LoanOK'
BY DEF IInv, TypeOK, FlagsOK, LoanOK, Enter, guardVars, Loan

(***************************************************************************)
(* One lemma per action that touches LP.                                    *)
(***************************************************************************)

\* A transfer of LP between holders, to the pool included.
LEMMA LpTransferInv ==
    ASSUME IInv, NEW u \in User, NEW v \in Account \ {u}, NEW n \in LpAmounts,
           LpTransfer(u, v, n)
    PROVE  IInv'
<1> USE MathAssumption, PairAssumption
<1>1. n \in Nat /\ u \in Account /\ v \in Account /\ u # v /\ u # PairAddr
  BY Accounts
<1>2. lp \in [Account -> Nat] /\ lp[u] \in Nat /\ lp[v] \in Nat /\ n <= lp[u] /\ supply \in Nat
  BY <1>1 DEF IInv, TypeOK, AmountsOK, LpTransfer
<1>3. lp' = [lp EXCEPT ![u] = lp[u] - n, ![v] = lp[v] + n]
  BY <1>1, <1>2 DEF LpTransfer
<1>4. lp' \in [Account -> Nat] /\ lp'[PairAddr] >= lp[PairAddr]
  BY <1>1, <1>2, <1>3, Accounts
<1>5. supply - lp[u] + (lp[u] - n) - lp[v] + (lp[v] + n) = supply
  BY <1>1, <1>2
<1>6. IsSum(lp', Account, supply)
  <2>1. IsSum(lp, Account, supply)
    BY DEF IInv, LedgerOK
  <2>2. lp[u] - n \in Nat /\ lp[v] + n \in Nat
    BY <1>1, <1>2
  <2>3. IsSum(lp', Account, supply - lp[u] + (lp[u] - n) - lp[v] + (lp[v] + n))
    BY <1>1, <1>2, <1>3, <2>1, <2>2, SumUpdateTwo
  <2> QED
    BY <1>5, <2>3
<1>7. TypeOK'
  BY <1>4 DEF IInv, TypeOK, AmountsOK, FlagsOK, LpTransfer, feeVars, adminVars, guardVars
<1>8. LedgerOK(lp, supply)'
  <2>1. lp[PairAddr] \in Nat /\ lp[PairAddr] >= pendingTotal + SeedOf(supply)
    BY Accounts DEF IInv, TypeOK, AmountsOK, LedgerOK
  <2>2. lp'[PairAddr] \in Nat /\ pendingTotal \in Nat /\ SeedOf(supply) \in Nat
    BY <1>4, Accounts DEF IInv, TypeOK, AmountsOK, SeedOf
  <2>3. lp'[PairAddr] >= pendingTotal + SeedOf(supply)
    BY <1>4, <2>1, <2>2
  <2> QED
    BY <1>6, <2>3 DEF LedgerOK, LpTransfer, SeedOf
<1>9. StagedOK' /\ LoanOK'
  BY DEF IInv, StagedOK, LoanOK, LedgerOK, SeedOf, LpTransfer, guardVars
<1> QED
  BY <1>7, <1>8, <1>9 DEF IInv

\* A holder burns its own LP at the token, past the pool, or creates some with a
\* negative amount: the seed of a pool that has one stays where it is.
LEMMA LpBurnInv ==
    ASSUME IInv, NEW u \in User, NEW n \in BurnAmounts, n < 0 => supply > 0, LpBurn(u, n)
    PROVE  IInv'
<1> USE MathAssumption, PairAssumption
<1>1. n \in Int /\ u \in Account /\ u # PairAddr
  BY Accounts
<1>2. lp \in [Account -> Nat] /\ lp[u] \in Nat /\ n <= lp[u] /\ supply \in Nat
  BY <1>1 DEF IInv, TypeOK, AmountsOK, LpBurn
<1>3. lp' = [lp EXCEPT ![u] = lp[u] - n] /\ supply' = supply - n
  BY <1>1, <1>2 DEF LpBurn
<1>4. lp' \in [Account -> Nat] /\ lp'[PairAddr] = lp[PairAddr]
  BY <1>1, <1>2, <1>3, Accounts
<1>5. IsSum(lp, Account, supply)
  BY DEF IInv, LedgerOK
<1>6. lp[u] <= supply
  BY <1>1, <1>2, <1>5, SumBound
<1>7. supply' \in Nat /\ supply - lp[u] + (lp[u] - n) = supply' /\ lp[u] - n \in Nat
  BY <1>1, <1>2, <1>3, <1>6
<1>8. IsSum(lp', Account, supply')
  <2>1. IsSum(lp', Account, supply - lp[u] + (lp[u] - n))
    BY <1>1, <1>2, <1>3, <1>5, <1>7, SumUpdate
  <2> QED
    BY <1>7, <2>1
<1>9. TypeOK'
  BY <1>4, <1>7 DEF IInv, TypeOK, AmountsOK, FlagsOK, LpBurn, feeVars, adminVars, guardVars
<1>10. LedgerOK(lp, supply)'
  <2>1. /\ lp[PairAddr] \in Nat /\ pendingTotal \in Nat
        /\ lp[PairAddr] >= pendingTotal + SeedOf(supply)
    BY Accounts DEF IInv, TypeOK, AmountsOK, LedgerOK
  <2>2. SeedOf(supply') <= SeedOf(supply) /\ SeedOf(supply') \in Nat /\ SeedOf(supply) \in Nat
    BY <1>1, <1>2, <1>3, <1>7 DEF SeedOf
  <2>3. lp'[PairAddr] >= pendingTotal + SeedOf(supply')
    BY <1>4, <2>1, <2>2
  <2>4. pendingTotal' = pendingTotal
    BY DEF LpBurn
  <2> QED
    BY <1>8, <2>3, <2>4 DEF LedgerOK, SeedOf
<1>11. StagedOK' /\ LoanOK'
  BY DEF IInv, StagedOK, LoanOK, LedgerOK, SeedOf, LpBurn, guardVars
<1> QED
  BY <1>9, <1>10, <1>11 DEF IInv

\* deposit_lp: LP moves to the pool and is recorded for its owner.
LEMMA DepositInv ==
    ASSUME IInv, NEW u \in User, NEW n \in LpAmounts, deposit_lp(u, n)
    PROVE  IInv'
<1> USE MathAssumption, PairAssumption
<1>1. n \in Nat /\ u \in Account /\ PairAddr \in Account /\ u # PairAddr
  BY Accounts
<1>2. /\ lp \in [Account -> Nat] /\ lp[u] \in Nat /\ lp[PairAddr] \in Nat /\ n <= lp[u]
      /\ supply \in Nat /\ pending \in [User -> Nat] /\ pendingTotal \in Nat /\ pending[u] \in Nat
  BY <1>1 DEF IInv, TypeOK, AmountsOK, deposit_lp
<1>3. /\ lp' = [lp EXCEPT ![u] = lp[u] - n, ![PairAddr] = lp[PairAddr] + n]
      /\ pending' = [pending EXCEPT ![u] = pending[u] + n]
      /\ pendingTotal' = pendingTotal + n /\ supply' = supply
  BY <1>1, <1>2 DEF deposit_lp
<1>4. /\ lp' \in [Account -> Nat] /\ lp'[PairAddr] = lp[PairAddr] + n
      /\ pending' \in [User -> Nat] /\ pendingTotal' \in Nat
  BY <1>1, <1>2, <1>3
<1>5. IsSum(lp, Account, supply) /\ IsSum(pending, User, pendingTotal)
  BY DEF IInv, LedgerOK, StagedOK
<1>6. lp[u] - n \in Nat /\ lp[PairAddr] + n \in Nat /\ pending[u] + n \in Nat
  BY <1>1, <1>2
<1>7. /\ supply - lp[u] + (lp[u] - n) - lp[PairAddr] + (lp[PairAddr] + n) = supply
      /\ pendingTotal - pending[u] + (pending[u] + n) = pendingTotal + n
  BY <1>1, <1>2
<1>8. IsSum(lp', Account, supply')
  <2>1. IsSum(lp', Account, supply - lp[u] + (lp[u] - n) - lp[PairAddr] + (lp[PairAddr] + n))
    BY <1>1, <1>2, <1>3, <1>5, <1>6, SumUpdateTwo
  <2> QED
    BY <1>3, <1>7, <2>1
<1>9. IsSum(pending', User, pendingTotal')
  <2>1. IsSum(pending', User, pendingTotal - pending[u] + (pending[u] + n))
    BY <1>2, <1>3, <1>5, <1>6, SumUpdate
  <2> QED
    BY <1>3, <1>7, <2>1
<1>10. TypeOK'
  BY <1>3, <1>4 DEF IInv, TypeOK, AmountsOK, FlagsOK, deposit_lp, feeVars, adminVars, guardVars
<1>11. LedgerOK(lp, supply)'
  <2>1. lp[PairAddr] >= pendingTotal + SeedOf(supply) /\ SeedOf(supply) \in Nat
    BY DEF IInv, LedgerOK, SeedOf
  <2>2. lp'[PairAddr] >= pendingTotal' + SeedOf(supply)
    BY <1>1, <1>2, <1>3, <1>4, <2>1
  <2> QED
    BY <1>3, <1>8, <2>2 DEF LedgerOK, SeedOf
<1>12. LoanOK'
  BY NoLoanOpen DEF deposit_lp
<1> QED
  BY <1>9, <1>10, <1>11, <1>12 DEF IInv, StagedOK

\* Minting l LP to a user, and s to the pool when it is the first mint.
LEMMA IssueLp ==
    ASSUME IInv, NEW to \in User, NEW s \in Nat, NEW l \in Nat,
           supply = 0 => s >= MinLiquidity,
           lp' = [lp EXCEPT ![PairAddr] = @ + s, ![to] = @ + l],
           supply' = supply + s + l,
           UNCHANGED <<pending, pendingTotal>>
    PROVE  /\ lp' \in [Account -> Nat] /\ supply' \in Nat
           /\ LedgerOK(lp, supply)' /\ StagedOK'
<1> USE MathAssumption
<1>1. to \in Account /\ PairAddr \in Account /\ to # PairAddr
  BY Accounts
<1>2. /\ lp \in [Account -> Nat] /\ lp[to] \in Nat /\ lp[PairAddr] \in Nat
      /\ supply \in Nat /\ pendingTotal \in Nat
  BY <1>1 DEF IInv, TypeOK, AmountsOK
<1>3. lp' = [lp EXCEPT ![PairAddr] = lp[PairAddr] + s, ![to] = lp[to] + l]
  BY <1>1, <1>2
<1>4. lp' \in [Account -> Nat] /\ lp'[PairAddr] = lp[PairAddr] + s /\ supply' \in Nat
  BY <1>1, <1>2, <1>3
<1>5. IsSum(lp, Account, supply)
  BY DEF IInv, LedgerOK
<1>6. supply - lp[PairAddr] + (lp[PairAddr] + s) - lp[to] + (lp[to] + l) = supply'
  BY <1>1, <1>2
<1>7. lp[PairAddr] + s \in Nat /\ lp[to] + l \in Nat
  BY <1>2
<1>8. IsSum(lp', Account, supply')
  <2> DEFINE v == lp[PairAddr] + s
             w == lp[to] + l
  <2> HIDE DEF v, w
  <2>1. v \in Nat /\ w \in Nat
    BY <1>7 DEF v, w
  <2>2. IsSum([lp EXCEPT ![PairAddr] = v, ![to] = w], Account,
              supply - lp[PairAddr] + v - lp[to] + w)
    BY <1>1, <1>2, <1>5, <2>1, SumUpdateTwo
  <2> QED
    BY <1>3, <1>6, <2>2 DEF v, w
<1>9. lp[PairAddr] >= pendingTotal + SeedOf(supply)
  BY DEF IInv, LedgerOK
<1>10. lp'[PairAddr] >= pendingTotal + SeedOf(supply')
  <2>1. CASE supply = 0
    BY <1>2, <1>4, <1>9, <2>1 DEF SeedOf
  <2>2. CASE supply # 0
    BY <1>2, <1>4, <1>9, <2>2 DEF SeedOf
  <2> QED
    BY <2>1, <2>2
<1>11. LedgerOK(lp, supply)'
  BY <1>8, <1>10 DEF LedgerOK, SeedOf
<1> QED
  BY <1>4, <1>11 DEF IInv, StagedOK

\* mint, the first one with its locked seed included, when the pool holds p.
LEMMA MintInv ==
    ASSUME IInv, NEW to \in User, NEW p \in [Token -> Nat], MintFrom(to, p)
    PROVE  IInv'
<1> USE MathAssumption, PairAssumption
<1> DEFINE s == IF supply = 0 THEN MinLiquidity ELSE 0
<1>1. PICK l \in 1..MaxMintPerCall :
          /\ lp' = [lp EXCEPT ![PairAddr] = @ + s, ![to] = @ + l]
          /\ supply' = supply + s + l
  BY DEF MintFrom
<1>2. l \in Nat /\ s \in Nat
  BY <1>1
<1>3. UNCHANGED <<pending, pendingTotal>> /\ Enter /\ UNCHANGED guardVars
  BY DEF MintFrom
<1>4. supply = 0 => s >= MinLiquidity
  OBVIOUS
<1> HIDE DEF s
<1>5. /\ lp' \in [Account -> Nat] /\ supply' \in Nat
      /\ LedgerOK(lp, supply)' /\ StagedOK'
  BY <1>1, <1>2, <1>3, <1>4, IssueLp
<1>6. res' = p /\ pool' = p /\ k_last' = K(p)
  BY DEF MintFrom
<1>7. k_last' \in Nat
  BY <1>6, MulNat DEF K, Token
<1>8. TypeOK'
  BY <1>3, <1>5, <1>6, <1>7
     DEF IInv, TypeOK, AmountsOK, FlagsOK, MintFrom, feeVars, adminVars, guardVars
<1>9. LoanOK'
  BY <1>3, NoLoanOpen
<1> QED
  BY <1>5, <1>8, <1>9 DEF IInv

\* An LP ledger and what is staged in it, as burn finds them: the supply is the sum
\* of the balances, the total that of the entries, and the pool holds both the
\* seed and what is staged.
Redeemable(ledger, staged, total) ==
    /\ ledger \in [Account -> Nat] /\ IsSum(ledger, Account, supply)
    /\ staged \in [User -> Nat] /\ total \in Nat /\ IsSum(staged, User, total)
    /\ ledger[PairAddr] >= total + SeedOf(supply)

\* The pool's own ledger is one.
LEMMA OwnRedeemable ==
    ASSUME IInv
    PROVE  Redeemable(lp, pending, pendingTotal)
BY DEF IInv, TypeOK, AmountsOK, LedgerOK, StagedOK, Redeemable

\* So is the ledger after the deposit_lp with which remove_liquidity begins.
LEMMA RemovalRedeemable ==
    ASSUME IInv, NEW u \in User, NEW n \in Nat, n <= lp[u]
    PROVE  Redeemable([lp EXCEPT ![u] = @ - n, ![PairAddr] = @ + n],
                      [pending EXCEPT ![u] = @ + n], pendingTotal + n)
<1> DEFINE ledger == [lp EXCEPT ![u] = lp[u] - n, ![PairAddr] = lp[PairAddr] + n]
           staged == [pending EXCEPT ![u] = pending[u] + n]
<1>1. u \in Account /\ PairAddr \in Account /\ u # PairAddr
  BY Accounts
<1>2. /\ lp \in [Account -> Nat] /\ lp[u] \in Nat /\ lp[PairAddr] \in Nat
      /\ supply \in Nat /\ pending \in [User -> Nat] /\ pendingTotal \in Nat /\ pending[u] \in Nat
  BY <1>1 DEF IInv, TypeOK, AmountsOK
<1>3. /\ [lp EXCEPT ![u] = @ - n, ![PairAddr] = @ + n] = ledger
      /\ [pending EXCEPT ![u] = @ + n] = staged
  BY <1>1, <1>2
<1>4. lp[u] - n \in Nat /\ lp[PairAddr] + n \in Nat /\ pending[u] + n \in Nat
  BY <1>2
<1>5. /\ ledger \in [Account -> Nat] /\ ledger[PairAddr] = lp[PairAddr] + n
      /\ staged \in [User -> Nat] /\ pendingTotal + n \in Nat
  BY <1>1, <1>2, <1>4
<1>6. IsSum(lp, Account, supply) /\ IsSum(pending, User, pendingTotal)
  BY DEF IInv, LedgerOK, StagedOK
<1>7. /\ supply - lp[u] + (lp[u] - n) - lp[PairAddr] + (lp[PairAddr] + n) = supply
      /\ pendingTotal - pending[u] + (pending[u] + n) = pendingTotal + n
  BY <1>2
<1>8. IsSum(ledger, Account, supply)
  <2>1. IsSum(ledger, Account, supply - lp[u] + (lp[u] - n) - lp[PairAddr] + (lp[PairAddr] + n))
    BY <1>1, <1>2, <1>4, <1>6, SumUpdateTwo
  <2> QED
    BY <1>7, <2>1
<1>9. IsSum(staged, User, pendingTotal + n)
  <2>1. IsSum(staged, User, pendingTotal - pending[u] + (pending[u] + n))
    BY <1>2, <1>4, <1>6, SumUpdate
  <2> QED
    BY <1>7, <2>1
<1>10. ledger[PairAddr] >= pendingTotal + n + SeedOf(supply)
  BY <1>2, <1>5, MathAssumption DEF IInv, LedgerOK, SeedOf
<1> HIDE DEF ledger, staged
<1>11. Redeemable(ledger, staged, pendingTotal + n)
  BY <1>5, <1>8, <1>9, <1>10 DEF Redeemable
<1> QED
  BY <1>3, <1>11

\* The amounts burn computes, by name.
BurnOut(b) == [t \in Token |-> burn_amount(b, res[t], supply - MinLiquidity)]
BurnAfter(b) == [t \in Token |-> res[t] - BurnOut(b)[t]]

\* What burn redeems is neither the seed nor staged by anyone else, and it never
\* pays out more than the reserves.
LEMMA BurnBounds ==
    ASSUME IInv, NEW to \in User, NEW ledger, NEW staged, NEW total,
           Redeemable(ledger, staged, total), BurnFrom(to, ledger, staged, total),
           NEW b, b = BurnLp(to, ledger[PairAddr], staged, total)
    PROVE  /\ b \in Nat \ {0} /\ supply - MinLiquidity \in Nat \ {0}
           /\ b <= supply - MinLiquidity /\ b <= ledger[PairAddr]
           /\ staged[to] \in Nat /\ total - staged[to] \in Nat
           /\ ledger[PairAddr] - b >= (total - staged[to]) + MinLiquidity
           /\ BurnOut(b) \in [Token -> Nat] /\ BurnAfter(b) \in [Token -> Nat]
           /\ \A t \in Token : BurnOut(b)[t] <= res[t] /\ BurnOut(b)[t] <= pool[t]
<1> USE MathAssumption, PairAssumption
<1> DEFINE s == supply - MinLiquidity
<1>1. PairAddr \in Account
  BY Accounts
<1>2. /\ ledger \in [Account -> Nat] /\ ledger[PairAddr] \in Nat /\ supply \in Nat
      /\ staged \in [User -> Nat] /\ staged[to] \in Nat /\ total \in Nat
      /\ pool \in [Token -> Nat] /\ res \in [Token -> Nat]
  BY <1>1 DEF Redeemable, IInv, TypeOK, AmountsOK
<1>3. /\ s > 0 /\ b > 0 /\ supply > 0
      /\ \A t \in Token : BurnOut(b)[t] <= pool[t]
  BY DEF BurnFrom, BurnOut
<1>4. ledger[PairAddr] <= supply /\ staged[to] <= total
  BY <1>1, <1>2, SumBound DEF Redeemable
<1>5. ledger[PairAddr] >= total + MinLiquidity
  BY <1>3 DEF Redeemable, SeedOf
<1>6. b = IF staged[to] > 0 THEN staged[to] ELSE ledger[PairAddr] - MinLiquidity - total
  BY DEF BurnLp
<1>7. /\ b \in Nat \ {0} /\ b <= s /\ s \in Nat \ {0} /\ b <= ledger[PairAddr]
      /\ total - staged[to] \in Nat
      /\ ledger[PairAddr] - b >= (total - staged[to]) + MinLiquidity
  BY <1>2, <1>3, <1>4, <1>5, <1>6
<1> HIDE DEF s
<1>8. \A t \in Token : burn_amount(b, res[t], s) \in Nat /\ burn_amount(b, res[t], s) <= res[t]
  BY <1>2, <1>7, BurnAmountBound
<1>9. BurnOut(b) \in [Token -> Nat] /\ \A t \in Token : BurnOut(b)[t] <= res[t]
  BY <1>8 DEF BurnOut, s
<1>10. BurnAfter(b) \in [Token -> Nat]
  BY <1>2, <1>9 DEF BurnAfter
<1> QED
  BY <1>2, <1>3, <1>7, <1>9, <1>10 DEF s

\* burn: only the owner's staged LP and unattributed LP is destroyed.
LEMMA BurnInv ==
    ASSUME IInv, NEW to \in User, NEW ledger, NEW staged, NEW total,
           Redeemable(ledger, staged, total), BurnFrom(to, ledger, staged, total)
    PROVE  IInv'
<1> USE MathAssumption, PairAssumption
<1> DEFINE b == BurnLp(to, ledger[PairAddr], staged, total)
<1>1. /\ b \in Nat \ {0} /\ b <= supply - MinLiquidity /\ b <= ledger[PairAddr]
      /\ staged[to] \in Nat /\ total - staged[to] \in Nat
      /\ ledger[PairAddr] - b >= (total - staged[to]) + MinLiquidity
      /\ BurnOut(b) \in [Token -> Nat] /\ BurnAfter(b) \in [Token -> Nat]
      /\ \A t \in Token : BurnOut(b)[t] <= pool[t]
  BY BurnBounds
<1>2. /\ PairAddr \in Account
      /\ ledger \in [Account -> Nat] /\ ledger[PairAddr] \in Nat /\ supply \in Nat
      /\ staged \in [User -> Nat] /\ total \in Nat /\ pool \in [Token -> Nat]
  BY Accounts DEF Redeemable, IInv, TypeOK, AmountsOK
<1>3. /\ supply > 0 /\ Enter
      /\ lp' = [ledger EXCEPT ![PairAddr] = @ - b]
      /\ supply' = supply - b
      /\ pending' = [staged EXCEPT ![to] = 0]
      /\ pendingTotal' = total - staged[to]
      /\ pool' = [t \in Token |-> pool[t] - BurnOut(b)[t]]
      /\ res' = BurnAfter(b) /\ k_last' = K(BurnAfter(b))
      /\ UNCHANGED <<feeVars, adminVars, guardVars>>
  BY DEF BurnFrom, ClearPendingLp, BurnOut, BurnAfter
<1>4. IsSum(ledger, Account, supply) /\ IsSum(staged, User, total)
  BY DEF Redeemable
<1> HIDE DEF b
<1>5. pool' \in [Token -> Nat] /\ res' \in [Token -> Nat]
  BY <1>1, <1>2, <1>3
<1>6. k_last' \in Nat
  BY <1>1, <1>3, MulNat DEF K, Token
<1>7. /\ lp' = [ledger EXCEPT ![PairAddr] = ledger[PairAddr] - b]
      /\ ledger[PairAddr] - b \in Nat /\ lp' \in [Account -> Nat]
      /\ lp'[PairAddr] = ledger[PairAddr] - b /\ supply' \in Nat
      /\ pending' \in [User -> Nat] /\ pendingTotal' \in Nat
      /\ supply - ledger[PairAddr] + (ledger[PairAddr] - b) = supply'
      /\ total - staged[to] + 0 = pendingTotal'
  BY <1>1, <1>2, <1>3
<1>8. IsSum(lp', Account, supply - ledger[PairAddr] + (ledger[PairAddr] - b))
  BY <1>2, <1>4, <1>7, SumUpdate
<1>9. IsSum(pending', User, total - staged[to] + 0)
  BY <1>2, <1>3, <1>4, SumUpdate
<1>10. lp'[PairAddr] >= pendingTotal' + SeedOf(supply')
  BY <1>1, <1>2, <1>3, <1>7 DEF SeedOf
<1>11. LedgerOK(lp, supply)' /\ StagedOK'
  BY <1>7, <1>8, <1>9, <1>10 DEF LedgerOK, StagedOK, SeedOf
<1>12. TypeOK'
  BY <1>3, <1>5, <1>6, <1>7 DEF IInv, TypeOK, AmountsOK, FlagsOK, feeVars, adminVars, guardVars
<1>13. LoanOK'
  BY <1>3, NoLoanOpen
<1> QED
  BY <1>11, <1>12, <1>13 DEF IInv

\* A mint, whatever the pool holds, creates LP.
LEMMA MintRaises ==
    ASSUME supply \in Nat, NEW to, NEW p, MintFrom(to, p)
    PROVE  supply' \in Nat /\ supply' > supply
<1>1. PICK l \in 1..MaxMintPerCall :
          supply' = supply + (IF supply = 0 THEN MinLiquidity ELSE 0) + l
  BY DEF MintFrom
<1> QED
  BY <1>1, MathAssumption, PairAssumption

\* A burn, whatever the ledger, destroys LP.
LEMMA BurnLowers ==
    ASSUME IInv, NEW to \in User, NEW ledger, NEW staged, NEW total,
           Redeemable(ledger, staged, total), BurnFrom(to, ledger, staged, total)
    PROVE  supply' \in Nat /\ supply' < supply
<1> DEFINE b == BurnLp(to, ledger[PairAddr], staged, total)
<1>1. b \in Nat \ {0} /\ b <= supply - MinLiquidity
  BY BurnBounds
<1>2. supply' = supply - b /\ supply \in Nat
  BY DEF BurnFrom, IInv, TypeOK, AmountsOK
<1> HIDE DEF b
<1> QED
  BY <1>1, <1>2, MathAssumption

\* The amounts burn_single_side computes, by name.
ExitShare(n) == [x \in Token |-> burn_amount(n, res[x], supply - MinLiquidity)]
ExitLeft(n) == [x \in Token |-> res[x] - ExitShare(n)[x]]
ExitSwap(n, t) ==
    IF ExitLeft(n)[t] = 0 THEN 0
    ELSE quote_output_amount(ExitShare(n)[Other(t)], ExitLeft(n)[Other(t)], ExitLeft(n)[t], dynFee)

\* They are natural numbers, and neither leg exceeds what is there to pay it.
LEMMA ExitBounds ==
    ASSUME IInv, NEW to \in User, NEW n \in LpAmounts, NEW t \in Token,
           burn_single_side(to, n, t)
    PROVE  /\ ExitShare(n) \in [Token -> Nat] /\ ExitLeft(n) \in [Token -> Nat]
           /\ ExitSwap(n, t) \in Nat /\ ExitSwap(n, t) <= ExitLeft(n)[t]
<1> USE MathAssumption, PairAssumption
<1> DEFINE o == Other(t)
           s == supply - MinLiquidity
<1>1. n \in Nat /\ to \in Account /\ PairAddr \in Account /\ to # PairAddr /\ o \in Token
  BY Accounts DEF Other, Token
<1>2. /\ lp \in [Account -> Nat] /\ lp[PairAddr] \in Nat /\ lp[to] \in Nat /\ supply \in Nat
      /\ res \in [Token -> Nat] /\ pendingTotal \in Nat
      /\ dynFee \in Nat /\ dynFee < BPS
  BY <1>1 DEF IInv, TypeOK, AmountsOK
<1>3. /\ s > 0 /\ supply > 0 /\ n <= lp[to]
      /\ ExitLeft(n)[t] # 0 => ExitLeft(n)[o] > 0
  BY DEF burn_single_side, ExitLeft, ExitShare
<1>4. lp[to] + lp[PairAddr] <= supply
  BY <1>1, <1>2, SumBoundTwo DEF IInv, LedgerOK
<1>5. lp[PairAddr] >= pendingTotal + MinLiquidity
  BY <1>3 DEF IInv, LedgerOK, SeedOf
<1>6. s \in Nat \ {0} /\ n <= s
  BY <1>1, <1>2, <1>3, <1>4, <1>5
<1> HIDE DEF s, o
<1>7. \A x \in Token : burn_amount(n, res[x], s) \in Nat /\ burn_amount(n, res[x], s) <= res[x]
  BY <1>1, <1>2, <1>6, BurnAmountBound
<1>8. ExitShare(n) \in [Token -> Nat] /\ \A x \in Token : ExitShare(n)[x] <= res[x]
  BY <1>7 DEF ExitShare, s
<1>9. ExitLeft(n) \in [Token -> Nat]
  BY <1>2, <1>8 DEF ExitLeft
<1>10. ExitSwap(n, t) \in Nat /\ ExitSwap(n, t) <= ExitLeft(n)[t]
  <2>1. CASE ExitLeft(n)[t] = 0
    BY <2>1 DEF ExitSwap
  <2>2. CASE ExitLeft(n)[t] # 0
    <3>1. /\ ExitLeft(n)[o] \in Nat \ {0} /\ ExitLeft(n)[t] \in Nat
          /\ ExitShare(n)[o] \in Nat
      BY <1>1, <1>3, <1>8, <1>9, <2>2
    <3>2. ExitSwap(n, t)
            = quote_output_amount(ExitShare(n)[o], ExitLeft(n)[o], ExitLeft(n)[t], dynFee)
      BY <2>2 DEF ExitSwap, o
    <3>3. /\ quote_output_amount(ExitShare(n)[o], ExitLeft(n)[o], ExitLeft(n)[t], dynFee) \in Nat
          /\ quote_output_amount(ExitShare(n)[o], ExitLeft(n)[o], ExitLeft(n)[t], dynFee)
                <= ExitLeft(n)[t]
      BY <1>2, <3>1, QuoteBound
    <3> QED
      BY <3>2, <3>3
  <2> QED
    BY <2>1, <2>2
<1> QED
  BY <1>8, <1>9, <1>10

\* burn_single_side, which pays both sides in one token.
LEMMA BurnSingleSideInv ==
    ASSUME IInv, NEW to \in User, NEW n \in LpAmounts, NEW t \in Token,
           burn_single_side(to, n, t)
    PROVE  IInv'
<1> USE MathAssumption, PairAssumption
<1> DEFINE o == Other(t)
           share == ExitShare(n)
           left == ExitLeft(n)
           swap_out == ExitSwap(n, t)
           final == [x \in Token |-> IF x = t THEN left[t] - swap_out ELSE res[o]]
<1>1. n \in Nat /\ to \in Account /\ PairAddr \in Account /\ to # PairAddr /\ o \in Token
  BY Accounts DEF Other, Token
<1>2. /\ lp \in [Account -> Nat] /\ lp[PairAddr] \in Nat /\ lp[to] \in Nat /\ supply \in Nat
      /\ pool \in [Token -> Nat] /\ res \in [Token -> Nat] /\ pendingTotal \in Nat
  BY <1>1 DEF IInv, TypeOK, AmountsOK
<1>3. /\ supply > 0 /\ n <= lp[to] /\ Enter
      /\ share[t] + swap_out <= pool[t]
      /\ lp' = [lp EXCEPT ![to] = @ - n]
      /\ supply' = supply - n
      /\ pool' = [pool EXCEPT ![t] = @ - (share[t] + swap_out)]
      /\ res' = final /\ k_last' = K(final)
      /\ UNCHANGED <<pending, pendingTotal, feeVars, adminVars, guardVars>>
  BY DEF burn_single_side, ExitShare, ExitLeft, ExitSwap
<1>4. IsSum(lp, Account, supply)
  BY DEF IInv, LedgerOK
<1>5. lp[to] + lp[PairAddr] <= supply
  BY <1>1, <1>2, <1>4, SumBoundTwo
<1>6. lp[PairAddr] >= pendingTotal + MinLiquidity
  BY <1>3 DEF IInv, LedgerOK, SeedOf
<1>7. left \in [Token -> Nat] /\ share \in [Token -> Nat]
  BY ExitBounds
<1>8. swap_out \in Nat /\ swap_out <= left[t]
  BY ExitBounds
<1> HIDE DEF o, share, left, swap_out
<1>11. final \in [Token -> Nat] /\ pool' \in [Token -> Nat]
  <2>1. left[t] \in Nat /\ res[o] \in Nat /\ share[t] \in Nat /\ pool[t] \in Nat
    BY <1>1, <1>2, <1>7
  <2>2. left[t] - swap_out \in Nat /\ pool[t] - (share[t] + swap_out) \in Nat
    BY <1>3, <1>8, <2>1
  <2>3. final \in [Token -> Nat]
    BY <2>1, <2>2
  <2>4. pool' \in [Token -> Nat]
    BY <1>2, <1>3, <2>2
  <2> QED
    BY <2>3, <2>4
<1> HIDE DEF final
<1>12. k_last' \in Nat
  BY <1>3, <1>11, MulNat DEF K, Token
<1>13. /\ lp' = [lp EXCEPT ![to] = lp[to] - n]
       /\ lp[to] - n \in Nat /\ lp' \in [Account -> Nat]
       /\ lp'[PairAddr] = lp[PairAddr] /\ supply' \in Nat
       /\ supply - lp[to] + (lp[to] - n) = supply'
  BY <1>1, <1>2, <1>3, <1>5
<1>14. IsSum(lp', Account, supply')
  <2>1. IsSum(lp', Account, supply - lp[to] + (lp[to] - n))
    BY <1>1, <1>2, <1>4, <1>13, SumUpdate
  <2> QED
    BY <1>13, <2>1
<1>15. lp'[PairAddr] >= pendingTotal' + SeedOf(supply')
  BY <1>2, <1>3, <1>6, <1>13 DEF SeedOf
<1>16. LedgerOK(lp, supply)' /\ StagedOK'
  BY <1>3, <1>14, <1>15 DEF LedgerOK, StagedOK, SeedOf, IInv
<1>17. TypeOK'
  BY <1>3, <1>11, <1>12, <1>13 DEF IInv, TypeOK, AmountsOK, FlagsOK, feeVars, adminVars, guardVars
<1>18. LoanOK'
  BY <1>3, NoLoanOpen
<1> QED
  BY <1>16, <1>17, <1>18 DEF IInv

\* Every fee a swap may charge is below 100%.
LEMMA FeesBounded ==
    ASSUME TypeOK
    PROVE  ChargedFees \subseteq 0..BPS /\ ProtocolBps \subseteq 0..BPS
BY MathAssumption, PairAssumption DEF TypeOK, AmountsOK, ChargedFees

\* The fee a swap charges and the protocol's share of it are within the pool's bounds.
LEMMA FeeTypes ==
    ASSUME TypeOK, NEW cut \in [Token -> Nat], SwapFeeEffects(cut)
    PROVE  protocolFee' \in [Token -> Nat] /\ dynFee' \in BaselineFee..MaxFee
BY DEF TypeOK, AmountsOK, SwapFeeEffects

\* swap does not touch LP and leaves natural balances.
LEMMA SwapInv ==
    ASSUME IInv, NEW out \in [Token -> Outs], NEW self \in BOOLEAN, swap(out, self)
    PROVE  IInv'
<1> USE MathAssumption, PairAssumption
<1>1. PICK fee \in ChargedFees, bps \in ProtocolBps :
          /\ SwapAllowed(pool, res, out, self, fee)
          /\ pool' = SwapResult(pool, res, out, self, fee, bps)
          /\ res' = SwapResult(pool, res, out, self, fee, bps)
          /\ k_last' = K(SwapResult(pool, res, out, self, fee, bps))
          /\ SwapFeeEffects(SwapCut(pool, res, out, self, fee, bps))
  BY DEF swap
<1>2. TypeOK /\ fee \in 0..BPS /\ bps \in 0..BPS /\ out \in [Token -> Int]
  BY FeesBounded DEF IInv
<1>3. pool \in [Token -> Nat] /\ res \in [Token -> Nat]
  BY <1>2 DEF TypeOK, AmountsOK
<1>4. /\ SwapCut(pool, res, out, self, fee, bps) \in [Token -> Nat]
      /\ SwapResult(pool, res, out, self, fee, bps) \in [Token -> Nat]
  BY <1>1, <1>2, <1>3, SwapKeepsK
<1>5. k_last' \in Nat
  BY <1>1, <1>4, MulNat DEF K, Token
<1>6. protocolFee' \in [Token -> Nat] /\ dynFee' \in BaselineFee..MaxFee
  BY <1>1, <1>2, <1>4, FeeTypes
<1>7. UNCHANGED <<lpVars, adminVars, guardVars>>
  BY DEF swap
<1>8. TypeOK'
  BY <1>1, <1>2, <1>4, <1>5, <1>6, <1>7
     DEF TypeOK, AmountsOK, FlagsOK, lpVars, adminVars, guardVars
<1> QED
  BY <1>7, <1>8, LedgerUntouched

\* A swap that leaves the balances `swapped` and does not lower K, after which a
\* deposit is credited with l LP at the new ratio.
SwapAndMint(to, swapped, deposit, cut, l) ==
    /\ K(swapped) >= K(res)
    /\ \A x \in Token : swapped[x] # 0
    /\ l = subsequent_liquidity(deposit["A"], deposit["B"], swapped["A"], swapped["B"], supply)
    /\ lp' = [lp EXCEPT ![to] = @ + l] /\ supply' = supply + l
    /\ pool' = swapped
    /\ res' = [x \in Token |-> swapped[x] + deposit[x]]
    /\ k_last' = K([x \in Token |-> swapped[x] + deposit[x]])
    /\ SwapFeeEffects(cut)

\* That is what mint_with_one_token does.
LEMMA OneTokenSteps ==
    ASSUME IInv, NEW to \in User, NEW t \in Token, NEW amount \in OneTokenAmounts,
           mint_with_one_token(to, t, amount)
    PROVE  \E swapped, deposit, cut \in [Token -> Nat], l \in Nat \ {0} :
               SwapAndMint(to, swapped, deposit, cut, l)
<1> USE MathAssumption, PairAssumption
<1> DEFINE o == Other(t)
           swap_in == compute_swap_in_for_single_side(res[t], amount, dynFee)
           swap_out == quote_output_amount(swap_in, res[t], res[o], dynFee)
           deposit == [x \in Token |-> IF x = t THEN amount - swap_in ELSE swap_out]
           out == [x \in Token |-> IF x = t THEN 0 ELSE swap_out]
           funded == [pool EXCEPT ![t] = @ + amount]
           result(fee, bps) == SwapResult(funded, res, out, TRUE, fee, bps)
           minted(fee, bps) == subsequent_liquidity(deposit["A"], deposit["B"],
                                   result(fee, bps)["A"], result(fee, bps)["B"], supply)
           total(fee, bps) == [x \in Token |-> result(fee, bps)[x] + deposit[x]]
<1>1. /\ amount \in Nat /\ o \in Token /\ "A" \in Token /\ "B" \in Token
      /\ pool \in [Token -> Nat] /\ res \in [Token -> Nat] /\ supply \in Nat
      /\ dynFee \in Nat /\ dynFee < BPS /\ TypeOK
  BY DEF Other, Token, IInv, TypeOK, AmountsOK
<1>2. /\ swap_in \in 1..(amount - 1) /\ supply > 0 /\ Enter
      /\ \A x \in Token : res[x] > 0
      /\ UNCHANGED <<pending, pendingTotal, adminVars, guardVars>>
  BY DEF mint_with_one_token
<1>3. PICK fee \in ChargedFees, bps \in ProtocolBps :
          /\ SwapAllowed(funded, res, out, TRUE, fee)
          /\ SubsequentLiquidityFits(deposit["A"], deposit["B"],
                 result(fee, bps)["A"], result(fee, bps)["B"], supply)
          /\ minted(fee, bps) > 0
          /\ lp' = [lp EXCEPT ![to] = @ + minted(fee, bps)]
          /\ supply' = supply + minted(fee, bps)
          /\ pool' = result(fee, bps)
          /\ res' = total(fee, bps)
          /\ k_last' = K(total(fee, bps))
          /\ SwapFeeEffects(SwapCut(funded, res, out, TRUE, fee, bps))
  BY DEF mint_with_one_token
<1> HIDE DEF swap_in, o
<1>4. swap_out \in Nat
  <2>1. swap_in \in Nat /\ res[t] \in Nat \ {0} /\ res[o] \in Nat
    BY <1>1, <1>2
  <2> QED
    BY <1>1, <2>1, QuoteBound
<1> HIDE DEF swap_out
<1>5. /\ deposit \in [Token -> Nat] /\ out \in [Token -> Int] /\ funded \in [Token -> Nat]
  BY <1>1, <1>2, <1>4
<1> HIDE DEF deposit, out, funded
<1>6. fee \in 0..BPS /\ bps \in 0..BPS
  BY <1>1, FeesBounded
<1>7. /\ SwapCut(funded, res, out, TRUE, fee, bps) \in [Token -> Nat]
      /\ result(fee, bps) \in [Token -> Nat] /\ K(result(fee, bps)) >= K(res)
  BY <1>1, <1>3, <1>5, <1>6, SwapKeepsK
<1> HIDE DEF result
<1>8. minted(fee, bps) \in Nat
  <2>1. /\ result(fee, bps)["A"] \in Nat \ {0} /\ result(fee, bps)["B"] \in Nat \ {0}
        /\ deposit["A"] \in Nat /\ deposit["B"] \in Nat
    BY <1>1, <1>3, <1>5, <1>7 DEF SubsequentLiquidityFits
  <2>2. deposit["A"] * supply \in Nat /\ deposit["B"] * supply \in Nat
    BY <1>1, <2>1, MulNat
  <2>3. /\ (deposit["A"] * supply) \div result(fee, bps)["A"] \in Nat
        /\ (deposit["B"] * supply) \div result(fee, bps)["B"] \in Nat
    BY <2>1, <2>2, DivFloor
  <2> QED
    BY <2>3 DEF subsequent_liquidity, Least
<1>9. \A x \in Token : result(fee, bps)[x] # 0
  BY <1>3 DEF SubsequentLiquidityFits, Token
<1>10. minted(fee, bps) \in Nat \ {0}
  BY <1>3, <1>8
<1>11. SwapAndMint(to, result(fee, bps), deposit, SwapCut(funded, res, out, TRUE, fee, bps),
                   minted(fee, bps))
  BY <1>3, <1>7, <1>9 DEF SwapAndMint
<1> HIDE DEF minted
<1> QED
  BY <1>5, <1>7, <1>10, <1>11

\* A one-token deposit creates LP.
LEMMA OneTokenRaises ==
    ASSUME IInv, NEW to \in User, NEW t \in Token, NEW amount \in OneTokenAmounts,
           mint_with_one_token(to, t, amount)
    PROVE  supply' > supply /\ supply' # supply
<1>1. PICK swapped, deposit, cut \in [Token -> Nat], l \in Nat \ {0} :
          SwapAndMint(to, swapped, deposit, cut, l)
  BY OneTokenSteps
<1>2. supply' = supply + l /\ supply \in Nat
  BY <1>1 DEF SwapAndMint, IInv, TypeOK, AmountsOK
<1> QED
  BY <1>2

\* mint_with_one_token: the inner swap and then the mint.
LEMMA MintOneTokenInv ==
    ASSUME IInv, NEW to \in User, NEW t \in Token, NEW amount \in OneTokenAmounts,
           mint_with_one_token(to, t, amount)
    PROVE  IInv'
<1>1. PICK swapped, deposit, cut \in [Token -> Nat], l \in Nat \ {0} :
          SwapAndMint(to, swapped, deposit, cut, l)
  BY OneTokenSteps
<1> DEFINE total == [x \in Token |-> swapped[x] + deposit[x]]
<1>2. /\ supply > 0 /\ Enter
      /\ UNCHANGED <<pending, pendingTotal, adminVars, guardVars>>
  BY DEF mint_with_one_token
<1>3. TypeOK /\ supply \in Nat
  BY DEF IInv, TypeOK, AmountsOK
<1>4. total \in [Token -> Nat]
  OBVIOUS
<1>5. res' = total /\ k_last' = K(total) /\ pool' = swapped /\ SwapFeeEffects(cut)
  BY <1>1 DEF SwapAndMint
<1> HIDE DEF total
<1>6. k_last' \in Nat
  BY <1>4, <1>5, MulNat DEF K, Token
<1>7. protocolFee' \in [Token -> Nat] /\ dynFee' \in BaselineFee..MaxFee
  BY <1>3, <1>5, FeeTypes
<1>8. /\ lp' = [lp EXCEPT ![PairAddr] = @ + 0, ![to] = @ + l]
      /\ supply' = supply + 0 + l
  <2>1. lp \in [Account -> Nat] /\ lp[PairAddr] \in Nat /\ to \in Account /\ to # PairAddr
    BY Accounts DEF IInv, TypeOK, AmountsOK
  <2>2. lp[PairAddr] + 0 = lp[PairAddr]
    BY <2>1
  <2>3. [lp EXCEPT ![PairAddr] = lp[PairAddr] + 0] = lp
    BY <2>1, <2>2
  <2>4. [lp EXCEPT ![PairAddr] = @ + 0, ![to] = @ + l]
          = [[lp EXCEPT ![PairAddr] = lp[PairAddr] + 0] EXCEPT ![to] = @ + l]
    BY <2>1
  <2>5. supply + 0 = supply
    BY <1>3
  <2> QED
    BY <1>1, <2>3, <2>4, <2>5 DEF SwapAndMint
<1>9. /\ lp' \in [Account -> Nat] /\ supply' \in Nat
      /\ LedgerOK(lp, supply)' /\ StagedOK'
  <2>1. 0 \in Nat /\ (supply = 0 => 0 >= MinLiquidity)
    BY <1>2, <1>3
  <2> QED
    BY <1>2, <1>8, <2>1, IssueLp
<1>10. TypeOK'
  BY <1>1, <1>2, <1>3, <1>4, <1>5, <1>6, <1>7, <1>9
     DEF TypeOK, AmountsOK, FlagsOK, adminVars, guardVars
<1>11. LoanOK'
  BY <1>2, NoLoanOpen
<1> QED
  BY <1>9, <1>10, <1>11 DEF IInv

\* Tokens sent to the pool from outside.
LEMMA TokenInInv ==
    ASSUME IInv, NEW t \in Token, NEW n \in Amounts, TokenIn(t, n)
    PROVE  IInv'
<1> USE MathAssumption, PairAssumption
<1>1. n \in Nat /\ pool \in [Token -> Nat] /\ pool' = [pool EXCEPT ![t] = @ + n]
  BY DEF IInv, TypeOK, AmountsOK, TokenIn
<1>2. pool' \in [Token -> Nat]
  BY <1>1
<1>3. UNCHANGED <<res, k_last, lpVars, feeVars, adminVars, guardVars>>
  BY DEF TokenIn
<1>4. TypeOK'
  BY <1>2, <1>3
     DEF IInv, TypeOK, AmountsOK, FlagsOK, lpVars, feeVars, adminVars, guardVars
<1> QED
  BY <1>3, <1>4, LedgerUntouched

\* sync records the balances as reserves.
LEMMA SyncInv ==
    ASSUME IInv, sync
    PROVE  IInv'
<1>1. pool \in [Token -> Nat] /\ res' = pool /\ k_last' = K(pool)
  BY DEF IInv, TypeOK, AmountsOK, sync
<1>2. k_last' \in Nat
  BY <1>1, MulNat DEF K, Token
<1>3. UNCHANGED <<pool, lpVars, feeVars, adminVars, guardVars>>
  BY DEF sync
<1>4. TypeOK'
  BY <1>1, <1>2, <1>3
     DEF IInv, TypeOK, AmountsOK, FlagsOK, lpVars, feeVars, adminVars, guardVars
<1> QED
  BY <1>3, <1>4, LedgerUntouched

\* The fee of a flash loan is a natural number.
LEMMA FlashFeeNat ==
    ASSUME NEW amount \in Nat, NEW fee \in 0..BPS
    PROVE  compute_flash_fee(amount, fee) \in Nat
<1> USE MathAssumption
<1> DEFINE rate == IF fee > FlashFloorBps THEN fee ELSE FlashFloorBps
<1>1. rate \in Nat
  OBVIOUS
<1> HIDE DEF rate
<1>2. (amount * rate) \div BPS \in Nat
  BY <1>1, MulNat, DivFloor
<1> QED
  BY <1>2 DEF compute_flash_fee, rate

\* Opening a loan stores a snapshot for which the invariant holds.
LEMMA LoanOpenInv ==
    ASSUME IInv, NEW amount \in [Token -> LoanAmounts \cup {0}], flash_loan_open(amount)
    PROVE  IInv'
<1> USE MathAssumption, PairAssumption
<1> DEFINE fee == [t \in Token |-> IF amount[t] > 0
                                   THEN compute_flash_fee(amount[t], BaselineFee) ELSE 0]
<1>1. amount \in [Token -> Nat] /\ pool \in [Token -> Nat] /\ BaselineFee \in 0..BPS
  <2>1. LoanAmounts \cup {0} \subseteq Nat
    OBVIOUS
  <2>2. amount \in [Token -> Nat]
    BY <2>1
  <2>3. BaselineFee \in 0..BPS
    OBVIOUS
  <2> QED
    BY <2>2, <2>3 DEF IInv, TypeOK, AmountsOK
<1>2. fee \in [Token -> Nat]
  BY <1>1, FlashFeeNat
<1> HIDE DEF fee
<1>3. /\ locked' = TRUE
      /\ loan' = [open |-> TRUE, amount |-> amount, fee |-> fee,
                  pool |-> pool, lp |-> lp, supply |-> supply]
      /\ pool' = [t \in Token |-> pool[t] - amount[t]]
      /\ \A t \in Token : amount[t] <= pool[t]
      /\ UNCHANGED <<res, k_last, lpVars, feeVars, adminVars>>
  BY DEF flash_loan_open, fee
<1>4. pool' \in [Token -> Nat]
  BY <1>1, <1>3
<1>5. loan' \in Loan
  BY <1>1, <1>2, <1>3 DEF Loan, IInv, TypeOK, AmountsOK
<1>6. AmountsOK'
  BY <1>3, <1>4 DEF IInv, TypeOK, AmountsOK, lpVars, feeVars
<1>7. FlagsOK'
  BY <1>3, <1>5 DEF IInv, TypeOK, FlagsOK, adminVars
<1>8. LedgerOK(lp, supply)' /\ StagedOK'
  BY <1>3 DEF IInv, LedgerOK, StagedOK, SeedOf, lpVars
<1>9. LoanOK'
  <2>1. loan'.open = TRUE /\ loan'.lp = lp /\ loan'.supply = supply /\ pendingTotal' = pendingTotal
    BY <1>3 DEF lpVars
  <2> QED
    BY <1>3, <2>1 DEF LoanOK, IInv, LedgerOK, SeedOf
<1> QED
  BY <1>6, <1>7, <1>8, <1>9 DEF IInv, TypeOK

\* The record of no loan is well formed.
LEMMA NoLoanType == NoLoan \in Loan /\ NoLoan.open = FALSE
BY DEF NoLoan, Loan, Zero

\* Settling keeps the ledger the callback left.
LEMMA LoanSettleInv ==
    ASSUME IInv, flash_loan_settle
    PROVE  IInv'
<1>1. /\ pool \in [Token -> Nat] /\ res' = pool /\ k_last' = K(pool)
      /\ locked' = FALSE /\ loan' = NoLoan
      /\ UNCHANGED <<pool, lpVars, feeVars, adminVars>>
  BY DEF IInv, TypeOK, AmountsOK, flash_loan_settle
<1>2. k_last' \in Nat
  BY <1>1, MulNat DEF K, Token
<1>3. AmountsOK'
  BY <1>1, <1>2 DEF IInv, TypeOK, AmountsOK, lpVars, feeVars
<1>4. FlagsOK'
  BY <1>1, NoLoanType DEF IInv, TypeOK, FlagsOK, adminVars
<1>5. LedgerOK(lp, supply)' /\ StagedOK'
  BY <1>1 DEF IInv, LedgerOK, StagedOK, SeedOf, lpVars
<1>6. LoanOK'
  BY <1>1, NoLoanType DEF LoanOK
<1> QED
  BY <1>3, <1>4, <1>5, <1>6 DEF IInv, TypeOK

\* Undoing a loan returns to its snapshot, for which LoanOK holds.
LEMMA LoanAbortInv ==
    ASSUME IInv, flash_loan_abort
    PROVE  IInv'
<1>1. /\ pool' = loan.pool /\ lp' = loan.lp /\ supply' = loan.supply
      /\ locked' = FALSE /\ loan' = NoLoan /\ loan.open
      /\ UNCHANGED <<res, k_last, pending, pendingTotal, feeVars, adminVars>>
  BY DEF flash_loan_abort
<1>2. pool' \in [Token -> Nat] /\ lp' \in [Account -> Nat] /\ supply' \in Nat
  BY <1>1 DEF IInv, TypeOK, FlagsOK, Loan
<1>3. AmountsOK'
  BY <1>1, <1>2 DEF IInv, TypeOK, AmountsOK, feeVars
<1>4. FlagsOK'
  BY <1>1, NoLoanType DEF IInv, TypeOK, FlagsOK, adminVars
<1>5. LedgerOK(lp, supply)' /\ StagedOK'
  BY <1>1 DEF IInv, LoanOK, LedgerOK, StagedOK, SeedOf
<1>6. LoanOK'
  BY <1>1, NoLoanType DEF LoanOK
<1> QED
  BY <1>3, <1>4, <1>5, <1>6 DEF IInv, TypeOK

\* The switches that the factory sets.
LEMMA AdminInv ==
    ASSUME IInv, NEW b \in BOOLEAN, set_frozen(b) \/ set_lp_token_paused(b)
    PROVE  IInv'
<1>1. UNCHANGED <<pool, res, k_last, lpVars, feeVars, guardVars>>
  BY DEF set_frozen, set_lp_token_paused
<1>2. AmountsOK'
  BY <1>1 DEF IInv, TypeOK, AmountsOK, lpVars, feeVars
<1>3. FlagsOK'
  <2>1. frozen' \in BOOLEAN /\ lpPaused' \in BOOLEAN
    BY Zenon DEF IInv, TypeOK, FlagsOK, set_frozen, set_lp_token_paused
  <2> QED
    BY <1>1, <2>1 DEF IInv, TypeOK, FlagsOK, guardVars
<1> QED
  BY <1>1, <1>2, <1>3, LedgerUntouched DEF TypeOK

-----------------------------------------------------------------------------

\* What the router adds to a pool are natural amounts.
LEMMA OptimalNat ==
    ASSUME TypeOK, NEW desired \in [Token -> Nat], NEW least, OptimalAmountsAllowed(desired, least)
    PROVE  compute_optimal_amounts(desired) \in [Token -> Nat]
<1>1. CASE res = Zero
  BY <1>1 DEF compute_optimal_amounts
<1>2. CASE res # Zero
  <2>1. /\ "A" \in Token /\ "B" \in Token /\ Other("A") = "B" /\ Other("B") = "A"
        /\ res["A"] \in Nat \ {0} /\ res["B"] \in Nat
        /\ desired["A"] \in Nat /\ desired["B"] \in Nat
    BY <1>2 DEF TypeOK, AmountsOK, OptimalAmountsAllowed, Token, Other
  <2>2. Matching("A", desired["A"]) \in Nat
    BY <2>1, MulNat, DivFloor DEF Matching
  <2>3. res["B"] # 0 => Matching("B", desired["B"]) \in Nat
    BY <2>1, MulNat, DivFloor DEF Matching
  <2>4. ~(Matching("A", desired["A"]) <= desired["B"]) => res["B"] # 0
    BY <1>2 DEF OptimalAmountsAllowed
  <2> QED
    BY <1>2, <2>1, <2>2, <2>3, <2>4 DEF compute_optimal_amounts
<1> QED
  BY <1>1, <1>2

\* What the pool holds when add_liquidity calls mint.
Funded(desired) == [t \in Token |-> pool[t] + compute_optimal_amounts(desired)[t]]

\* add_liquidity is mint by a pool that holds natural amounts.
LEMMA AddIsMint ==
    ASSUME TypeOK, NEW to, NEW desired \in [Token -> DesiredAmounts], NEW least,
           add_liquidity(to, desired, least)
    PROVE  Funded(desired) \in [Token -> Nat] /\ MintFrom(to, Funded(desired))
<1>1. desired \in [Token -> Nat] /\ pool \in [Token -> Nat]
  BY RouterLiquidityAssumption DEF TypeOK, AmountsOK
<1>2. OptimalAmountsAllowed(desired, least) /\ MintFrom(to, Funded(desired))
  BY DEF add_liquidity, Funded
<1>3. compute_optimal_amounts(desired) \in [Token -> Nat]
  BY <1>1, <1>2, OptimalNat
<1>4. Funded(desired) \in [Token -> Nat]
  BY <1>1, <1>3 DEF Funded
<1> QED
  BY <1>2, <1>4

\* remove_liquidity is burn from a ledger to which the owner's LP was just staged.
LEMMA RemoveIsBurn ==
    ASSUME IInv, NEW u \in User, NEW n \in LpAmounts, NEW least, remove_liquidity(u, n, least)
    PROVE  \E ledger, staged, total :
               /\ Redeemable(ledger, staged, total) /\ BurnFrom(u, ledger, staged, total)
               /\ ledger[PairAddr] = lp[PairAddr] + n
<1>1. n \in Nat /\ n <= lp[u]
  BY PairAssumption DEF remove_liquidity
<1>2. Redeemable([lp EXCEPT ![u] = @ - n, ![PairAddr] = @ + n],
                 [pending EXCEPT ![u] = @ + n], pendingTotal + n)
  BY <1>1, RemovalRedeemable
<1>3. [lp EXCEPT ![u] = @ - n, ![PairAddr] = @ + n][PairAddr] = lp[PairAddr] + n
  BY Accounts DEF IInv, TypeOK, AmountsOK
<1>4. BurnFrom(u, [lp EXCEPT ![u] = @ - n, ![PairAddr] = @ + n],
               [pending EXCEPT ![u] = @ + n], pendingTotal + n)
  BY DEF remove_liquidity
<1> QED
  BY <1>2, <1>3, <1>4

\* The router's calls.
LEMMA RouterInv ==
    ASSUME IInv, RouterStep
    PROVE  IInv'
<1>1. ASSUME NEW u \in User, NEW desired \in [Token -> DesiredAmounts], NEW least,
             add_liquidity(u, desired, least)
      PROVE  IInv'
  BY <1>1, AddIsMint, MintInv DEF IInv
<1>2. ASSUME NEW u \in User, NEW n \in LpAmounts, NEW least, remove_liquidity(u, n, least)
      PROVE  IInv'
  BY <1>2, RemoveIsBurn, BurnInv
<1> QED
  BY <1>1, <1>2 DEF RouterStep

\* Every step of the pool and of the router keeps the invariant.
LEMMA StepInv == IInv /\ [RouterNext]_vars => IInv'
<1> SUFFICES ASSUME IInv, [RouterNext]_vars PROVE IInv'
  OBVIOUS
<1>1. CASE LpStep
  <2>1. ASSUME NEW u \in User, NEW n \in BurnAmounts, n < 0 => supply > 0, LpBurn(u, n)
        PROVE  IInv'
    BY <2>1, LpBurnInv
  <2>2. ASSUME NEW u \in User, NEW n \in LpAmounts, deposit_lp(u, n) PROVE IInv'
    BY <2>2, DepositInv
  <2>3. ASSUME NEW u \in User, NEW n \in LpAmounts, NEW v \in Account \ {u}, LpTransfer(u, v, n)
        PROVE  IInv'
    BY <2>3, LpTransferInv
  <2> QED
    BY <1>1, <2>1, <2>2, <2>3 DEF LpStep
<1>2. CASE LiquidityStep
  <2>1. ASSUME NEW u \in User, mint(u) PROVE IInv'
    BY <2>1, MintInv DEF mint, IInv, TypeOK, AmountsOK
  <2>2. ASSUME NEW u \in User, burn(u) PROVE IInv'
    BY <2>2, OwnRedeemable, BurnInv DEF burn
  <2> QED
    BY <1>2, <2>1, <2>2, MintOneTokenInv, BurnSingleSideInv DEF LiquidityStep
<1>3. CASE TradeStep
  BY <1>3, TokenInInv, SwapInv, SyncInv DEF TradeStep
<1>4. CASE LoanStep
  BY <1>4, LoanOpenInv, LoanSettleInv, LoanAbortInv DEF LoanStep
<1>5. CASE AdminStep
  BY <1>5, AdminInv DEF AdminStep
<1>6. CASE UNCHANGED vars
  <2>1. TypeOK'
    BY <1>6 DEF IInv, TypeOK, AmountsOK, FlagsOK, vars, lpVars, feeVars, adminVars, guardVars
  <2> QED
    BY <1>6, <2>1, LedgerUntouched DEF vars
<1>7. CASE RouterStep
  BY <1>7, RouterInv
<1> QED
  BY <1>1, <1>2, <1>3, <1>4, <1>5, <1>6, <1>7 DEF Next, RouterNext

\* What is proved below of the pool with its router also holds of the pool alone.
THEOREM PoolAlone == Spec => RouterSpec
<1>1. [Next]_vars => [RouterNext]_vars
  BY DEF RouterNext
<1> QED
  BY <1>1, PTL DEF Spec, RouterSpec

\* The inductive invariant holds in every reachable state of every pool.
THEOREM Invariance == RouterSpec => []IInv
<1>1. Init => IInv
  BY InitInv
<1>2. IInv /\ [RouterNext]_vars => IInv'
  BY StepInv
<1> QED
  BY <1>1, <1>2, PTL DEF RouterSpec

\* Every quantity the pair stores stays a natural number and the dynamic fee
\* stays within its bounds: no subtraction of mint, burn, swap, a one-token call
\* or a rolled-back loan goes below zero, whatever the users, fees and amounts.
THEOREM TypeCorrect == RouterSpec => []TypeOK
<1>1. IInv => TypeOK
  BY DEF IInv
<1> QED
  BY <1>1, Invariance, PTL

\* burn never pays out of the seed or out of another user's staged LP: the pool
\* always holds both, whoever stages, transfers, burns or borrows in between.
THEOREM SeedAlwaysLocked == RouterSpec => []SeedLocked
<1>1. IInv => SeedLocked
  BY MathAssumption, Accounts DEF IInv, TypeOK, AmountsOK, LedgerOK, SeedOf, SeedLocked
<1> QED
  BY <1>1, Invariance, PTL

\* The LP supply is the sum of all balances, the pool's own included, whatever
\* mints, burns, transfers and rolled-back loans led there.
THEOREM SupplyAlwaysSum == RouterSpec => []SupplyIsSum
<1>1. IInv => SupplyIsSum
  BY Accounts, SumIsSumFunction DEF IInv, TypeOK, AmountsOK, LedgerOK, SupplyIsSum
<1> QED
  BY <1>1, Invariance, PTL

\* What the pool counts as staged is the sum of what each user staged.
THEOREM PendingTotalAlwaysSum == RouterSpec => []PendingTotalIsSum
<1>1. IInv => PendingTotalIsSum
  BY PairAssumption, SumIsSumFunction DEF IInv, TypeOK, AmountsOK, StagedOK, PendingTotalIsSum
<1> QED
  BY <1>1, Invariance, PTL

-----------------------------------------------------------------------------
(***************************************************************************)
(* Reserves, holdings and K.                                                *)
(***************************************************************************)

\* k_last is never stale: every entry point that writes a reserve writes the
\* product of the new reserves with it.
THEOREM KLastAlwaysCurrent == RouterSpec => []KLastCurrent
<1>1. Init => KLastCurrent
  BY DEF Init, KLastCurrent, K, Zero, Token
<1>2. KLastCurrent /\ [RouterNext]_vars => KLastCurrent'
  <2> SUFFICES ASSUME KLastCurrent, [RouterNext]_vars PROVE k_last' = K(res')
    BY DEF KLastCurrent, K
  <2>1. CASE UNCHANGED <<res, k_last>>
    BY <2>1 DEF KLastCurrent
  <2>2. CASE LpStep
    BY <2>1, <2>2 DEF LpStep, LpTransfer, LpBurn, deposit_lp
  <2>3. CASE LiquidityStep
    <3>1. ASSUME NEW u \in User, mint(u) PROVE k_last' = K(res')
      BY <3>1 DEF mint, MintFrom
    <3>2. ASSUME NEW u \in User, burn(u) PROVE k_last' = K(res')
      BY <3>2 DEF burn, BurnFrom
    <3>3. ASSUME NEW u \in User, NEW t \in Token, NEW n \in OneTokenAmounts,
                 mint_with_one_token(u, t, n)
          PROVE  k_last' = K(res')
      BY <3>3 DEF mint_with_one_token
    <3>4. ASSUME NEW u \in User, NEW t \in Token, NEW n \in LpAmounts,
                 burn_single_side(u, n, t)
          PROVE  k_last' = K(res')
      BY <3>4 DEF burn_single_side
    <3> QED
      BY <2>3, <3>1, <3>2, <3>3, <3>4 DEF LiquidityStep
  <2>4. CASE TradeStep
    <3>1. ASSUME NEW out \in [Token -> Outs], NEW self \in BOOLEAN, swap(out, self)
          PROVE  k_last' = K(res')
      BY <3>1 DEF swap
    <3>2. ASSUME sync PROVE k_last' = K(res')
      BY <3>2 DEF sync
    <3>3. ASSUME NEW t \in Token, NEW n \in Amounts, TokenIn(t, n) PROVE k_last' = K(res')
      BY <2>1, <3>3 DEF TokenIn
    <3> QED
      BY <2>4, <3>1, <3>2, <3>3 DEF TradeStep
  <2>5. CASE LoanStep
    BY <2>1, <2>5 DEF LoanStep, flash_loan_open, flash_loan_settle, flash_loan_abort
  <2>6. CASE AdminStep
    BY <2>1, <2>6 DEF AdminStep, set_frozen, set_lp_token_paused
  <2>7. CASE RouterStep
    <3>1. ASSUME NEW u, NEW desired, NEW least, add_liquidity(u, desired, least)
          PROVE  k_last' = K(res')
      BY <3>1 DEF add_liquidity, MintFrom
    <3>2. ASSUME NEW u, NEW n, NEW least, remove_liquidity(u, n, least)
          PROVE  k_last' = K(res')
      BY <3>2 DEF remove_liquidity, BurnFrom
    <3> QED
      BY <2>7, <3>1, <3>2 DEF RouterStep
  <2>8. CASE UNCHANGED vars
    BY <2>1, <2>8 DEF vars
  <2> QED
    BY <2>2, <2>3, <2>4, <2>5, <2>6, <2>7, <2>8 DEF Next, RouterNext
<1> QED
  BY <1>1, <1>2, PTL DEF RouterSpec

\* The invariant in a pool whose reserves are covered.
BackedInv == IInv /\ ReservesBacked

\* After a swap the reserves are the balances.
LEMMA BackedSwap ==
    ASSUME NEW out \in [Token -> Outs], NEW self \in BOOLEAN, swap(out, self), IInv
    PROVE  \A t \in Token : res'[t] <= pool'[t]
<1>1. IInv'
  BY SwapInv
<1>2. pool' \in [Token -> Nat] /\ res' = pool'
  BY <1>1 DEF IInv, TypeOK, AmountsOK, swap
<1> QED
  BY <1>2

\* burn pays from both the balances and the reserves.
LEMMA BackedBurn ==
    ASSUME BackedInv, NEW to \in User, NEW ledger, NEW staged, NEW total,
           Redeemable(ledger, staged, total), BurnFrom(to, ledger, staged, total)
    PROVE  \A t \in Token : res'[t] <= pool'[t]
<1> DEFINE b == BurnLp(to, ledger[PairAddr], staged, total)
<1>1. /\ pool' = [t \in Token |-> pool[t] - BurnOut(b)[t]]
      /\ res' = [t \in Token |-> res[t] - BurnOut(b)[t]]
      /\ Enter
  BY DEF BurnFrom, BurnOut
<1>2. BurnOut(b) \in [Token -> Nat]
  BY BurnBounds DEF BackedInv
<1>3. pool \in [Token -> Nat] /\ res \in [Token -> Nat]
  BY DEF BackedInv, IInv, TypeOK, AmountsOK
<1>4. \A t \in Token : res[t] <= pool[t]
  BY <1>1 DEF BackedInv, ReservesBacked, Enter, IInv, LoanOK
<1> HIDE DEF b
<1> QED
  BY <1>1, <1>2, <1>3, <1>4

\* burn_single_side pays one token from both.
LEMMA BackedSingleSide ==
    ASSUME NEW to \in User, NEW n \in LpAmounts, NEW t \in Token,
           burn_single_side(to, n, t), BackedInv
    PROVE  \A x \in Token : res'[x] <= pool'[x]
<1> DEFINE share == ExitShare(n)
           left == ExitLeft(n)
           swap_out == ExitSwap(n, t)
<1>1. /\ pool' = [pool EXCEPT ![t] = @ - (share[t] + swap_out)]
      /\ res' = [x \in Token |-> IF x = t THEN left[t] - swap_out ELSE res[Other(t)]]
      /\ Enter
  BY DEF burn_single_side, ExitShare, ExitLeft, ExitSwap
<1>2. share \in [Token -> Nat] /\ left \in [Token -> Nat] /\ swap_out \in Nat
  BY ExitBounds DEF BackedInv
<1>3. left[t] = res[t] - share[t]
  BY DEF ExitLeft
<1>4. pool \in [Token -> Nat] /\ res \in [Token -> Nat]
  BY DEF BackedInv, IInv, TypeOK, AmountsOK
<1>5. \A x \in Token : res[x] <= pool[x]
  BY <1>1 DEF BackedInv, ReservesBacked, Enter, IInv, LoanOK
<1> HIDE DEF share, left, swap_out
<1>6. SUFFICES ASSUME NEW x \in Token PROVE res'[x] <= pool'[x]
  OBVIOUS
<1>7. CASE x = t
  BY <1>1, <1>2, <1>3, <1>4, <1>5, <1>7
<1>8. CASE x # t
  <2>1. Other(t) = x
    BY <1>8 DEF Other, Token
  <2> QED
    BY <1>1, <1>4, <1>5, <1>8, <2>1
<1> QED
  BY <1>7, <1>8

\* A step in which nobody calls mint_with_one_token keeps the reserves covered.
OneTokenStep ==
    \E u \in User, t \in Token, n \in OneTokenAmounts : mint_with_one_token(u, t, n)

LEMMA BackedStep ==
    ASSUME BackedInv, [RouterNext]_vars, ~OneTokenStep
    PROVE  BackedInv'
<1>1. IInv' /\ IInv
  BY StepInv DEF BackedInv
<1>2. /\ pool \in [Token -> Nat] /\ res \in [Token -> Nat]
      /\ pool' \in [Token -> Nat] /\ res' \in [Token -> Nat]
  BY <1>1 DEF IInv, TypeOK, AmountsOK
<1>3. ASSUME Enter, UNCHANGED guardVars, \A t \in Token : res'[t] <= pool'[t]
      PROVE  BackedInv'
  BY <1>1, <1>3 DEF BackedInv, ReservesBacked, Enter, guardVars, IInv, LoanOK
<1>4. ASSUME UNCHANGED <<pool, res, guardVars>> PROVE BackedInv'
  BY <1>1, <1>4 DEF BackedInv, ReservesBacked, guardVars
<1>5. CASE LpStep
  BY <1>4, <1>5 DEF LpStep, LpTransfer, LpBurn, deposit_lp
<1>6. ASSUME NEW u, NEW p, MintFrom(u, p) PROVE BackedInv'
  BY <1>2, <1>3, <1>6 DEF MintFrom
<1>7. ASSUME NEW u \in User, NEW ledger, NEW staged, NEW total,
             BurnFrom(u, ledger, staged, total), Redeemable(ledger, staged, total)
      PROVE  BackedInv'
  BY <1>3, <1>7, BackedBurn DEF BurnFrom
<1>8. CASE LiquidityStep
  <2>1. ASSUME NEW u \in User, mint(u) PROVE BackedInv'
    BY <1>6, <2>1 DEF mint
  <2>2. ASSUME NEW u \in User, burn(u) PROVE BackedInv'
    BY <1>1, <1>7, <2>2, OwnRedeemable DEF burn
  <2>3. ASSUME NEW u \in User, NEW t \in Token, NEW n \in LpAmounts, burn_single_side(u, n, t)
        PROVE  BackedInv'
    BY <1>3, <2>3, BackedSingleSide DEF burn_single_side
  <2> QED
    BY <1>8, <2>1, <2>2, <2>3 DEF LiquidityStep, OneTokenStep
<1>9. CASE TradeStep
  <2>1. ASSUME NEW t \in Token, NEW n \in Amounts, TokenIn(t, n) PROVE BackedInv'
    <3>1. n \in Nat /\ pool' = [pool EXCEPT ![t] = @ + n]
      BY <2>1, PairAssumption DEF TokenIn
    <3>2. \A x \in Token : pool'[x] >= pool[x]
      BY <1>2, <3>1
    <3>3. UNCHANGED <<res, locked, loan>>
      BY <2>1 DEF TokenIn, guardVars
    <3> QED
      BY <1>1, <1>2, <3>2, <3>3 DEF BackedInv, ReservesBacked
  <2>2. ASSUME NEW out \in [Token -> Outs], NEW self \in BOOLEAN, swap(out, self)
        PROVE  BackedInv'
    BY <1>1, <1>3, <2>2, BackedSwap DEF swap
  <2>3. ASSUME sync PROVE BackedInv'
    BY <1>2, <1>3, <2>3 DEF sync
  <2> QED
    BY <1>9, <2>1, <2>2, <2>3 DEF TradeStep
<1>10. CASE LoanStep
  <2>1. ASSUME NEW amount \in [Token -> LoanAmounts \cup {0}], flash_loan_open(amount)
        PROVE  BackedInv'
    BY <1>1, <2>1 DEF BackedInv, ReservesBacked, flash_loan_open, Enter, IInv, LoanOK
  <2>2. ASSUME flash_loan_settle PROVE BackedInv'
    BY <1>1, <1>2, <2>2, NoLoanType DEF BackedInv, ReservesBacked, flash_loan_settle
  <2>3. ASSUME flash_loan_abort PROVE BackedInv'
    BY <1>1, <2>3, NoLoanType DEF BackedInv, ReservesBacked, flash_loan_abort
  <2> QED
    BY <1>10, <2>1, <2>2, <2>3 DEF LoanStep
<1>11. CASE AdminStep
  BY <1>4, <1>11 DEF AdminStep, set_frozen, set_lp_token_paused
<1>12. CASE RouterStep
  <2>1. ASSUME NEW u \in User, NEW desired \in [Token -> DesiredAmounts], NEW least,
               add_liquidity(u, desired, least)
        PROVE  BackedInv'
    BY <1>1, <1>6, <2>1, AddIsMint DEF IInv
  <2>2. ASSUME NEW u \in User, NEW n \in LpAmounts, NEW least, remove_liquidity(u, n, least)
        PROVE  BackedInv'
    BY <1>1, <1>7, <2>2, RemoveIsBurn
  <2> QED
    BY <1>12, <2>1, <2>2 DEF RouterStep
<1>13. CASE UNCHANGED vars
  BY <1>4, <1>13 DEF vars
<1> QED
  BY <1>5, <1>8, <1>9, <1>10, <1>11, <1>12, <1>13 DEF Next, RouterNext

\* Of all calls only mint_with_one_token may leave reserves that the pool does not
\* hold, whatever fees, cuts, negative outputs, donations and rolled-back loans do.
THEOREM BackingAlwaysKept == RouterSpec => BackingKept
<1> DEFINE A == /\ ReservesBacked
                /\ ~\E u \in User, t \in Token, n \in OneTokenAmounts :
                       mint_with_one_token(u, t, n)
                => ReservesBacked'
<1>1. IInv /\ [RouterNext]_vars => [A]_vars
  BY BackedStep DEF BackedInv, OneTokenStep
<1>2. RouterSpec => [][A]_vars
  BY <1>1, Invariance, PTL DEF RouterSpec
<1> QED
  BY <1>2 DEF BackingKept

\* No sequence of trades, protocol-fee payments, donations, syncs and flash loans
\* lowers the product of the reserves of a pool that holds them: only redeeming does.
THEOREM KOnlyFallsByRedeeming == RouterSpec => KNeverFalls
<1> DEFINE A == supply' = supply /\ ReservesBacked => K(res') >= K(res)
<1>1. IInv /\ [RouterNext]_vars => [A]_vars
  <2> SUFFICES ASSUME IInv, ReservesBacked, [RouterNext]_vars, supply' = supply
               PROVE  K(res') >= K(res)
    OBVIOUS
  <2> USE DEF BackedInv
  <2>0. IInv
    BY DEF BackedInv
  <2>1. /\ pool \in [Token -> Nat] /\ res \in [Token -> Nat] /\ supply \in Nat
        /\ "A" \in Token /\ "B" \in Token
    BY <2>0 DEF IInv, TypeOK, AmountsOK, Token
  <2>2. K(res) \in Nat
    BY <2>1, MulNat DEF K
  <2>3. CASE res' = res
    BY <2>2, <2>3 DEF K
  <2>4. CASE LpStep
    BY <2>3, <2>4 DEF LpStep, LpTransfer, LpBurn, deposit_lp
  <2>5. CASE LiquidityStep
    <3>1. ASSUME NEW u \in User, mint(u) PROVE supply' # supply
      BY <2>1, <3>1, MintRaises DEF mint
    <3>2. ASSUME NEW u \in User, burn(u) PROVE supply' # supply
      BY <2>0, <2>1, <3>2, OwnRedeemable, BurnLowers DEF burn
    <3>3. ASSUME NEW u \in User, NEW t \in Token, NEW n \in LpAmounts, burn_single_side(u, n, t)
          PROVE  supply' # supply
      <4>1. supply' = supply - n /\ n > 0 /\ n \in Nat
        BY <3>3, PairAssumption DEF burn_single_side
      <4> QED
        BY <2>1, <4>1
    <3>4. ASSUME NEW u \in User, NEW t \in Token, NEW n \in OneTokenAmounts,
                 mint_with_one_token(u, t, n)
          PROVE  supply' # supply
      BY <2>0, <2>1, <3>4, OneTokenRaises
    <3> QED
      BY <2>5, <3>1, <3>2, <3>3, <3>4 DEF LiquidityStep
  <2>6. CASE TradeStep
    <3>1. ASSUME NEW t \in Token, NEW n \in Amounts, TokenIn(t, n) PROVE res' = res
      BY <3>1 DEF TokenIn
    <3>2. ASSUME NEW out \in [Token -> Outs], NEW self \in BOOLEAN, swap(out, self)
          PROVE  K(res') >= K(res)
      <4>1. PICK fee \in ChargedFees, bps \in ProtocolBps :
                /\ SwapAllowed(pool, res, out, self, fee)
                /\ res' = SwapResult(pool, res, out, self, fee, bps)
        BY <3>2 DEF swap
      <4>2. fee \in 0..BPS /\ bps \in 0..BPS /\ out \in [Token -> Int]
        BY <4>1, FeesBounded, PairAssumption DEF BackedInv, IInv
      <4> QED
        BY <2>1, <4>1, <4>2, SwapKeepsK
    <3>3. ASSUME sync PROVE K(res') >= K(res)
      <4>1. res' = pool /\ res["A"] <= pool["A"] /\ res["B"] <= pool["B"]
        BY <2>1, <3>3 DEF sync, Enter, BackedInv, ReservesBacked, IInv, LoanOK
      <4>2. res["A"] * res["B"] <= pool["A"] * pool["B"]
        BY <2>1, <4>1, MulMonoTwo
      <4>3. pool["A"] * pool["B"] \in Nat
        BY <2>1, MulNat
      <4> QED
        BY <2>2, <4>1, <4>2, <4>3 DEF K
    <3> QED
      BY <2>3, <2>6, <3>1, <3>2, <3>3 DEF TradeStep
  <2>7. CASE LoanStep
    <3>1. ASSUME NEW amount \in [Token -> LoanAmounts \cup {0}], flash_loan_open(amount)
          PROVE  res' = res
      BY <3>1 DEF flash_loan_open
    <3>2. ASSUME flash_loan_settle PROVE K(res') >= K(res)
      BY <3>2 DEF flash_loan_settle
    <3>3. ASSUME flash_loan_abort PROVE res' = res
      BY <3>3 DEF flash_loan_abort
    <3> QED
      BY <2>3, <2>7, <3>1, <3>2, <3>3 DEF LoanStep
  <2>8. CASE AdminStep
    BY <2>3, <2>8 DEF AdminStep, set_frozen, set_lp_token_paused
  <2>9. CASE RouterStep
    <3>1. ASSUME NEW u \in User, NEW desired \in [Token -> DesiredAmounts], NEW least,
                 add_liquidity(u, desired, least)
          PROVE  supply' # supply
      <4>1. MintFrom(u, Funded(desired))
        BY <2>0, <3>1, AddIsMint DEF IInv
      <4>2. supply' \in Nat /\ supply' > supply
        BY <2>1, <4>1, MintRaises
      <4> QED
        BY <2>1, <4>2
    <3>2. ASSUME NEW u \in User, NEW n \in LpAmounts, NEW least, remove_liquidity(u, n, least)
          PROVE  supply' # supply
      BY <2>0, <2>1, <3>2, RemoveIsBurn, BurnLowers
    <3> QED
      BY <2>9, <3>1, <3>2 DEF RouterStep
  <2>10. CASE UNCHANGED vars
    BY <2>3, <2>10 DEF vars
  <2> QED
    BY <2>4, <2>5, <2>6, <2>7, <2>8, <2>9, <2>10 DEF Next, RouterNext
<1>2. RouterSpec => [][A]_vars
  BY <1>1, Invariance, PTL DEF RouterSpec
<1> QED
  BY <1>2 DEF KNeverFalls

-----------------------------------------------------------------------------
(***************************************************************************)
(* What a step of the pool, or of the router on it, may never do: the       *)
(* action properties of Pair and RouterLiquidity, from the invariant above. *)
(***************************************************************************)


(***************************************************************************)
(* Switches: pause, freeze, and the flash loan's guard.                     *)
(***************************************************************************)

\* Every call that adds or removes liquidity takes the guard, is refused while the
\* LP token is paused, and leaves the switches as they are.
LEMMA LiquidityCalls ==
    ASSUME LiquidityStep \/ RouterStep
    PROVE  Enter /\ ~lpPaused /\ UNCHANGED <<adminVars, guardVars>>
<1> DEFINE Called == Enter /\ ~lpPaused /\ UNCHANGED <<adminVars, guardVars>>
<1>1. ASSUME NEW u, NEW p, MintFrom(u, p) PROVE Called
  BY <1>1 DEF MintFrom, ensure_lp_token_not_paused
<1>2. ASSUME NEW u, NEW ledger, NEW staged, NEW total, BurnFrom(u, ledger, staged, total)
      PROVE  Called
  BY <1>2 DEF BurnFrom, ensure_lp_token_not_paused
<1>3. ASSUME NEW u \in User, NEW t \in Token, NEW n \in OneTokenAmounts,
             mint_with_one_token(u, t, n)
      PROVE  Called
  BY <1>3 DEF mint_with_one_token, ensure_lp_token_not_paused
<1>4. ASSUME NEW u \in User, NEW t \in Token, NEW n \in LpAmounts, burn_single_side(u, n, t)
      PROVE  Called
  BY <1>4 DEF burn_single_side, ensure_lp_token_not_paused
<1> SUFFICES Called
  OBVIOUS
<1> HIDE DEF Called
<1>5. CASE LiquidityStep
  <2>1. \A u \in User : mint(u) => Called
    BY <1>1 DEF mint
  <2>2. \A u \in User : burn(u) => Called
    BY <1>2 DEF burn
  <2> QED
    BY <1>3, <1>4, <1>5, <2>1, <2>2 DEF LiquidityStep
<1>6. CASE RouterStep
  <2>1. ASSUME NEW u \in User, NEW desired \in [Token -> DesiredAmounts],
               NEW least \in [Token -> LeastAmounts], add_liquidity(u, desired, least)
        PROVE  Called
    BY <1>1, <2>1 DEF add_liquidity
  <2>2. ASSUME NEW u \in User, NEW n \in LpAmounts, NEW least \in [Token -> LeastAmounts],
               remove_liquidity(u, n, least)
        PROVE  Called
    BY <1>2, <2>2 DEF remove_liquidity
  <2> QED
    BY <1>6, <2>1, <2>2 DEF RouterStep
<1> QED
  BY <1>5, <1>6

\* While a loan is open and the LP token paused, the ledger is the one the loan
\* started from: nothing the callback can call moves LP.
PausedInv ==
    /\ IInv
    /\ lpPaused /\ loan.open => loan.lp = lp /\ loan.supply = supply

\* With a loan open only the callback's token and LP transfers, and the end of the
\* loan, are possible.
LEMMA StepsOfLoan ==
    ASSUME IInv, loan.open, RouterNext
    PROVE  \/ \E u \in User, n \in BurnAmounts : LpBurn(u, n)
           \/ \E u \in User, n \in LpAmounts : \E v \in Account \ {u} : LpTransfer(u, v, n)
           \/ \E t \in Token, n \in Amounts : TokenIn(t, n)
           \/ flash_loan_settle \/ flash_loan_abort
<1>1. ~Enter
  BY DEF IInv, LoanOK, Enter
<1>2. ~LiquidityStep
  BY <1>1, LiquidityCalls
<1>3. ~RouterStep
  BY <1>1, LiquidityCalls
<1>4. ~AdminStep
  BY DEF AdminStep, set_frozen, set_lp_token_paused
<1>5. ASSUME NEW u, NEW n, deposit_lp(u, n) PROVE FALSE
  BY <1>1, <1>5 DEF deposit_lp
<1>6. ASSUME NEW out, NEW self, swap(out, self) PROVE FALSE
  BY <1>1, <1>6 DEF swap
<1>7. ~sync
  BY <1>1 DEF sync
<1>8. ASSUME NEW amount, flash_loan_open(amount) PROVE FALSE
  BY <1>1, <1>8 DEF flash_loan_open
<1> QED
  BY <1>2, <1>3, <1>4, <1>5, <1>6, <1>7, <1>8 DEF RouterNext, Next, LpStep, TradeStep, LoanStep

\* With the LP token paused no step but a rollback touches the ledger.
LEMMA PausedSteps ==
    ASSUME lpPaused, [RouterNext]_vars
    PROVE  UNCHANGED lpVars \/ flash_loan_abort
<1>1. ~LpStep
  BY DEF LpStep, LpTransfer, LpBurn, deposit_lp, ensure_lp_token_not_paused
<1>2. ~LiquidityStep
  BY LiquidityCalls
<1>3. ~RouterStep
  BY LiquidityCalls
<1>4. CASE TradeStep
  BY <1>4 DEF TradeStep, TokenIn, swap, sync
<1>5. CASE LoanStep
  BY <1>5 DEF LoanStep, flash_loan_open, flash_loan_settle
<1>6. CASE AdminStep
  BY <1>6 DEF AdminStep, set_frozen, set_lp_token_paused
<1>7. CASE UNCHANGED vars
  BY <1>7 DEF vars
<1> QED
  BY <1>1, <1>2, <1>3, <1>4, <1>5, <1>6, <1>7 DEF RouterNext, Next

\* Every step keeps it: the LP token cannot be paused while a loan is open.
LEMMA PausedStep == PausedInv /\ [RouterNext]_vars => PausedInv'
<1> SUFFICES ASSUME PausedInv, [RouterNext]_vars, lpPaused', loan'.open
             PROVE  loan'.lp = lp' /\ loan'.supply = supply'
  BY StepInv DEF PausedInv
<1>1. IInv
  BY DEF PausedInv
<1>2. CASE ~RouterNext
  BY <1>2 DEF PausedInv, vars, lpVars, adminVars, guardVars
<1>3. CASE loan.open /\ RouterNext
  <2>1. ASSUME NEW u, NEW n, LpBurn(u, n) PROVE FALSE
    BY <2>1 DEF LpBurn, adminVars
  <2>2. ASSUME NEW u, NEW v, NEW n, LpTransfer(u, v, n) PROVE FALSE
    BY <2>2 DEF LpTransfer, adminVars
  <2>3. ASSUME NEW t, NEW n, TokenIn(t, n) PROVE loan'.lp = lp' /\ loan'.supply = supply'
    BY <1>3, <2>3 DEF TokenIn, PausedInv, lpVars, adminVars, guardVars
  <2>4. ~flash_loan_settle /\ ~flash_loan_abort
    BY NoLoanType DEF flash_loan_settle, flash_loan_abort
  <2> QED
    BY <1>1, <1>3, <2>1, <2>2, <2>3, <2>4, StepsOfLoan
<1>4. CASE ~loan.open /\ RouterNext
  <2>1. CASE \E amount \in [Token -> LoanAmounts \cup {0}] : flash_loan_open(amount)
    BY <2>1 DEF flash_loan_open, lpVars
  <2>2. CASE ~\E amount \in [Token -> LoanAmounts \cup {0}] : flash_loan_open(amount)
    <3>1. loan' # loan
      BY <1>4
    <3>2. ~LpStep
      BY <3>1 DEF LpStep, LpTransfer, LpBurn, deposit_lp, guardVars
    <3>3. ~LiquidityStep
      BY <3>1, LiquidityCalls DEF guardVars
    <3>4. ~RouterStep
      BY <3>1, LiquidityCalls DEF guardVars
    <3>5. ~TradeStep /\ ~AdminStep
      BY <3>1 DEF TradeStep, TokenIn, swap, sync, AdminStep, set_frozen, set_lp_token_paused,
                  guardVars
    <3>6. ~LoanStep
      BY <1>4, <2>2 DEF LoanStep, flash_loan_settle, flash_loan_abort
    <3> QED
      BY <1>4, <3>2, <3>3, <3>4, <3>5, <3>6 DEF RouterNext, Next
  <2> QED
    BY <2>1, <2>2
<1> QED
  BY <1>2, <1>3, <1>4

\* While the LP token is paused nobody's LP changes, whichever contract the attempt
\* goes through, and a loan that is rolled back in the meantime restores nothing.
THEOREM PausedLpAlwaysStands == RouterSpec => PausedLpStandsStill
<1>1. Init => PausedInv
  BY InitInv, NoLoanType DEF PausedInv, Init
<1>2. PausedInv /\ [RouterNext]_vars => PausedInv'
  BY PausedStep
<1>3. PausedInv /\ [RouterNext]_vars => [lpPaused => UNCHANGED lpVars]_vars
  <2> SUFFICES ASSUME PausedInv, [RouterNext]_vars, lpPaused PROVE UNCHANGED lpVars
    OBVIOUS
  <2>1. flash_loan_abort => UNCHANGED lpVars
    BY DEF flash_loan_abort, PausedInv, lpVars
  <2> QED
    BY <2>1, PausedSteps
<1> QED
  BY <1>1, <1>2, <1>3, PTL DEF RouterSpec, PausedLpStandsStill

\* A loan either leaves every balance as it was when it began, or raises each
\* borrowed reserve by its fee; in between neither reserves nor staged LP move.
THEOREM FlashLoanAlwaysAllOrNothing == RouterSpec => FlashLoanAllOrNothing
<1> DEFINE A == loan.open =>
           IF loan'.open THEN UNCHANGED <<res, pending, frozen, lpPaused>>
           ELSE \/ /\ pool' = loan.pool /\ lp' = loan.lp /\ supply' = loan.supply
                   /\ UNCHANGED res
                \/ /\ res' = pool'
                   /\ \A t \in Token : loan.amount[t] > 0 => res'[t] >= res[t] + loan.fee[t]
<1>1. IInv /\ [RouterNext]_vars => [A]_vars
  <2> SUFFICES ASSUME IInv, RouterNext, loan.open PROVE A
    BY Zenon
  <2>1. ASSUME NEW u, NEW n, LpBurn(u, n) PROVE A
    BY <2>1 DEF LpBurn, adminVars, guardVars
  <2>2. ASSUME NEW u, NEW v, NEW n, LpTransfer(u, v, n) PROVE A
    BY <2>2 DEF LpTransfer, adminVars, guardVars
  <2>3. ASSUME NEW t, NEW n, TokenIn(t, n) PROVE A
    BY <2>3 DEF TokenIn, lpVars, adminVars, guardVars
  <2>4. flash_loan_settle => A
    BY NoLoanType DEF flash_loan_settle
  <2>5. flash_loan_abort => A
    BY NoLoanType DEF flash_loan_abort
  <2> QED
    BY <2>1, <2>2, <2>3, <2>4, <2>5, StepsOfLoan
<1>2. RouterSpec => [][A]_vars
  BY <1>1, Invariance, PTL DEF RouterSpec
<1> QED
  BY <1>2 DEF FlashLoanAllOrNothing

\* A frozen pool's reserves change only by a burn, which lowers both, or to what
\* the pool holds: no trade, deposit, one-sided exit or new loan gets through.
THEOREM FrozenPoolAlwaysUnwinds == RouterSpec => FrozenPoolOnlyUnwinds
<1> DEFINE A == frozen /\ res' # res =>
           \/ supply' < supply /\ \A t \in Token : res'[t] < res[t]
           \/ supply' = supply /\ res' = pool /\ pool' = pool
<1>1. IInv /\ [RouterNext]_vars => [A]_vars
  <2> SUFFICES ASSUME IInv, RouterNext, frozen, res' # res
               PROVE  \/ supply' < supply /\ \A t \in Token : res'[t] < res[t]
                      \/ supply' = supply /\ res' = pool /\ pool' = pool
    BY Zenon
  <2>1. ASSUME NEW u \in User, NEW ledger, NEW staged, NEW total,
               Redeemable(ledger, staged, total), BurnFrom(u, ledger, staged, total)
        PROVE  supply' < supply /\ \A t \in Token : res'[t] < res[t]
    <3> DEFINE b == BurnLp(u, ledger[PairAddr], staged, total)
    <3>1. supply' < supply
      BY <2>1, BurnLowers
    <3>2. BurnOut(b) \in [Token -> Nat] /\ res \in [Token -> Nat]
      BY <2>1, BurnBounds DEF IInv, TypeOK, AmountsOK
    <3>3. /\ res' = [t \in Token |-> res[t] - BurnOut(b)[t]]
          /\ \A t \in Token : BurnOut(b)[t] > 0
      BY <2>1 DEF BurnFrom, BurnOut
    <3> HIDE DEF b
    <3> QED
      BY <3>1, <3>2, <3>3
  <2>2. CASE LpStep
    BY <2>2 DEF LpStep, LpTransfer, LpBurn, deposit_lp
  <2>3. CASE LiquidityStep
    <3>1. ASSUME NEW u \in User, mint(u) PROVE FALSE
      BY <3>1 DEF mint, MintFrom, ensure_not_frozen
    <3>2. ASSUME NEW u \in User, burn(u)
          PROVE  supply' < supply /\ \A t \in Token : res'[t] < res[t]
      BY <2>1, <3>2, OwnRedeemable DEF burn
    <3>3. ASSUME NEW u \in User, NEW t \in Token, NEW n \in OneTokenAmounts,
                 mint_with_one_token(u, t, n)
          PROVE  FALSE
      BY <3>3 DEF mint_with_one_token, ensure_not_frozen
    <3>4. ASSUME NEW u \in User, NEW t \in Token, NEW n \in LpAmounts, burn_single_side(u, n, t)
          PROVE  FALSE
      BY <3>4 DEF burn_single_side, ensure_not_frozen
    <3> QED
      BY <2>3, <3>1, <3>2, <3>3, <3>4 DEF LiquidityStep
  <2>4. CASE RouterStep
    <3>1. ASSUME NEW u \in User, NEW desired \in [Token -> DesiredAmounts],
                 NEW least \in [Token -> LeastAmounts], add_liquidity(u, desired, least)
          PROVE  FALSE
      BY <3>1 DEF add_liquidity, MintFrom, ensure_not_frozen
    <3>2. ASSUME NEW u \in User, NEW n \in LpAmounts, NEW least \in [Token -> LeastAmounts],
                 remove_liquidity(u, n, least)
          PROVE  supply' < supply /\ \A t \in Token : res'[t] < res[t]
      BY <2>1, <3>2, RemoveIsBurn
    <3> QED
      BY <2>4, <3>1, <3>2 DEF RouterStep
  <2>5. CASE TradeStep
    BY <2>5 DEF TradeStep, TokenIn, swap, ensure_not_frozen, sync, lpVars
  <2>6. CASE LoanStep
    BY <2>6 DEF LoanStep, flash_loan_open, flash_loan_settle, flash_loan_abort, lpVars
  <2>7. CASE AdminStep
    BY <2>7 DEF AdminStep, set_frozen, set_lp_token_paused
  <2> QED
    BY <2>2, <2>3, <2>4, <2>5, <2>6, <2>7 DEF RouterNext, Next
<1>2. RouterSpec => [][A]_vars
  BY <1>1, Invariance, PTL DEF RouterSpec
<1> QED
  BY <1>2 DEF FrozenPoolOnlyUnwinds

-----------------------------------------------------------------------------
(***************************************************************************)
(* Staged LP belongs to its owner.                                          *)
(***************************************************************************)

\* What remove_liquidity does to the ledger: it stages n, and redeems exactly that
\* and what the owner had staged before.
LEMMA RemovalEffect ==
    ASSUME IInv, NEW u \in User, NEW n \in LpAmounts, NEW least, remove_liquidity(u, n, least)
    PROVE  /\ n \in Nat
           /\ supply' = supply - n - pending[u]
           /\ lp' = [lp EXCEPT ![u] = lp[u] - n, ![PairAddr] = lp[PairAddr] - pending[u]]
           /\ pending' = [pending EXCEPT ![u] = 0]
<1> DEFINE ledger == [lp EXCEPT ![u] = @ - n, ![PairAddr] = @ + n]
           staged == [pending EXCEPT ![u] = @ + n]
           b == BurnLp(u, ledger[PairAddr], staged, pendingTotal + n)
<1>1. /\ n \in Nat \ {0} /\ u \in Account /\ PairAddr \in Account /\ u # PairAddr
  BY PairAssumption, Accounts DEF remove_liquidity
<1>2. /\ lp \in [Account -> Nat] /\ lp[u] \in Nat /\ lp[PairAddr] \in Nat /\ supply \in Nat
      /\ pending \in [User -> Nat] /\ pending[u] \in Nat
  BY <1>1 DEF IInv, TypeOK, AmountsOK
<1>3. /\ lp' = [ledger EXCEPT ![PairAddr] = @ - b]
      /\ supply' = supply - b
      /\ pending' = [staged EXCEPT ![u] = 0]
  BY DEF remove_liquidity, BurnFrom, ClearPendingLp
<1>4. staged[u] = pending[u] + n /\ staged[u] > 0
  BY <1>1, <1>2
<1>5. b = pending[u] + n
  BY <1>4 DEF BurnLp
<1>6. ledger[PairAddr] = lp[PairAddr] + n
  BY <1>1, <1>2
<1> HIDE DEF b
<1>7. /\ supply' = supply - n - pending[u]
      /\ ledger[PairAddr] - b = lp[PairAddr] - pending[u]
  BY <1>1, <1>2, <1>3, <1>5, <1>6
<1>8. lp' = [lp EXCEPT ![u] = lp[u] - n, ![PairAddr] = lp[PairAddr] - pending[u]]
  BY <1>1, <1>2, <1>3, <1>7
<1>9. pending' = [pending EXCEPT ![u] = 0]
  BY <1>2, <1>3
<1> QED
  BY <1>1, <1>7, <1>8, <1>9

\* Staged LP leaves only through its owner's burn, all at once, and exactly that
\* much is destroyed.
THEOREM StagedLpAlwaysOwners == RouterSpec => StagedLpIsOwners
<1> DEFINE Staged(u) == pending'[u] < pending[u] =>
               /\ pending'[u] = 0
               /\ supply' = supply - pending[u] - (lp[u] - lp'[u])
               /\ \A v \in User \ {u} : pending'[v] = pending[v]
           A == \A u \in User : Staged(u)
<1>1. IInv /\ [RouterNext]_vars => [A]_vars
  <2> SUFFICES ASSUME IInv, RouterNext, NEW u \in User PROVE Staged(u)
    BY Zenon
  <2>0. /\ lp \in [Account -> Nat] /\ pending \in [User -> Nat] /\ pending[u] \in Nat
        /\ lp[u] \in Nat /\ supply \in Nat
    BY Accounts DEF IInv, TypeOK, AmountsOK
  <2>1. CASE pending' = pending
    BY <2>0, <2>1
  <2>2. CASE LpStep
    <3>1. ASSUME NEW w \in User, NEW n \in LpAmounts, deposit_lp(w, n) PROVE Staged(u)
      <4>1. pending' = [pending EXCEPT ![w] = @ + n] /\ n \in Nat
        BY <3>1, PairAssumption DEF deposit_lp
      <4>2. ~(pending'[u] < pending[u])
        BY <2>0, <4>1
      <4> QED
        BY <4>2
    <3> QED
      BY <2>1, <2>2, <3>1 DEF LpStep, LpTransfer, LpBurn
  <2>3. CASE LiquidityStep
    <3>1. ASSUME NEW w \in User, burn(w) PROVE Staged(u)
      <4> SUFFICES ASSUME pending'[u] < pending[u]
                   PROVE  /\ pending'[u] = 0
                          /\ supply' = supply - pending[u] - (lp[u] - lp'[u])
                          /\ \A v \in User \ {u} : pending'[v] = pending[v]
        OBVIOUS
      <4> DEFINE b == BurnLp(w, lp[PairAddr], pending, pendingTotal)
      <4>1. /\ pending' = [pending EXCEPT ![w] = 0] /\ supply' = supply - b
            /\ lp' = [lp EXCEPT ![PairAddr] = @ - b]
        BY <3>1 DEF burn, BurnFrom, ClearPendingLp
      <4>2. w = u /\ pending[u] > 0
        BY <2>0, <4>1
      <4>3. b = pending[u]
        BY <4>2 DEF BurnLp
      <4>4. lp'[u] = lp[u]
        BY <2>0, <4>1, Accounts
      <4> HIDE DEF b
      <4>5. supply' = supply - pending[u] - (lp[u] - lp'[u])
        BY <2>0, <4>1, <4>3, <4>4
      <4> QED
        BY <2>0, <4>1, <4>2, <4>5
    <3>2. ASSUME NEW w \in User, mint(w) PROVE Staged(u)
      BY <2>1, <3>2 DEF mint, MintFrom
    <3>3. ASSUME NEW w \in User, NEW t \in Token, NEW n \in OneTokenAmounts,
                 mint_with_one_token(w, t, n)
          PROVE  Staged(u)
      BY <2>1, <3>3 DEF mint_with_one_token
    <3>4. ASSUME NEW w \in User, NEW t \in Token, NEW n \in LpAmounts, burn_single_side(w, n, t)
          PROVE  Staged(u)
      BY <2>1, <3>4 DEF burn_single_side
    <3> HIDE DEF Staged
    <3> QED
      BY <2>3, <3>1, <3>2, <3>3, <3>4 DEF LiquidityStep
  <2>4. CASE RouterStep
    <3>1. ASSUME NEW w \in User, NEW desired \in [Token -> DesiredAmounts],
                 NEW least \in [Token -> LeastAmounts], add_liquidity(w, desired, least)
          PROVE  Staged(u)
      BY <2>1, <3>1 DEF add_liquidity, MintFrom
    <3>2. ASSUME NEW w \in User, NEW n \in LpAmounts, NEW least \in [Token -> LeastAmounts],
                 remove_liquidity(w, n, least)
          PROVE  Staged(u)
      <4> SUFFICES ASSUME pending'[u] < pending[u]
                   PROVE  /\ pending'[u] = 0
                          /\ supply' = supply - pending[u] - (lp[u] - lp'[u])
                          /\ \A v \in User \ {u} : pending'[v] = pending[v]
        OBVIOUS
      <4>1. /\ n \in Nat /\ supply' = supply - n - pending[w]
            /\ lp' = [lp EXCEPT ![w] = lp[w] - n, ![PairAddr] = lp[PairAddr] - pending[w]]
            /\ pending' = [pending EXCEPT ![w] = 0]
        BY <3>2, RemovalEffect
      <4>2. w = u
        BY <2>0, <4>1
      <4>3. lp'[u] = lp[u] - n
        BY <2>0, <4>1, <4>2, Accounts
      <4>4. supply' = supply - pending[u] - (lp[u] - lp'[u])
        BY <2>0, <4>1, <4>2, <4>3
      <4> QED
        BY <2>0, <4>1, <4>2, <4>4
    <3> HIDE DEF Staged
    <3> QED
      BY <2>4, <3>1, <3>2 DEF RouterStep
  <2>5. CASE TradeStep
    BY <2>1, <2>5 DEF TradeStep, TokenIn, swap, sync, lpVars
  <2>6. CASE LoanStep
    BY <2>1, <2>6 DEF LoanStep, flash_loan_open, flash_loan_settle, flash_loan_abort, lpVars
  <2>7. CASE AdminStep
    BY <2>1, <2>7 DEF AdminStep, set_frozen, set_lp_token_paused, lpVars
  <2> HIDE DEF Staged
  <2> QED
    BY <2>2, <2>3, <2>4, <2>5, <2>6, <2>7 DEF RouterNext, Next
<1>2. RouterSpec => [][A]_vars
  BY <1>1, Invariance, PTL DEF RouterSpec
<1> QED
  BY <1>2 DEF StagedLpIsOwners

-----------------------------------------------------------------------------
(***************************************************************************)
(* Shares.                                                                  *)
(***************************************************************************)

\* The quotient that matches n at the ratio of o to r is the largest amount m for
\* which m to n does not exceed it.
LEMMA MatchingBounds ==
    ASSUME NEW n \in Nat, NEW o \in Nat, NEW r \in Nat \ {0}, NEW m, m = (n * o) \div r
    PROVE  m \in Nat /\ m * r <= n * o /\ (m + 1) * r > n * o
<1>1. n * o \in Nat
  BY MulNat
<1>2. m \in Nat /\ r * m <= n * o /\ n * o < r * m + r
  BY <1>1, DivFloor
<1> QED
  BY <1>1, <1>2, SMT

\* When the B that matches a of A is more than b, the A that matches b is less
\* than a.
LEMMA OtherSideFits ==
    ASSUME NEW a \in Nat, NEW b \in Nat, NEW ra \in Nat \ {0}, NEW rb \in Nat \ {0},
           NEW m, m = (a * rb) \div ra, ~(m <= b), NEW q, q = (b * ra) \div rb
    PROVE  q <= a
<1>1. m \in Nat /\ m * ra <= a * rb
  BY MatchingBounds
<1>2. q \in Nat /\ q * rb <= b * ra
  BY MatchingBounds
<1>3. b * ra <= m * ra
  BY <1>1, MulMono
<1>4. b * ra \in Nat /\ m * ra \in Nat /\ a * rb \in Nat /\ q * rb \in Nat
  BY <1>1, <1>2, MulNat
<1>5. q * rb <= a * rb
  BY <1>1, <1>2, <1>3, <1>4
<1> QED
  BY <1>2, <1>5, MulCancel

\* add_liquidity never takes more than desired, takes one side in full, and of the
\* other all that the pool's ratio allows.
THEOREM OptimalAmountsAlwaysFair == RouterSpec => []OptimalAmountsFair
<1>1. IInv => OptimalAmountsFair
  <2> SUFFICES ASSUME IInv, NEW desired \in [Token -> DesiredAmounts], K(res) > 0
               PROVE  LET amount == compute_optimal_amounts(desired)
                      IN  /\ \A t \in Token : amount[t] <= desired[t]
                          /\ \E t \in Token :
                                /\ amount[t] = desired[t]
                                /\ amount[Other(t)] * res[t] <= amount[t] * res[Other(t)]
                                /\ (amount[Other(t)] + 1) * res[t] > amount[t] * res[Other(t)]
    BY DEF OptimalAmountsFair
  <2> DEFINE amount == compute_optimal_amounts(desired)
             a == desired["A"]
             b == desired["B"]
             ra == res["A"]
             rb == res["B"]
             m == (a * rb) \div ra
             q == (b * ra) \div rb
  <2>1. "A" \in Token /\ "B" \in Token /\ Other("A") = "B" /\ Other("B") = "A"
    BY DEF Token, Other
  <2>2. a \in Nat /\ b \in Nat /\ ra \in Nat /\ rb \in Nat /\ desired \in [Token -> Nat]
    BY <2>1, RouterLiquidityAssumption DEF IInv, TypeOK, AmountsOK
  <2>3. ra # 0 /\ rb # 0 /\ res # Zero
    <3>1. ra * rb > 0
      BY DEF K
    <3>2. ra # 0 /\ rb # 0
      BY <2>2, <3>1, SMT
    <3> QED
      BY <2>1, <3>2 DEF Zero
  <2>4. Matching("A", a) = m /\ Matching("B", b) = q
    BY <2>1 DEF Matching
  <2>5. amount = IF m <= b THEN [desired EXCEPT !["B"] = m] ELSE [desired EXCEPT !["A"] = q]
    BY <2>3, <2>4 DEF compute_optimal_amounts
  <2>6. m \in Nat /\ m * ra <= a * rb /\ (m + 1) * ra > a * rb
    BY <2>2, <2>3, MatchingBounds
  <2>7. q \in Nat /\ q * rb <= b * ra /\ (q + 1) * rb > b * ra
    BY <2>2, <2>3, MatchingBounds
  <2>8. ~(m <= b) => q <= a
    BY <2>2, <2>3, OtherSideFits
  <2> HIDE DEF m, q
  <2>9. CASE m <= b
    <3>1. amount["A"] = a /\ amount["B"] = m
      BY <2>1, <2>2, <2>5, <2>9
    <3>2. \A t \in Token : amount[t] <= desired[t]
      BY <2>2, <2>9, <3>1 DEF Token
    <3> HIDE DEF amount
    <3>3. /\ amount["A"] = desired["A"]
          /\ amount[Other("A")] * res["A"] <= amount["A"] * res[Other("A")]
          /\ (amount[Other("A")] + 1) * res["A"] > amount["A"] * res[Other("A")]
      BY <2>1, <2>6, <3>1
    <3> QED
      BY <2>1, <3>2, <3>3 DEF amount
  <2>10. CASE ~(m <= b)
    <3>1. amount["A"] = q /\ amount["B"] = b
      BY <2>1, <2>2, <2>5, <2>10
    <3>2. \A t \in Token : amount[t] <= desired[t]
      BY <2>2, <2>8, <2>10, <3>1 DEF Token
    <3> HIDE DEF amount
    <3>3. /\ amount["B"] = desired["B"]
          /\ amount[Other("B")] * res["B"] <= amount["B"] * res[Other("B")]
          /\ (amount[Other("B")] + 1) * res["B"] > amount["B"] * res[Other("B")]
      BY <2>1, <2>7, <3>1
    <3> QED
      BY <2>1, <3>2, <3>3 DEF amount
  <2> QED
    BY <2>9, <2>10
<1> QED
  BY <1>1, Invariance, PTL

\* If each side of a pool grows at least as the number of shares goes from s to z,
\* so does its product, squared.
LEMMA ProductPerShare ==
    ASSUME NEW r \in [Token -> Nat], NEW q \in [Token -> Nat], NEW s \in Nat, NEW z \in Nat,
           \A t \in Token : r[t] * z <= q[t] * s
    PROVE  K(q) * s * s >= K(r) * z * z
<1>1. /\ "A" \in Token /\ "B" \in Token
      /\ r["A"] \in Nat /\ r["B"] \in Nat /\ q["A"] \in Nat /\ q["B"] \in Nat
  BY DEF Token
<1> DEFINE a == r["A"]
           b == r["B"]
           c == q["A"]
           d == q["B"]
<1>2. a \in Nat /\ b \in Nat /\ c \in Nat /\ d \in Nat /\ a * z <= c * s /\ b * z <= d * s
  BY <1>1
<1>3. K(r) = a * b /\ K(q) = c * d
  BY DEF K
<1> HIDE DEF a, b, c, d
<1>4. a * z \in Nat /\ b * z \in Nat /\ c * s \in Nat /\ d * s \in Nat
  BY <1>2, MulNat
<1>5. (a * z) * (b * z) <= (c * s) * (d * s)
  BY <1>2, <1>4, MulMonoTwo
<1>6. (a * z) * (b * z) = (a * b) * z * z /\ (c * s) * (d * s) = (c * d) * s * s
  BY <1>2, SMT
<1>7. (a * b) * z * z \in Nat /\ (c * d) * s * s \in Nat
  BY <1>2, MulNat
<1> QED
  BY <1>3, <1>5, <1>6, <1>7

\* What stays after n of s shares are redeemed is at least the share of those who
\* stay, on each side.
LEMMA RedeemedShare ==
    ASSUME NEW n \in Nat, NEW r \in Nat, NEW s \in Nat \ {0}, n <= s
    PROVE  r * (s - n) <= (r - burn_amount(n, r, s)) * s
<1> DEFINE x == burn_amount(n, r, s)
<1>1. n * r \in Nat
  BY MulNat
<1>2. x \in Nat /\ s * x <= n * r
  BY <1>1, DivFloor DEF burn_amount
<1> HIDE DEF x
<1>3. r * (s - n) <= (r - x) * s
  BY <1>1, <1>2, SMT
<1> QED
  BY <1>3 DEF x

\* What a deposit is credited with is at most its share of each side.
LEMMA CreditedShare ==
    ASSUME NEW r \in [Token -> Nat], NEW d \in [Token -> Nat], NEW s \in Nat,
           \A t \in Token : r[t] # 0,
           NEW l, l = subsequent_liquidity(d["A"], d["B"], r["A"], r["B"], s)
    PROVE  l \in Nat /\ \A t \in Token : r[t] * (s + l) <= (r[t] + d[t]) * s
<1>1. /\ "A" \in Token /\ "B" \in Token
      /\ r["A"] \in Nat \ {0} /\ r["B"] \in Nat \ {0} /\ d["A"] \in Nat /\ d["B"] \in Nat
  BY DEF Token
<1> DEFINE share(t) == (d[t] * s) \div r[t]
<1>2. \A t \in Token : share(t) \in Nat /\ r[t] * share(t) <= d[t] * s
  <2> SUFFICES ASSUME NEW t \in Token PROVE share(t) \in Nat /\ r[t] * share(t) <= d[t] * s
    OBVIOUS
  <2>1. d[t] * s \in Nat
    BY MulNat
  <2> QED
    BY <2>1, DivFloor
<1>3. l = Least(share("A"), share("B"))
  BY DEF subsequent_liquidity
<1> HIDE DEF share
<1>4. l \in Nat /\ \A t \in Token : l <= share(t)
  BY <1>1, <1>2, <1>3 DEF Least, Token
<1>5. ASSUME NEW t \in Token PROVE r[t] * (s + l) <= (r[t] + d[t]) * s
  <2>1. r[t] \in Nat /\ d[t] \in Nat /\ share(t) \in Nat /\ l <= share(t)
    BY <1>2, <1>4
  <2>2. l * r[t] <= share(t) * r[t]
    BY <1>4, <2>1, MulMono
  <2>3. share(t) * r[t] = r[t] * share(t) /\ r[t] * share(t) \in Nat /\ d[t] * s \in Nat
    BY <2>1, MulNat, SMT
  <2>4. r[t] * share(t) <= d[t] * s
    BY <1>2
  <2>5. l * r[t] \in Nat
    BY <1>4, <2>1, MulNat
  <2>6. l * r[t] <= d[t] * s
    BY <2>2, <2>3, <2>4, <2>5
  <2> QED
    BY <1>4, <2>1, <2>6, SMT
<1> QED
  BY <1>4, <1>5

\* Outside a loan the supply changes only by these calls, made directly or by the
\* router.
LEMMA SupplySteps ==
    ASSUME IInv, [RouterNext]_vars, ~loan.open, supply' # supply
    PROVE  \/ \E u \in User, n \in BurnAmounts : LpBurn(u, n)
           \/ \E u \in User, p \in [Token -> Nat] : MintFrom(u, p)
           \/ \E u \in User : \E ledger, staged, total :
                 Redeemable(ledger, staged, total) /\ BurnFrom(u, ledger, staged, total)
           \/ \E u \in User, t \in Token, n \in OneTokenAmounts : mint_with_one_token(u, t, n)
           \/ \E u \in User, t \in Token, n \in LpAmounts : burn_single_side(u, n, t)
<1> DEFINE Issue == \E u \in User, p \in [Token -> Nat] : MintFrom(u, p)
           Redeem == \E u \in User : \E ledger, staged, total :
                         /\ Redeemable(ledger, staged, total)
                         /\ BurnFrom(u, ledger, staged, total)
<1>1. ASSUME NEW u \in User, mint(u) PROVE Issue
  BY <1>1 DEF mint, IInv, TypeOK, AmountsOK
<1>2. ASSUME NEW u \in User, burn(u) PROVE Redeem
  BY <1>2, OwnRedeemable DEF burn
<1>3. ASSUME NEW u \in User, NEW desired \in [Token -> DesiredAmounts],
             NEW least \in [Token -> LeastAmounts], add_liquidity(u, desired, least)
      PROVE  Issue
  BY <1>3, AddIsMint DEF IInv
<1>4. ASSUME NEW u \in User, NEW n \in LpAmounts, NEW least \in [Token -> LeastAmounts],
             remove_liquidity(u, n, least)
      PROVE  Redeem
  BY <1>4, RemoveIsBurn
<1>5. ~TradeStep /\ ~AdminStep
  BY DEF TradeStep, TokenIn, swap, sync, AdminStep, set_frozen, set_lp_token_paused, lpVars
<1>6. ~LoanStep
  BY DEF LoanStep, flash_loan_open, flash_loan_settle, flash_loan_abort, lpVars
<1>7. LpStep => \E u \in User, n \in BurnAmounts : LpBurn(u, n)
  BY DEF LpStep, LpTransfer, deposit_lp
<1>8. ~UNCHANGED vars
  BY DEF vars, lpVars
<1>9. LpStep \/ LiquidityStep \/ RouterStep
  BY <1>5, <1>6, <1>8 DEF RouterNext, Next
<1> HIDE DEF Issue, Redeem
<1>10. RouterStep => Issue \/ Redeem
  BY <1>3, <1>4 DEF RouterStep
<1>11. LiquidityStep =>
          \/ Issue \/ Redeem
          \/ \E u \in User, t \in Token, n \in OneTokenAmounts : mint_with_one_token(u, t, n)
          \/ \E u \in User, t \in Token, n \in LpAmounts : burn_single_side(u, n, t)
  BY <1>1, <1>2 DEF LiquidityStep
<1>12. \/ \E u \in User, n \in BurnAmounts : LpBurn(u, n)
       \/ Issue \/ Redeem
       \/ \E u \in User, t \in Token, n \in OneTokenAmounts : mint_with_one_token(u, t, n)
       \/ \E u \in User, t \in Token, n \in LpAmounts : burn_single_side(u, n, t)
  BY <1>7, <1>9, <1>10, <1>11
<1> QED
  BY <1>12, Zenon DEF Issue, Redeem

\* Redeeming both sides leaves those who stay no less per share.
LEMMA BurnShare ==
    ASSUME IInv, NEW to \in User, NEW ledger, NEW staged, NEW total,
           Redeemable(ledger, staged, total), BurnFrom(to, ledger, staged, total)
    PROVE  LET old == supply - MinLiquidity
               new == supply' - MinLiquidity
           IN  K(res') * old * old >= K(res) * new * new
<1> DEFINE b == BurnLp(to, ledger[PairAddr], staged, total)
           old == supply - MinLiquidity
           new == supply' - MinLiquidity
<1>1. /\ b \in Nat /\ old \in Nat \ {0} /\ b <= old /\ BurnAfter(b) \in [Token -> Nat]
  BY BurnBounds
<1>2. res' = BurnAfter(b) /\ supply' = supply - b /\ supply \in Nat /\ res \in [Token -> Nat]
  BY DEF BurnFrom, BurnOut, BurnAfter, IInv, TypeOK, AmountsOK
<1> HIDE DEF b
<1>3. new = old - b /\ new \in Nat
  BY <1>1, <1>2, MathAssumption
<1>4. \A t \in Token : BurnAfter(b)[t] = res[t] - burn_amount(b, res[t], old)
  BY DEF BurnAfter, BurnOut
<1> HIDE DEF old, new
<1>5. \A t \in Token : res[t] * new <= BurnAfter(b)[t] * old
  <2> SUFFICES ASSUME NEW t \in Token PROVE res[t] * new <= BurnAfter(b)[t] * old
    OBVIOUS
  <2>1. res[t] \in Nat
    BY <1>2
  <2>2. res[t] * (old - b) <= (res[t] - burn_amount(b, res[t], old)) * old
    BY <1>1, <2>1, RedeemedShare
  <2> QED
    BY <1>3, <1>4, <2>2
<1>6. K(res') * old * old >= K(res) * new * new
  BY <1>1, <1>2, <1>3, <1>5, ProductPerShare
<1> QED
  BY <1>6 DEF old, new

\* So does redeeming both and swapping one into the other: the K check of
\* burn_single_side is made against what redeeming both leaves.
LEMMA SingleSideShare ==
    ASSUME IInv, NEW to \in User, NEW n \in LpAmounts, NEW t \in Token,
           burn_single_side(to, n, t)
    PROVE  LET old == supply - MinLiquidity
               new == supply' - MinLiquidity
           IN  K(res') * old * old >= K(res) * new * new
<1> USE MathAssumption, PairAssumption
<1> DEFINE o == Other(t)
           old == supply - MinLiquidity
           new == supply' - MinLiquidity
           share == ExitShare(n)
           left == ExitLeft(n)
           final == [x \in Token |-> IF x = t THEN left[t] - ExitSwap(n, t) ELSE res[o]]
<1>1. /\ n \in Nat /\ o \in Token /\ o # t /\ to \in Account /\ PairAddr \in Account
      /\ to # PairAddr
  BY Accounts DEF Other, Token
<1>2. /\ lp \in [Account -> Nat] /\ lp[to] \in Nat /\ lp[PairAddr] \in Nat /\ supply \in Nat
      /\ res \in [Token -> Nat] /\ pendingTotal \in Nat /\ dynFee \in Nat
  BY <1>1 DEF IInv, TypeOK, AmountsOK
<1>3. /\ share \in [Token -> Nat] /\ left \in [Token -> Nat]
      /\ ExitSwap(n, t) \in Nat /\ ExitSwap(n, t) <= left[t]
  BY ExitBounds
<1>4. /\ old > 0 /\ supply > 0 /\ n <= lp[to] /\ supply' = supply - n /\ res' = final
      /\ (final[t] * BPS) * (final[o] * BPS - share[o] * dynFee) >= K(left) * BPS * BPS
  BY DEF burn_single_side, ExitShare, ExitLeft, ExitSwap
<1>5. lp[to] + lp[PairAddr] <= supply
  BY <1>1, <1>2, SumBoundTwo DEF IInv, LedgerOK
<1>6. lp[PairAddr] >= pendingTotal + MinLiquidity
  BY <1>4 DEF IInv, LedgerOK, SeedOf
<1>7. old \in Nat \ {0} /\ n <= old /\ new = old - n /\ new \in Nat
  BY <1>1, <1>2, <1>4, <1>5, <1>6
<1>8. \A x \in Token : left[x] = res[x] - burn_amount(n, res[x], old)
  BY DEF ExitLeft, ExitShare
<1> HIDE DEF old, new, share, left, o
<1>9. final \in [Token -> Nat]
  BY <1>1, <1>2, <1>3
<1> HIDE DEF final
<1>10. \A x \in Token : res[x] * new <= left[x] * old
  <2> SUFFICES ASSUME NEW x \in Token PROVE res[x] * new <= left[x] * old
    OBVIOUS
  <2>1. res[x] \in Nat
    BY <1>2
  <2>2. res[x] * (old - n) <= (res[x] - burn_amount(n, res[x], old)) * old
    BY <1>1, <1>7, <2>1, RedeemedShare
  <2> QED
    BY <1>7, <1>8, <2>2
<1>11. K(left) * old * old >= K(res) * new * new
  BY <1>2, <1>3, <1>7, <1>10, ProductPerShare
<1>12. K(final) >= K(left)
  <2> DEFINE x == final[t]
             y == final[o]
             z == share[o] * dynFee
  <2>1. x \in Nat /\ y \in Nat /\ share[o] \in Nat
    BY <1>1, <1>3, <1>9
  <2>2. z \in Nat
    BY <1>2, <2>1, MulNat
  <2>3. K(final) = x * y /\ K(final) \in Nat /\ K(left) \in Nat
    <3>1. K(final) = x * y
      <4>1. final["A"] \in Nat /\ final["B"] \in Nat
        BY <1>9 DEF Token
      <4>2. (t = "A" /\ o = "B") \/ (t = "B" /\ o = "A")
        BY DEF o, Other, Token
      <4>3. CASE t = "A" /\ o = "B"
        BY <4>3 DEF K
      <4>4. CASE t = "B" /\ o = "A"
        <5>1. final["A"] * final["B"] = final["B"] * final["A"]
          BY <4>1, SMT
        <5> QED
          BY <4>4, <5>1 DEF K
      <4> QED
        BY <4>2, <4>3, <4>4
    <3>2. K(left) \in Nat
      BY <1>3, MulNat DEF K, Token
    <3> QED
      BY <2>1, <3>1, <3>2, MulNat
  <2>4. (x * BPS) * (y * BPS - z) >= K(left) * BPS * BPS
    BY <1>4
  <2> HIDE DEF x, y, z
  <2>5. x * BPS \in Nat /\ y * BPS \in Nat /\ BPS * BPS \in Nat \ {0}
    BY <2>1, MulNat, SMT
  <2>6. (y * BPS - z) * (x * BPS) <= (y * BPS) * (x * BPS)
    BY <2>2, <2>5, MulMono
  <2>7. /\ (y * BPS) * (x * BPS) = (x * y) * (BPS * BPS)
        /\ (x * BPS) * (y * BPS - z) = (y * BPS - z) * (x * BPS)
        /\ K(left) * BPS * BPS = K(left) * (BPS * BPS)
    BY <2>1, <2>2, <2>3, SMT
  <2>8. K(left) * (BPS * BPS) <= K(final) * (BPS * BPS)
    <3>1. (y * BPS - z) * (x * BPS) \in Int
      BY <2>2, <2>5, SMT
    <3>2. K(left) * (BPS * BPS) \in Nat /\ (x * y) * (BPS * BPS) \in Nat
      BY <2>1, <2>3, <2>5, MulNat
    <3> QED
      BY <2>3, <2>4, <2>6, <2>7, <3>1, <3>2
  <2>9. K(left) <= K(final)
    BY <2>3, <2>5, <2>8, MulCancel
  <2> QED
    BY <2>3, <2>9
<1>13. K(final) * old * old >= K(left) * old * old
  <2>1. K(final) \in Nat /\ K(left) \in Nat
    BY <1>3, <1>9, MulNat DEF K, Token
  <2>2. K(left) * old <= K(final) * old
    BY <1>7, <1>12, <2>1, MulMono
  <2>3. K(left) * old \in Nat /\ K(final) * old \in Nat
    BY <1>7, <2>1, MulNat
  <2>4. (K(left) * old) * old <= (K(final) * old) * old
    BY <1>7, <2>2, <2>3, MulMono
  <2>5. (K(left) * old) * old \in Nat /\ (K(final) * old) * old \in Nat
    BY <1>7, <2>3, MulNat
  <2> QED
    BY <2>4, <2>5
<1>14. K(res') * old * old >= K(res) * new * new
  <2>1. K(res) \in Nat /\ K(left) \in Nat /\ K(final) \in Nat
    BY <1>2, <1>3, <1>9, MulNat DEF K, Token
  <2>2. K(res) * new * new \in Nat /\ K(left) * old * old \in Nat /\ K(final) * old * old \in Nat
    BY <1>7, <2>1, MulNat
  <2> QED
    BY <1>4, <1>11, <1>13, <2>2
<1> QED
  BY <1>14 DEF old, new

\* Leaving, through burn, burn_single_side, the router or the LP token itself, never
\* lowers what those who stay have per share.
THEOREM ExitsNeverDilute == RouterSpec => ExitNeverDilutes
<1> DEFINE A == supply' < supply /\ ~loan.open =>
                    LET old == supply - MinLiquidity
                        new == supply' - MinLiquidity
                    IN  K(res') * old * old >= K(res) * new * new
<1>1. IInv /\ [RouterNext]_vars => [A]_vars
  <2> SUFFICES ASSUME IInv, [RouterNext]_vars, supply' < supply, ~loan.open
               PROVE  LET old == supply - MinLiquidity
                          new == supply' - MinLiquidity
                      IN  K(res') * old * old >= K(res) * new * new
    BY Zenon
  <2> DEFINE Kept == LET old == supply - MinLiquidity
                         new == supply' - MinLiquidity
                     IN  K(res') * old * old >= K(res) * new * new
  <2>1. supply \in Nat /\ res \in [Token -> Nat] /\ supply' # supply
    BY DEF IInv, TypeOK, AmountsOK
  <2>2. ASSUME NEW u \in User, NEW n \in BurnAmounts, LpBurn(u, n) PROVE Kept
    <3>0. n \in Nat
      BY <2>1, <2>2, PairAssumption DEF LpBurn
    <3>1. /\ lp \in [Account -> Nat] /\ lp[u] \in Nat /\ lp[PairAddr] \in Nat
          /\ u \in Account /\ PairAddr \in Account /\ u # PairAddr
          /\ n \in Nat /\ n <= lp[u] /\ supply' = supply - n /\ res' = res
          /\ pendingTotal \in Nat /\ MinLiquidity \in Nat
      BY <2>2, <3>0, Accounts, PairAssumption, MathAssumption
         DEF IInv, TypeOK, AmountsOK, LpBurn
    <3>2. lp[u] + lp[PairAddr] <= supply
      BY <2>1, <3>1, SumBoundTwo DEF IInv, LedgerOK
    <3>3. lp[PairAddr] >= pendingTotal + SeedOf(supply)
      BY DEF IInv, LedgerOK
    <3> DEFINE old == supply - MinLiquidity
               new == supply' - MinLiquidity
    <3>4. old \in Nat /\ new \in Nat /\ new <= old
      BY <2>1, <3>1, <3>2, <3>3 DEF SeedOf
    <3>5. \A t \in Token : res[t] * new <= res[t] * old
      <4> SUFFICES ASSUME NEW t \in Token PROVE res[t] * new <= res[t] * old
        OBVIOUS
      <4> HIDE DEF old, new
      <4>1. res[t] \in Nat
        BY <2>1
      <4>2. new * res[t] <= old * res[t]
        BY <3>4, <4>1, MulMono
      <4> QED
        BY <3>4, <4>1, <4>2, SMT
    <3> HIDE DEF old, new
    <3>6. K(res) * old * old >= K(res) * new * new
      BY <2>1, <3>4, <3>5, ProductPerShare
    <3> QED
      BY <3>1, <3>6 DEF old, new
  <2>3. ASSUME NEW u \in User, NEW p \in [Token -> Nat], MintFrom(u, p) PROVE FALSE
    BY <2>1, <2>3, MintRaises
  <2>4. ASSUME NEW u \in User, NEW ledger, NEW staged, NEW total,
               Redeemable(ledger, staged, total), BurnFrom(u, ledger, staged, total)
        PROVE  Kept
    BY <2>4, BurnShare
  <2>5. ASSUME NEW u \in User, NEW t \in Token, NEW n \in OneTokenAmounts,
               mint_with_one_token(u, t, n)
        PROVE  FALSE
    <3>1. PICK l \in Nat \ {0} : supply' = supply + l
      BY <2>5, OneTokenSteps DEF SwapAndMint
    <3> QED
      BY <2>1, <3>1
  <2>6. ASSUME NEW u \in User, NEW t \in Token, NEW n \in LpAmounts, burn_single_side(u, n, t)
        PROVE  Kept
    BY <2>6, SingleSideShare
  <2> SUFFICES Kept
    OBVIOUS
  <2> HIDE DEF Kept
  <2> QED
    BY <2>1, <2>2, <2>3, <2>4, <2>5, <2>6, SupplySteps
<1>2. RouterSpec => [][A]_vars
  BY <1>1, Invariance, PTL DEF RouterSpec
<1> QED
  BY <1>2 DEF ExitNeverDilutes

\* Joining, with two tokens or with one, directly or through the router, never
\* lowers what those already in have per share of the whole supply.
THEOREM EntriesNeverDilute == RouterSpec => EntryNeverDilutes
<1> DEFINE A == supply' > supply /\ supply > 0 /\ res' # res /\ ~loan.open =>
                    K(res') * supply * supply >= K(res) * supply' * supply'
<1>1. IInv /\ [RouterNext]_vars => [A]_vars
  <2> SUFFICES ASSUME IInv, [RouterNext]_vars, supply' > supply, supply > 0, res' # res,
                      ~loan.open
               PROVE  K(res') * supply * supply >= K(res) * supply' * supply'
    BY Zenon
  <2> DEFINE Kept == K(res') * supply * supply >= K(res) * supply' * supply'
  <2>1. supply \in Nat /\ res \in [Token -> Nat] /\ supply' # supply
    BY DEF IInv, TypeOK, AmountsOK
  <2>2. ASSUME NEW u \in User, NEW n \in BurnAmounts, LpBurn(u, n) PROVE FALSE
    BY <2>2 DEF LpBurn
  <2>3. ASSUME NEW u \in User, NEW p \in [Token -> Nat], MintFrom(u, p) PROVE Kept
    <3> DEFINE d == [t \in Token |-> p[t] - res[t]]
               l == subsequent_liquidity(d["A"], d["B"], res["A"], res["B"], supply)
    <3>1. /\ \A t \in Token : d[t] >= MinReserve
          /\ SubsequentLiquidityFits(d["A"], d["B"], res["A"], res["B"], supply)
          /\ res' = p /\ supply' = supply + 0 + l
      BY <2>1, <2>3 DEF MintFrom
    <3>2. d \in [Token -> Nat] /\ \A t \in Token : p[t] = res[t] + d[t]
      BY <2>1, <3>1, MathAssumption
    <3>3. \A t \in Token : res[t] # 0
      BY <3>1 DEF SubsequentLiquidityFits, Token
    <3> HIDE DEF d
    <3>4. l \in Nat /\ \A t \in Token : res[t] * (supply + l) <= (res[t] + d[t]) * supply
      BY <2>1, <3>2, <3>3, CreditedShare
    <3> HIDE DEF l
    <3>5. supply' = supply + l /\ supply' \in Nat
      BY <2>1, <3>1, <3>4
    <3>6. \A t \in Token : res[t] * supply' <= p[t] * supply
      BY <3>2, <3>4, <3>5
    <3> QED
      BY <2>1, <3>1, <3>5, <3>6, ProductPerShare
  <2>4. ASSUME NEW u \in User, NEW ledger, NEW staged, NEW total,
               Redeemable(ledger, staged, total), BurnFrom(u, ledger, staged, total)
        PROVE  FALSE
    BY <2>1, <2>4, BurnLowers
  <2>5. ASSUME NEW u \in User, NEW t \in Token, NEW n \in OneTokenAmounts,
               mint_with_one_token(u, t, n)
        PROVE  Kept
    <3>1. PICK q, d, cut \in [Token -> Nat], l \in Nat \ {0} : SwapAndMint(u, q, d, cut, l)
      BY <2>5, OneTokenSteps
    <3> DEFINE p == [x \in Token |-> q[x] + d[x]]
    <3>2. /\ K(q) >= K(res) /\ res' = p /\ supply' = supply + l /\ \A x \in Token : q[x] # 0
          /\ l = subsequent_liquidity(d["A"], d["B"], q["A"], q["B"], supply)
      BY <3>1 DEF SwapAndMint
    <3>3. \A x \in Token : q[x] * (supply + l) <= (q[x] + d[x]) * supply
      BY <2>1, <3>2, CreditedShare
    <3>4. p \in [Token -> Nat] /\ supply' \in Nat
      BY <2>1, <3>2
    <3>5. \A x \in Token : q[x] * supply' <= p[x] * supply
      BY <3>2, <3>3
    <3> HIDE DEF p
    <3>6. K(p) * supply * supply >= K(q) * supply' * supply'
      BY <2>1, <3>4, <3>5, ProductPerShare
    <3>7. K(res) \in Nat /\ K(q) \in Nat /\ K(p) \in Nat
      BY <2>1, <3>4, MulNat DEF K, Token
    <3>8. K(res) * supply' <= K(q) * supply'
      BY <3>2, <3>4, <3>7, MulMono
    <3>9. K(res) * supply' \in Nat /\ K(q) * supply' \in Nat
      BY <3>4, <3>7, MulNat
    <3>10. (K(res) * supply') * supply' <= (K(q) * supply') * supply'
      BY <3>4, <3>8, <3>9, MulMono
    <3>11. /\ (K(res) * supply') * supply' \in Nat /\ (K(q) * supply') * supply' \in Nat
           /\ (K(p) * supply) * supply \in Nat
      BY <2>1, <3>4, <3>7, <3>9, MulNat
    <3>12. K(p) * supply * supply >= K(res) * supply' * supply'
      BY <3>6, <3>10, <3>11
    <3> QED
      BY <3>2, <3>12
  <2>6. ASSUME NEW u \in User, NEW t \in Token, NEW n \in LpAmounts, burn_single_side(u, n, t)
        PROVE  FALSE
    <3>1. n \in Nat /\ supply' = supply - n
      BY <2>6, PairAssumption DEF burn_single_side
    <3> QED
      BY <2>1, <3>1
  <2> SUFFICES Kept
    OBVIOUS
  <2> HIDE DEF Kept
  <2> QED
    BY <2>1, <2>2, <2>3, <2>4, <2>5, <2>6, SupplySteps
<1>2. RouterSpec => [][A]_vars
  BY <1>1, Invariance, PTL DEF RouterSpec
<1> QED
  BY <1>2 DEF EntryNeverDilutes

=============================================================================
