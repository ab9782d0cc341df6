------------------------------ MODULE PoolSwap ------------------------------
(***************************************************************************)
(* What one swap does to a pool (contracts/pair, swap_inner), as functions  *)
(* of the pool's token balances p, its recorded reserves r, the outputs     *)
(* asked for, and the fee charged.  Module Pair makes an entry point of it, *)
(* module Routes strings several of them together.                          *)
(***************************************************************************)
EXTENDS AmmMath

Token == {"A", "B"}
Other(t) == IF t = "A" THEN "B" ELSE "A"

Zero == [t \in Token |-> 0]

K(r) == r["A"] * r["B"]

\* The outputs out[t] go to an account that is the pool itself when self holds.

SwapBalance(p, out, self) ==
    [t \in Token |-> IF out[t] > 0 /\ ~self THEN p[t] - out[t] ELSE p[t]]

SwapInput(p, r, out, self) ==
    [t \in Token |-> AtLeastZero(SwapBalance(p, out, self)[t] - (r[t] - out[t]))]

\* The fee-adjusted product, scaled by BPS squared, of the K check.
AdjustedK(balance, input, fee) ==
    (balance["A"] * BPS - input["A"] * fee) * (balance["B"] * BPS - input["B"] * fee)

SwapAllowed(p, r, out, self, fee) ==
    LET balance == SwapBalance(p, out, self)
        input   == SwapInput(p, r, out, self)
    IN  /\ \E t \in Token : out[t] > 0
        /\ \A t \in Token : /\ out[t] < r[t]
                            /\ r[t] - out[t] >= MinReserve
                            /\ out[t] <= p[t]
        /\ \E t \in Token : input[t] > 0
        /\ \A t \in Token : Fits(balance[t] * BPS) /\ Fits(input[t] * fee)
        /\ Fits(K(r) * BPS * BPS)
        /\ Fits(AdjustedK(balance, input, fee))
        /\ AdjustedK(balance, input, fee) >= K(r) * BPS * BPS

\* Mutant: the share is taken of the input instead of the fee on it.
ProtocolCutOfInput(input, fee, bps) == Least(input * bps, MaxI128) \div BPS

\* The protocol's cut of the fee on one side's input.
ProtocolCut(input, fee, bps) == Least(input * fee * bps, MaxI128) \div (BPS * BPS)

SwapCut(p, r, out, self, fee, bps) ==
    [t \in Token |-> ProtocolCut(SwapInput(p, r, out, self)[t], fee, bps)]

\* Balances and reserves after the swap and the payment of the protocol's cut.
SwapResult(p, r, out, self, fee, bps) ==
    [t \in Token |-> SwapBalance(p, out, self)[t] - SwapCut(p, r, out, self, fee, bps)[t]]

=============================================================================
