--------------------------- MODULE RouterLiquidity ---------------------------
(***************************************************************************)
(* The router's liquidity calls (contracts/router, add_liquidity and        *)
(* remove_liquidity) on one pool, beside everything that Pair lets the      *)
(* pool's users do directly.  Each is a sequence of the pool's entry points *)
(* made in one call: two transfers and mint, or deposit_lp and burn.  If    *)
(* any of them fails the host undoes all of them, so each is one action.    *)
(*                                                                          *)
(* The caller's two tokens are sorted before anything is looked up, so the  *)
(* amounts are given per pool token.  A deadline only restricts the call:   *)
(* none is given.                                                           *)
(***************************************************************************)
EXTENDS Pair

CONSTANTS
    DesiredAmounts,   \* model bound: amount_desired of add_liquidity
    LeastAmounts      \* model bound: amount_min of add_ and remove_liquidity

ASSUME RouterLiquidityAssumption ==
    DesiredAmounts \subseteq Nat \ {0} /\ LeastAmounts \subseteq Nat

\* The quotient that matches n of token t at the pool's ratio.
Matching(t, n) == (n * res[Other(t)]) \div res[t]

\* Mutant: both sides are taken as desired.
OptimalTakesDesired(desired) == desired

\* All of A with the matching B when that is no more than desired, else all of B
\* with the matching A; everything desired in a pool without reserves.
compute_optimal_amounts(desired) ==
    IF res = Zero THEN desired
    ELSE IF Matching("A", desired["A"]) <= desired["B"]
         THEN [desired EXCEPT !["B"] = Matching("A", desired["A"])]
         ELSE [desired EXCEPT !["A"] = Matching("B", desired["B"])]

\* The early returns of compute_optimal_amounts: a side that is lowered is compared
\* with its minimum, a side that is taken as desired is not.
OptimalAmountsAllowed(desired, least) ==
    res # Zero =>
        /\ res["A"] # 0 /\ Fits(desired["A"] * res["B"])
        /\ IF Matching("A", desired["A"]) <= desired["B"]
           THEN Matching("A", desired["A"]) >= least["B"]
           ELSE /\ res["B"] # 0 /\ Fits(desired["B"] * res["A"])
                /\ Matching("B", desired["B"]) >= least["A"]

add_liquidity(to, desired, least) ==
    LET amount == compute_optimal_amounts(desired)
    IN  /\ \A t \in Token : desired[t] > 0
        /\ OptimalAmountsAllowed(desired, least)
        /\ \A t \in Token : amount[t] <= TokenSupply[t] - pool[t]
        /\ MintFrom(to, [t \in Token |-> pool[t] + amount[t]])

\* deposit_lp(to, liquidity), burn(to), then the caller's minimums.
remove_liquidity(to, liquidity, least) ==
    /\ Enter /\ ensure_lp_token_not_paused
    /\ liquidity > 0 /\ liquidity <= lp[to]
    /\ BurnFrom(to, [lp EXCEPT ![to] = @ - liquidity, ![PairAddr] = @ + liquidity],
                [pending EXCEPT ![to] = @ + liquidity], pendingTotal + liquidity)
    /\ \A t \in Token : pool[t] - pool'[t] >= least[t]

RouterStep ==
    \E u \in User, least \in [Token -> LeastAmounts] :
        \/ \E desired \in [Token -> DesiredAmounts] : add_liquidity(u, desired, least)
        \/ \E n \in LpAmounts : remove_liquidity(u, n, least)

RouterNext == Next \/ RouterStep

RouterSpec == Init /\ [][RouterNext]_vars

-----------------------------------------------------------------------------
(***************************************************************************)
(* Properties.                                                              *)
(***************************************************************************)

\* add_liquidity never takes more of a token than the caller wanted to add, which
\* nothing in compute_optimal_amounts asserts: when the matching amount of B is
\* too much, the matching amount of A is not.  And it does not waste: one unit
\* more of the lowered side would exceed the pool's ratio.
OptimalAmountsFair ==
    \A desired \in [Token -> DesiredAmounts] :
        K(res) > 0 =>
            LET amount == compute_optimal_amounts(desired)
            IN  /\ \A t \in Token : amount[t] <= desired[t]
                /\ \E t \in Token :
                      /\ amount[t] = desired[t]
                      /\ amount[Other(t)] * res[t] <= amount[t] * res[Other(t)]
                      /\ (amount[Other(t)] + 1) * res[t] > amount[t] * res[Other(t)]

\* "The pair burns exactly this amount for `to`" (remove_liquidity): the withdrawal
\* destroys the LP that its caller asked to withdraw, and no other.
RemovalBurnsExactly ==
    [][\A u \in User, n \in LpAmounts :
           remove_liquidity(u, n, Zero) => supply' = supply - n]_vars

=============================================================================
