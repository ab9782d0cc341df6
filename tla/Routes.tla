-------------------------------- MODULE Routes --------------------------------
(***************************************************************************)
(* The router's swaps (contracts/router) over several pools: exact-input    *)
(* and exact-output routes of up to three hops, the search for the best     *)
(* path, which reveal_swap executes, and the sweeps.                        *)
(*                                                                          *)
(* A call quotes the whole path first and then makes the hops, forwarding   *)
(* what each one pays to the next pool through its own balance; if any hop  *)
(* fails the host undoes the call.  A call is therefore one action whose    *)
(* effect is computed hop by hop on a record of what it writes.             *)
(*                                                                          *)
(* Assets are numbered in the order sort_tokens puts them in, and a pool is *)
(* the set of its two assets.  Accounts other than the pools and the router *)
(* are not told apart: what they do not hold of the Supply[a] units of an   *)
(* asset they can spend.  Deadlines only restrict a call: none is given.    *)
(* In between, the pools' own entry points are called by others.            *)
(***************************************************************************)
EXTENDS PoolSwap, Sequences, FiniteSetsExt

CONSTANTS
    Asset,            \* token addresses, as numbers
    Pools,            \* the pools the factory knows
    Supply,           \* units of each asset in existence
    Fees,             \* effective fees a pool may have
    BaselineFee,      \* the one it starts with
    Rates,            \* model bound: what a pool charges, and its fee afterwards
    MaxQuotedFee,     \* the router's cap on a fee it quotes, 100 bps
    ProtocolBps,      \* the protocol's share of a fee
    HubLists,         \* model bound: hub lists given to initialize and set_hubs
    Starts,           \* model bound: balances and reserves of the pools at the start
    Amounts,          \* model bound: exact amounts of a call
    Mins,             \* model bound: amount_out_min of a call
    Gifts,            \* model bound: units sent to the router or to a pool
    Deposits,         \* model bound: units of a deposit into a pool
    LpAmounts,        \* model bound: LP redeemed from a pool
    LpSupplies,       \* model bound: the redeemable supply it is part of
    MaxSwaps,         \* model bound on the calls that trade
    MaxMoves          \* model bound on the other calls and transfers

ASSUME RoutesAssumption ==
    /\ Asset \subseteq Nat
    /\ \A p \in Pools : p \subseteq Asset /\ Cardinality(p) = 2
    /\ Supply \in [Asset -> Nat]
    /\ Fees \subseteq 0..(BPS - 1) /\ BaselineFee \in Fees
    /\ Rates \subseteq [charged: Fees, next: Fees]
    /\ MaxQuotedFee \in Nat /\ ProtocolBps \in 0..BPS
    /\ HubLists \subseteq Seq(Asset)
    /\ Starts \subseteq [pool: [Pools -> [Token -> Nat]], res: [Pools -> [Token -> Nat]]]
    /\ Amounts \subseteq Nat /\ Mins \subseteq Nat /\ Gifts \subseteq Nat
    /\ Deposits \subseteq Nat /\ LpAmounts \subseteq Nat /\ LpSupplies \subseteq Nat
    /\ MaxSwaps \in Nat /\ MaxMoves \in Nat

VARIABLES
    pool,             \* each pool's balances of its two tokens
    res,              \* each pool's recorded reserves
    fee,              \* each pool's effective fee, as get_effective_fee_bps answers
    frozen,           \* the pools that refuse to trade
    held,             \* the router's own balance of each asset
    hubs,             \* the hub list
    swaps,            \* calls that traded so far (model bound)
    moves             \* other calls and transfers so far (model bound)

vars == <<pool, res, fee, frozen, held, hubs, swaps, moves>>

\* Paths of one to three hops; get_pair_address refuses the others.
Paths ==
    {path \in UNION {[1..n -> Asset] : n \in 2..4} :
        \A i \in 1..(Len(path) - 1) : {path[i], path[i + 1]} \in Pools}

\* The side of a pool that asset a is on, its other asset being b.
Side(a, b) == IF a < b THEN "A" ELSE "B"

SideIn(p, a) == Side(a, CHOOSE b \in p : b # a)

\* What accounts other than the pools and the router hold of an asset.
Outside(a) ==
    LET in(p) == IF a \in p THEN pool[p][SideIn(p, a)] ELSE 0
    IN  Supply[a] - held[a] - FoldSet(LAMBDA p, n : n + in(p), 0, Pools)

Init ==
    /\ \E start \in Starts : pool = start.pool /\ res = start.res
    /\ fee = [p \in Pools |-> BaselineFee]
    /\ frozen = {}
    /\ held = [a \in Asset |-> 0]
    /\ hubs \in HubLists
    /\ swaps = 0 /\ moves = 0

-----------------------------------------------------------------------------
(***************************************************************************)
(* Quotes.  An error is Refused, and a quote of Refused is Refused.         *)
(***************************************************************************)

Refused == -1

\* get_pair_address and get_pair_reserves_and_fee succeed.
Quotable(a, b) ==
    /\ {a, b} \in Pools
    /\ K(res[{a, b}]) > 0 /\ Fits(K(res[{a, b}]))
    /\ fee[{a, b}] <= MaxQuotedFee

get_amount_out(a, b, amount_in) ==
    LET r   == res[{a, b}]
        f   == fee[{a, b}]
        out == quote_output_amount(amount_in, r[Side(a, b)], r[Side(b, a)], f)
    IN  IF /\ Quotable(a, b) /\ amount_in > 0
           /\ QuoteOutFits(amount_in, r[Side(a, b)], r[Side(b, a)], f)
           /\ out > 0
        THEN out ELSE Refused

get_amount_in(a, b, amount_out) ==
    LET r  == res[{a, b}]
        in == quote_input_amount(amount_out, r[Side(a, b)], r[Side(b, a)], fee[{a, b}])
    IN  IF Quotable(a, b) /\ amount_out > 0 /\ amount_out < r[Side(b, a)] /\ Fits(in)
        THEN in ELSE Refused

Hops(path) == Len(path) - 1

\* amounts[i] is what hop i pays, amounts[0] what the first hop is paid.
get_path_amounts_out(path, amount_in) ==
    LET amounts[i \in 0..Hops(path)] ==
            IF i = 0 THEN amount_in ELSE get_amount_out(path[i], path[i + 1], amounts[i - 1])
    IN  [i \in 0..Hops(path) |-> amounts[i]]

\* The same for an exact output, walked backwards (swap_tokens_for_exact_tokens).
path_amounts_in(path, amount_out) ==
    LET required[j \in 0..Hops(path)] ==
            IF j = 0 THEN amount_out
            ELSE LET i == Hops(path) - j + 1
                 IN  get_amount_in(path[i], path[i + 1], required[j - 1])
    IN  [i \in 0..Hops(path) |-> required[Hops(path) - i]]

\* What each hop must pay for the last one to pay amount_out_min; a zero minimum
\* asks nothing of the hops before it.
get_path_minimums(path, amount_out_min) ==
    LET required[j \in 0..Hops(path)] ==
            IF j = 0 THEN amount_out_min
            ELSE LET i == Hops(path) - j + 1
                 IN  IF required[j - 1] = 0 THEN 0
                     ELSE get_amount_in(path[i], path[i + 1], required[j - 1])
    IN  [i \in 0..Hops(path) |-> required[Hops(path) - i]]

\* What a path quotes for amount_in, Refused if any hop does.
path_out(path, amount_in) == get_path_amounts_out(path, amount_in)[Hops(path)]

(***************************************************************************)
(* get_best_path: direct, then over each hub, then over each ordered pair   *)
(* of positions in the hub list (one hub twice is a path no factory has);   *)
(* the first of the best wins.                                              *)
(***************************************************************************)

Candidates(token_in, token_out) ==
    LET n       == Len(hubs)
        OneHub  == [i \in 1..n |-> <<token_in, hubs[i], token_out>>]
        TwoHubs == [k \in 1..(n * n) |->
                       <<token_in, hubs[((k - 1) \div n) + 1], hubs[((k - 1) % n) + 1], token_out>>]
    IN  << <<token_in, token_out>> >> \o OneHub \o TwoHubs

\* The loops pass over a hub that is one of the two tokens.
Skipped(path) == \E i \in 2..Hops(path) : path[i] \in {path[1], path[Len(path)]}

\* Mutant: a later path replaces the best one whatever it pays.
BetterIfQuoted(best, path, out) ==
    IF out # Refused THEN [path |-> path, out |-> out] ELSE best

Better(best, path, out) ==
    IF out > best.out THEN [path |-> path, out |-> out] ELSE best

get_best_path(token_in, token_out, amount_in) ==
    LET c == Candidates(token_in, token_out)
        best[k \in 0..Len(c)] ==
            IF k = 0 THEN [path |-> <<>>, out |-> Refused]
            ELSE IF Skipped(c[k]) THEN best[k - 1]
            ELSE Better(best[k - 1], c[k], path_out(c[k], amount_in))
    IN  best[Len(c)]

-----------------------------------------------------------------------------
(***************************************************************************)
(* Execution.  s records what the call has written so far; s.ok is FALSE    *)
(* once a pool has refused.  A pool charges what it quoted or, if its fee   *)
(* had decayed, less (FeeEngine, ChargedWithinQuote), and has another fee   *)
(* afterwards: rate.charged and rate.next, the same for all the pools that  *)
(* a call visits.                                                           *)
(***************************************************************************)

Paid(s, a, b, n) == [s EXCEPT !.pool[{a, b}][Side(a, b)] = @ + n]

\* Pair::swap of out units of b, by a pool that was paid in a.
Swapped(s, a, b, out, rate) ==
    LET p      == {a, b}
        charged == Least(s.fee[p], rate.charged)
        outs   == [t \in Token |-> IF t = Side(b, a) THEN out ELSE 0]
        result == SwapResult(s.pool[p], s.res[p], outs, FALSE, charged, ProtocolBps)
    IN  IF /\ p \notin frozen
           /\ SwapAllowed(s.pool[p], s.res[p], outs, FALSE, charged)
           /\ Fits(K(result))
        THEN [s EXCEPT !.pool[p] = result, !.res[p] = result, !.fee[p] = rate.next]
        ELSE [s EXCEPT !.ok = FALSE]

\* Mutant: the amount the next hop is to pay is forwarded, not what it was quoted for.
ForwardsNextOutput(amounts, i) == amounts[i + 1]

\* What the router passes on of hop i's output.
Forwarded(amounts, i) == amounts[i]

\* Hop i pays the recipient, or the router, which pays the next pool.
Hop(s, path, amounts, i, rate) ==
    LET after == Swapped(s, path[i], path[i + 1], amounts[i], rate)
        n     == Forwarded(amounts, i)
    IN  IF ~s.ok THEN s
        ELSE IF i = Hops(path) \/ ~after.ok THEN after
        ELSE Paid([after EXCEPT !.held[path[i + 1]] = @ + amounts[i] - n],
                  path[i + 1], path[i + 2], n)

Execute(path, amounts, rate) ==
    LET start == Paid([ok |-> TRUE, pool |-> pool, res |-> res, fee |-> fee, held |-> held],
                      path[1], path[2], amounts[0])
        s[i \in 0..Hops(path)] ==
            IF i = 0 THEN start ELSE Hop(s[i - 1], path, amounts, i, rate)
    IN  s[Hops(path)]

\* The call is made: what it wrote is committed.
Commit(path, amounts, sweep) ==
    /\ amounts[0] <= Outside(path[1])
    /\ swaps' = swaps + 1
    /\ \E rate \in Rates :
          LET s == Execute(path, amounts, rate)
          IN  /\ s.ok
              /\ pool' = s.pool /\ res' = s.res /\ fee' = s.fee
              /\ held' = IF sweep THEN [s.held EXCEPT ![path[1]] = 0] ELSE s.held
    /\ UNCHANGED <<frozen, hubs, moves>>

\* swap_exact_tokens_for_tokens is the same call.  At the end the router's balance
\* of the input token goes to the recipient.
swap_exact_tokens_multi_hop(path, amount_in, amount_out_min) ==
    LET amounts == get_path_amounts_out(path, amount_in)
        minimums == get_path_minimums(path, amount_out_min)
    IN  /\ swaps < MaxSwaps /\ amount_in > 0 /\ Hops(path) \in 1..3
        /\ amounts[Hops(path)] # Refused
        /\ amounts[Hops(path)] >= amount_out_min
        /\ \A i \in 0..Hops(path) : minimums[i] # Refused
        /\ \A i \in 1..Hops(path) : amounts[i] >= minimums[i]
        /\ Commit(path, amounts, TRUE)

\* amount_in_max only restricts the call.  Nothing is swept here.
swap_tokens_for_exact_tokens(path, amount_out) ==
    LET required == path_amounts_in(path, amount_out)
    IN  /\ swaps < MaxSwaps /\ amount_out > 0 /\ Hops(path) \in 1..3
        /\ required[0] # Refused
        /\ Commit(path, required, FALSE)

\* The swap that reveal_swap makes for a revealed commit.
swap_best_path(token_in, token_out, amount_in, min_out) ==
    LET best == get_best_path(token_in, token_out, amount_in)
    IN  /\ swaps < MaxSwaps /\ token_in # token_out /\ amount_in > 0
        /\ best.out # Refused
        /\ swap_exact_tokens_multi_hop(best.path, amount_in, min_out)

-----------------------------------------------------------------------------

Move == moves < MaxMoves /\ moves' = moves + 1

\* The setter's sweep of what the router holds of a token.
sweep(a) ==
    /\ held[a] > 0
    /\ held' = [held EXCEPT ![a] = 0]
    /\ UNCHANGED <<pool, res, fee, frozen, hubs, swaps, moves>>

\* initialize stores the factory beside the hubs; there is one factory here.
set_hubs(list) ==
    /\ Move
    /\ hubs' = list
    /\ UNCHANGED <<pool, res, fee, frozen, held, swaps>>

\* Tokens sent to the router, or to a pool that counts them as its next input.
SendToRouter(a, n) ==
    /\ Move /\ n <= Outside(a)
    /\ held' = [held EXCEPT ![a] = @ + n]
    /\ UNCHANGED <<pool, res, fee, frozen, hubs, swaps>>

SendToPool(a, b, n) ==
    /\ Move /\ {a, b} \in Pools /\ n <= Outside(a)
    /\ pool' = [pool EXCEPT ![{a, b}][Side(a, b)] = @ + n]
    /\ UNCHANGED <<res, fee, frozen, held, hubs, swaps>>

\* Pair::set_frozen, relayed by the factory.
set_frozen(p) ==
    /\ Move
    /\ frozen' = (IF p \in frozen THEN frozen \ {p} ELSE frozen \cup {p})
    /\ UNCHANGED <<pool, res, fee, held, hubs, swaps>>

(***************************************************************************)
(* The pools' entry points, as other accounts call them (module Pair): what *)
(* they do to balances and reserves, from which the router quotes.  LP is   *)
(* left out: a deposit may be made if some LP supply lets it, and a         *)
(* redemption is of lp_amount out of any burnable_supply.  A direct swap    *)
(* leaves what a route of one hop does, and a flash loan that ended what a  *)
(* transfer and a sync do.                                                  *)
(***************************************************************************)

\* The entry point leaves pool p these balances and reserves.
PoolLeaves(p, balances, reserves) ==
    /\ Fits(K(reserves))
    /\ pool' = [pool EXCEPT ![p] = balances]
    /\ res' = [res EXCEPT ![p] = reserves]
    /\ UNCHANGED <<frozen, held, hubs, swaps>>

sync(p) == Move /\ PoolLeaves(p, pool[p], pool[p]) /\ UNCHANGED fee

\* A transfer of both tokens and the mint that follows it.
mint(p, deposit) ==
    LET funded == [t \in Token |-> pool[p][t] + deposit[t]]
    IN  /\ Move /\ p \notin frozen
        /\ \A a \in p : deposit[SideIn(p, a)] <= Outside(a)
        /\ \A t \in Token : funded[t] - res[p][t] >= MinReserve
        /\ PoolLeaves(p, funded, funded) /\ UNCHANGED fee

\* A deposit of a alone.  It is split by the dynamic fee, which an override hides from
\* get_effective_fee_bps.  What was swapped is recorded, and the deposit on top of it.
mint_with_one_token(a, b, amount) ==
    LET p      == {a, b}
        t      == Side(a, b)
        o      == Side(b, a)
        r      == res[p]
        funded == [pool[p] EXCEPT ![t] = @ + amount]
    IN  /\ Move /\ p \in Pools \ frozen
        /\ amount > 0 /\ amount <= Outside(a)
        /\ r[t] > 0 /\ r[o] > 0
        /\ \E dynamic \in Fees :
            LET swap_in  == compute_swap_in_for_single_side(r[t], amount, dynamic)
                swap_out == quote_output_amount(swap_in, r[t], r[o], dynamic)
                out      == [x \in Token |-> IF x = o THEN swap_out ELSE 0]
                deposit  == [x \in Token |-> IF x = o THEN swap_out ELSE amount - swap_in]
            IN  /\ swap_in \in 1..(amount - 1) /\ swap_out > 0
                /\ QuoteOutFits(swap_in, r[t], r[o], dynamic)
                /\ \E rate \in Rates :
                    LET charged == Least(fee[p], rate.charged)
                        swapped == SwapResult(funded, r, out, TRUE, charged, ProtocolBps)
                    IN  /\ SwapAllowed(funded, r, out, TRUE, charged) /\ Fits(K(swapped))
                        /\ PoolLeaves(p, swapped, [x \in Token |-> swapped[x] + deposit[x]])
                        /\ fee' = [fee EXCEPT ![p] = rate.next]

burn(p, lp_amount, burnable_supply) ==
    LET amount == [t \in Token |-> burn_amount(lp_amount, res[p][t], burnable_supply)]
        after  == [t \in Token |-> res[p][t] - amount[t]]
    IN  /\ Move /\ lp_amount \in 1..burnable_supply
        /\ \A t \in Token : /\ Fits(lp_amount * res[p][t])
                            /\ amount[t] > 0 /\ amount[t] >= MinReserve
                            /\ after[t] > 0 => after[t] >= MinReserve
                            /\ amount[t] <= pool[p][t]
        /\ PoolLeaves(p, [t \in Token |-> pool[p][t] - amount[t]], after)
        /\ UNCHANGED fee

\* A redemption in t alone: the share of the other token is swapped within the pool.
burn_single_side(p, t, lp_amount, burnable_supply) ==
    LET o     == Other(t)
        share == [x \in Token |-> burn_amount(lp_amount, res[p][x], burnable_supply)]
        left  == [x \in Token |-> res[p][x] - share[x]]
    IN  /\ Move /\ p \notin frozen /\ lp_amount \in 1..burnable_supply
        /\ \A x \in Token : Fits(lp_amount * res[p][x]) /\ share[x] > 0
        /\ Fits(K(left) * BPS * BPS)
        /\ \E dynamic \in Fees :
            LET swap_out == IF left[t] = 0 THEN 0
                            ELSE quote_output_amount(share[o], left[o], left[t], dynamic)
                final    == [x \in Token |-> IF x = t THEN left[t] - swap_out ELSE res[p][o]]
                k_after  == (final[t] * BPS) * (final[o] * BPS - share[o] * dynamic)
            IN  /\ left[t] # 0 => /\ left[o] > 0
                                  /\ QuoteOutFits(share[o], left[o], left[t], dynamic)
                /\ \A x \in Token : Fits(final[x] * BPS)
                /\ Fits(k_after) /\ k_after >= K(left) * BPS * BPS
                /\ share[t] + swap_out <= pool[p][t]
                /\ PoolLeaves(p, [pool[p] EXCEPT ![t] = @ - (share[t] + swap_out)], final)
        /\ UNCHANGED fee

Next ==
    \/ \E path \in Paths, n \in Amounts :
          \/ \E least \in Mins : swap_exact_tokens_multi_hop(path, n, least)
          \/ swap_tokens_for_exact_tokens(path, n)
    \/ \E a, b \in Asset, n \in Amounts, least \in Mins : swap_best_path(a, b, n, least)
    \/ \E a \in Asset : sweep(a)
    \/ \E list \in HubLists : set_hubs(list)
    \/ \E a \in Asset, n \in Gifts :
          \/ SendToRouter(a, n)
          \/ \E b \in Asset : SendToPool(a, b, n)
    \/ \E p \in Pools :
          \/ set_frozen(p)
          \/ sync(p)
          \/ \E deposit \in [Token -> Deposits] : mint(p, deposit)
          \/ \E n \in LpAmounts, all \in LpSupplies :
                \/ burn(p, n, all)
                \/ \E t \in Token : burn_single_side(p, t, n, all)
    \/ \E a, b \in Asset, n \in Deposits : mint_with_one_token(a, b, n)

Spec == Init /\ [][Next]_vars

-----------------------------------------------------------------------------
(***************************************************************************)
(* Properties.                                                              *)
(***************************************************************************)

Simple(path) ==
    \A i, j \in 1..Hops(path) :
        i # j => {path[i], path[i + 1]} # {path[j], path[j + 1]}

\* Every pool would still have its dust floor on both sides after paying its hop.
FloorKept(path, amounts) ==
    \A i \in 1..Hops(path) :
        LET r == res[{path[i], path[i + 1]}]
        IN  /\ r[Side(path[i], path[i + 1])] >= MinReserve
            /\ r[Side(path[i + 1], path[i])] - amounts[i] >= MinReserve

Routable == {path \in Paths : \A i \in 1..Hops(path) : {path[i], path[i + 1]} \notin frozen}

\* The products of every pool's K check fit: what it holds after its hop, scaled.
KChecksFit(path, amounts) ==
    \A i \in 1..Hops(path) :
        LET a == path[i]
            b == path[i + 1]
        IN  Fits(((pool[{a, b}][Side(a, b)] + amounts[i - 1])
                     * (pool[{a, b}][Side(b, a)] - amounts[i])) * BPS * BPS)

\* Every pool of the path holds what it has recorded.
Backed(path) ==
    \A i \in 1..Hops(path), t \in Token :
        res[{path[i], path[i + 1]}][t] <= pool[{path[i], path[i + 1]}][t]

\* A route that was quoted can be made: when no pool is visited twice or frozen or
\* taken below its dust floor, and no product overflows, every hop of an exact-input
\* and of an exact-output route passes its pool's K check with the amounts quoted
\* before the first hop, whatever the fees become on the way and whatever else the
\* pools were sent.  That is so of pools that hold what they have recorded.  One that
\* mint_with_one_token left with more reserves than holdings is quoted from those
\* reserves, but counts what it lacks against a hop's input, and refuses routes it was
\* quoted for until a sync.
QuotedRouteExecutes ==
    \A path \in Routable, n \in Amounts :
        Simple(path) =>
            \A amounts \in {get_path_amounts_out(path, n), path_amounts_in(path, n)} :
                /\ \A i \in 0..Hops(path) : amounts[i] # Refused
                /\ Backed(path) /\ FloorKept(path, amounts) /\ KChecksFit(path, amounts)
                => \A rate \in Rates : Execute(path, amounts, rate).ok

\* The products of every quote along a path fit, given what its hops are paid.
QuotesFit(path, amounts) ==
    \A i \in 1..Hops(path) :
        LET p == {path[i], path[i + 1]}
        IN  QuoteOutFits(amounts[i - 1], res[p][Side(path[i], path[i + 1])],
                         res[p][Side(path[i + 1], path[i])], fee[p])

\* The input that swap_tokens_for_exact_tokens computes for a path is the least one
\* for which the path quotes the output asked for: neither short by a rounding of
\* some hop, nor more than a trader would have paid with an exact-input swap.  (An
\* exact input is quoted in 128 bits, an exact output in 256: for large reserves only
\* the second may be answered.)
PathInputLeast ==
    \A path \in Paths, n \in Amounts :
        LET needed == path_amounts_in(path, n)[0]
        IN  needed # Refused =>
                /\ QuotesFit(path, get_path_amounts_out(path, needed))
                       => path_out(path, needed) >= n
                /\ path_out(path, needed - 1) < n

\* The per-hop minimums of swap_exact_tokens_multi_hop never refuse a route whose
\* final output meets amount_out_min: what get_path_minimums derives backwards is
\* within what get_path_amounts_out derived forwards.  The comment where they are checked
\* has them prevent "intermediate value loss where a middle hop experiences extreme
\* slippage but the final hop could still meet the global minimum": both walks read the
\* same reserves in the same call, so there is no such route to prevent.
HopMinimumsImplied ==
    \A path \in Paths, n \in Amounts :
        LET amounts == get_path_amounts_out(path, n)
            out     == amounts[Hops(path)]
        IN  out # Refused =>
                \A least \in 0..out :
                    LET minimums == get_path_minimums(path, least)
                    IN  \A i \in 0..Hops(path) : minimums[i] \in 0..amounts[i]

\* get_best_path finds the most any path over the hubs pays, and names a path that
\* pays it.
BestPathIsBest ==
    \A a, b \in Asset, n \in Amounts :
        LET best == get_best_path(a, b, n)
            Over == {path \in Paths : /\ path[1] = a /\ path[Len(path)] = b
                                     /\ \A i \in 2..Hops(path) : path[i] \in Range(hubs) \ {a, b}}
        IN  a # b => /\ \A path \in Over : path_out(path, n) <= best.out
                     /\ best.out # Refused => /\ best.path \in Over
                                              /\ path_out(best.path, n) = best.out

\* Nothing of a trade stays on the router: a call that writes a pool's reserves never
\* leaves the router with more of any token than it had, the tokens of intermediate
\* hops included.
NothingStranded == [][res' # res => \A a \in Asset : held'[a] <= held[a]]_vars

\* A part of a one-token deposit is swapped first: the largest x with
\* f x^2 + r (B + f) x <= B r s, the quadratic that makes the rest proportional
\* to the reserves after the swap (compute_swap_in_for_single_side).
SplitSolvesQuadratic ==
    \A p \in Pools, t \in Token, s \in Amounts :
        LET r == res[p][t]
            f == fee_factor(fee[p])
            Swapping(x) == f * x * x + r * (BPS + f) * x
            x == compute_swap_in_for_single_side(r, s, fee[p])
        IN  Swapping(x) <= BPS * r * s /\ BPS * r * s < Swapping(x + 1)

\* Mutant: one step only.
NewtonOnce(value) == IF (value + 1) \div 2 < value THEN (value + 1) \div 2 ELSE value

\* The loop of math::sqrt and math::sqrt_u256.
newton_sqrt(value) ==
    LET from[x \in 1..value] ==
            LET y == (x + value \div x) \div 2
            IN  IF y < x THEN from[y] ELSE x
    IN  IF value = 0 THEN 0 ELSE from[value]

\* Newton's iteration ends at the integer square root, for K and for the numbers
\* next to a square: initial_liquidity is the root that AmmMath takes it to be.
NewtonIsRoot ==
    \A p \in Pools :
        LET k == K(res[p])
            q == res[p]["A"] * res[p]["A"]
        IN  \A v \in {k, k - 1, q, q - 1} \cap Nat : newton_sqrt(v) = sqrt(v)

=============================================================================
