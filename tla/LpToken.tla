------------------------------ MODULE LpToken ------------------------------
(***************************************************************************)
(* The LP token of a pool (contracts/lp_token): balances, total supply,     *)
(* allowances that expire, an administrator (the pool) and a pause switch.  *)
(*                                                                          *)
(* Pair models the token as far as a pool sees it; this module models the   *)
(* whole contract.  A call that returns an error changes nothing, so each   *)
(* entry point is one action guarded by the code's early returns; whoever   *)
(* must sign is the parameter that require_auth is called on.               *)
(*                                                                          *)
(* Amounts are signed, as in the code, and only transfer looks at their     *)
(* sign.  A holder's negative burn creates LP, a spender's negative         *)
(* burn_from also raises its allowance, and the administrator's negative    *)
(* mint may leave a balance below zero.  What stops them is the range of    *)
(* i128, where checked and plain arithmetic both end the call.              *)
(*                                                                          *)
(* Not in the model: permit (see the README) and the archival of entries.   *)
(***************************************************************************)
EXTENDS Integers, FiniteSets, Functions

CONSTANTS
    Account,          \* addresses that hold LP
    Spender,          \* addresses that are given allowances
    Admins,           \* addresses that may become the administrator
    FirstAdmin,       \* the administrator initialize stores
    MaxMintPerCall,   \* MAX_MINT_PER_CALL
    MaxTotalSupply,   \* MAX_TOTAL_SUPPLY
    MaxI128,          \* the largest i128
    Amounts,          \* model bound: amounts of a call, of either sign
    LastLedger        \* model bound on the ledger sequence

ASSUME LpTokenAssumption ==
    /\ IsFiniteSet(Account) /\ Spender \subseteq Account
    /\ FirstAdmin \in Admins
    /\ MaxMintPerCall \in Nat /\ MaxTotalSupply \in Nat /\ MaxI128 \in Nat
    /\ LastLedger \in Nat /\ Amounts \subseteq Int

VARIABLES
    balance,          \* Balance(id)
    total_supply,     \* TotalSupply
    allowance,        \* Allowance(from, spender)
    admin,            \* Admin
    paused,           \* Paused
    ledger,           \* the ledger sequence
    used              \* LP each spender took since the owner's last approve, less
                      \* what it gave by negative burns, and the terms of that
                      \* approve (history, for the properties)

vars == <<balance, total_supply, allowance, admin, paused, ledger, used>>

NoAllowance == [amount |-> 0, expiration |-> 0]
NothingUsed == [taken |-> 0, granted |-> 0, until |-> 0]

Init ==
    /\ balance = [a \in Account |-> 0] /\ total_supply = 0
    /\ allowance = [p \in Account \X Spender |-> NoAllowance]
    /\ admin = FirstAdmin /\ paused = FALSE
    /\ ledger = 0
    /\ used = [p \in Account \X Spender |-> NothingUsed]

-----------------------------------------------------------------------------

Fits(n) == n \in (-MaxI128 - 1)..MaxI128

Live(entry) == entry.expiration > ledger

Spent(entry, amount) ==
    IF entry.amount = amount THEN NoAllowance ELSE [entry EXCEPT !.amount = @ - amount]

\* Mutants: the deadline is not checked; nothing is deducted.
SpendExpired(from, spender, amount) ==
    LET p == <<from, spender>>
    IN  /\ amount <= allowance[p].amount
        /\ Fits(allowance[p].amount - amount)
        /\ allowance' = [allowance EXCEPT ![p] = Spent(@, amount)]
        /\ used' = [used EXCEPT ![p].taken = @ + amount]
SpendUndeducted(from, spender, amount) ==
    LET p == <<from, spender>>
    IN  /\ Live(allowance[p]) /\ amount <= allowance[p].amount
        /\ Fits(allowance[p].amount - amount)
        /\ used' = [used EXCEPT ![p].taken = @ + amount]
        /\ UNCHANGED allowance

\* A negative amount passes the comparison and raises the entry.
spend_allowance(from, spender, amount) ==
    LET p == <<from, spender>>
    IN  /\ Live(allowance[p]) /\ amount <= allowance[p].amount
        /\ Fits(allowance[p].amount - amount)
        /\ allowance' = [allowance EXCEPT ![p] = Spent(@, amount)]
        /\ used' = [used EXCEPT ![p].taken = @ + amount]

\* Mutant: both balances are read before either is written.
TransferReadsFirst(from, to, amount) ==
    \/ amount = 0 /\ UNCHANGED balance
    \/ /\ amount > 0 /\ amount <= balance[from]
       /\ balance' = [balance EXCEPT ![from] = balance[from] - amount,
                                     ![to] = balance[to] + amount]
       /\ Fits(balance'[to])

\* The receiver's balance is read after the sender's was written, so a transfer
\* to oneself changes nothing.  A transfer of zero does not look at the balances.
transfer_internal(from, to, amount) ==
    \/ amount = 0 /\ UNCHANGED balance
    \/ /\ amount > 0 /\ amount <= balance[from]
       /\ balance' = [balance EXCEPT ![from] = @ - amount, ![to] = @ + amount]
       /\ Fits(balance'[to])

transfer(from, to, amount) ==
    /\ ~paused
    /\ transfer_internal(from, to, amount)
    /\ UNCHANGED <<total_supply, allowance, admin, paused, ledger, used>>

\* An owner that spends its own LP needs no allowance.
transfer_from(spender, from, to, amount) ==
    /\ ~paused
    /\ IF spender # from
       THEN spend_allowance(from, spender, amount)
       ELSE UNCHANGED <<allowance, used>>
    /\ transfer_internal(from, to, amount)
    /\ UNCHANGED <<total_supply, admin, paused, ledger>>

mint(signer, to, amount) ==
    /\ ~paused
    /\ signer = admin
    /\ amount <= MaxMintPerCall
    /\ Fits(balance[to] + amount) /\ Fits(total_supply + amount)
    /\ total_supply + amount <= MaxTotalSupply
    /\ balance' = [balance EXCEPT ![to] = @ + amount]
    /\ total_supply' = total_supply + amount
    /\ UNCHANGED <<allowance, admin, paused, ledger, used>>

\* Any holder may burn, and a negative amount too.
burn(from, amount) ==
    /\ ~paused
    /\ amount <= balance[from]
    /\ Fits(balance[from] - amount) /\ Fits(total_supply - amount)
    /\ balance' = [balance EXCEPT ![from] = @ - amount]
    /\ total_supply' = total_supply - amount
    /\ UNCHANGED <<allowance, admin, paused, ledger, used>>

\* Mutant: the pause switch is forgotten.
BurnFromWhilePaused(spender, from, amount) ==
    /\ spend_allowance(from, spender, amount)
    /\ amount <= balance[from]
    /\ Fits(balance[from] - amount) /\ Fits(total_supply - amount)
    /\ balance' = [balance EXCEPT ![from] = @ - amount]
    /\ total_supply' = total_supply - amount
    /\ UNCHANGED <<admin, paused, ledger>>

\* Here an owner does need an allowance to itself.
burn_from(spender, from, amount) ==
    /\ ~paused
    /\ spend_allowance(from, spender, amount)
    /\ amount <= balance[from]
    /\ Fits(balance[from] - amount) /\ Fits(total_supply - amount)
    /\ balance' = [balance EXCEPT ![from] = @ - amount]
    /\ total_supply' = total_supply - amount
    /\ UNCHANGED <<admin, paused, ledger>>

\* Allowed while paused.  A zero amount removes the entry whatever the deadline.
approve(from, spender, amount, expiration) ==
    LET p == <<from, spender>>
    IN  /\ amount # 0 => expiration > ledger
        /\ allowance' = [allowance EXCEPT
               ![p] = IF amount = 0 THEN NoAllowance
                      ELSE [amount |-> amount, expiration |-> expiration]]
        /\ used' = [used EXCEPT
               ![p] = [taken |-> 0, granted |-> amount, until |-> expiration]]
        /\ UNCHANGED <<balance, total_supply, admin, paused, ledger>>

\* set_admin is an alias.
admin_transfer(signer, new_admin) ==
    /\ signer = admin
    /\ admin' = new_admin
    /\ UNCHANGED <<balance, total_supply, allowance, paused, ledger, used>>

pause(signer) ==
    /\ signer = admin
    /\ paused' = TRUE
    /\ UNCHANGED <<balance, total_supply, allowance, admin, ledger, used>>

unpause(signer) ==
    /\ signer = admin
    /\ paused' = FALSE
    /\ UNCHANGED <<balance, total_supply, allowance, admin, ledger, used>>

CloseLedger ==
    /\ ledger < LastLedger
    /\ ledger' = ledger + 1
    /\ UNCHANGED <<balance, total_supply, allowance, admin, paused, used>>

Next ==
    \/ \E from \in Account, amount \in Amounts :
          \/ \E to \in Account : transfer(from, to, amount)
          \/ \E signer \in Admins : mint(signer, from, amount)
          \/ burn(from, amount)
          \/ \E spender \in Spender :
                \/ \E to \in Account : transfer_from(spender, from, to, amount)
                \/ burn_from(spender, from, amount)
                \/ \E expiration \in 0..(LastLedger + 1) :
                      approve(from, spender, amount, expiration)
    \/ \E signer \in Admins :
          \/ \E new_admin \in Admins : admin_transfer(signer, new_admin)
          \/ pause(signer)
          \/ unpause(signer)
    \/ CloseLedger

Spec == Init /\ [][Next]_vars

-----------------------------------------------------------------------------
(***************************************************************************)
(* Properties.                                                              *)
(***************************************************************************)

\* However LP is created and destroyed, by mints, by burns, by negative burns, and
\* whatever is transferred, to oneself included, total_supply stays the sum of the
\* balances: the supply that a pool prices by is never off the LP that exists.
Conservation == total_supply = SumFunction(balance)

\* Between two approvals a spender takes, over any number of transfer_from and
\* burn_from calls, on balance no more than the last approval granted, and what it
\* did not take is what the stored entry still holds.  On balance, because a
\* negative burn_from gives the owner LP and the spender as much more allowance.
AllowanceHonoured ==
    \A p \in Account \X Spender :
        /\ allowance[p].amount + used[p].taken = used[p].granted
        /\ used[p].taken > 0 => used[p].taken <= used[p].granted

\* No LP leaves or reaches an owner on an allowance in the ledger of its deadline or
\* later, also when a part of it was spent before and rewritten by spend_allowance.
DeadlineHonoured ==
    [][\A p \in Account \X Spender :
          balance' # balance /\ used'[p].taken # used[p].taken => ledger < used[p].until]_vars

\* "every function that moves LP balances or changes supply" is blocked while
\* the token is paused (pause), the allowance paths included.
PausedTokenStandsStill == [][paused => UNCHANGED <<balance, total_supply>>]_vars

=============================================================================
