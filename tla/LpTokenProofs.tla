--------------------------- MODULE LpTokenProofs ---------------------------
(***************************************************************************)
(* What holds of the LP token for every set of holders and spenders, every  *)
(* amount, negative ones included, and every bound on a mint, on the supply *)
(* and on an integer.                                                       *)
(***************************************************************************)
EXTENDS LpToken, LedgerArithmetic

Terms == Account \X Spender

LpTypeOK ==
    /\ balance \in [Account -> Int] /\ total_supply \in Int
    /\ allowance \in [Terms -> [amount: Int, expiration: Nat]]
    /\ used \in [Terms -> [taken: Int, granted: Int, until: Nat]]
    /\ ledger \in Nat

\* What is left of an allowance is what its approval granted less what was taken, it
\* is not below zero once something was, and it ends when that approval said.
TermsOK ==
    \A p \in Terms :
        /\ allowance[p].amount + used[p].taken = used[p].granted
        /\ used[p].taken # 0 => allowance[p].amount >= 0
        /\ allowance[p] = NoAllowance \/ allowance[p].expiration = used[p].until

\* The supply is the sum of the balances.
LedgerOK == IsSum(balance, Account, total_supply)

LpInv == LpTypeOK /\ LedgerOK /\ TermsOK

\* A call of spend_allowance keeps the terms and takes nothing after the deadline.
LEMMA SpendOK ==
    ASSUME LpTypeOK, TermsOK, NEW from \in Account, NEW spender \in Spender,
           NEW amount \in Int, spend_allowance(from, spender, amount), UNCHANGED ledger
    PROVE  /\ allowance' \in [Terms -> [amount: Int, expiration: Nat]]
           /\ used' \in [Terms -> [taken: Int, granted: Int, until: Nat]]
           /\ TermsOK'
           /\ \A p \in Terms : used'[p].taken # used[p].taken => ledger < used[p].until
<1> DEFINE q == <<from, spender>>
           was == allowance[q]
<1>1. q \in Terms /\ was \in [amount: Int, expiration: Nat]
      /\ used[q] \in [taken: Int, granted: Int, until: Nat] /\ ledger \in Nat
  BY DEF Terms, LpTypeOK
<1>2. was.expiration > ledger /\ amount <= was.amount
  BY DEF spend_allowance, Live
<1>3. Spent(was, amount) \in [amount: Int, expiration: Nat]
  BY <1>1, <1>2 DEF Spent, NoAllowance
<1>4. Spent(was, amount).amount = was.amount - amount
  BY <1>1, <1>2 DEF Spent, NoAllowance
<1>5. Spent(was, amount) = NoAllowance \/ Spent(was, amount).expiration = was.expiration
  BY <1>1 DEF Spent
<1>6. was.expiration = used[q].until
  <2>1. was # NoAllowance
    BY <1>1, <1>2 DEF NoAllowance
  <2> QED
    BY <2>1, <1>1 DEF TermsOK
<1>7. /\ allowance' = [allowance EXCEPT ![q] = Spent(was, amount)]
      /\ used' = [used EXCEPT ![q].taken = used[q].taken + amount]
  BY DEF spend_allowance
<1>8. \A p \in Terms : p # q => allowance'[p] = allowance[p] /\ used'[p] = used[p]
  BY <1>7 DEF LpTypeOK
<1>9. /\ allowance'[q] = Spent(was, amount)
      /\ used'[q] = [used[q] EXCEPT !.taken = used[q].taken + amount]
  BY <1>1, <1>7 DEF LpTypeOK
<1>10. /\ used'[q].taken = used[q].taken + amount
       /\ used'[q].granted = used[q].granted
       /\ used'[q].until = used[q].until
  BY <1>1, <1>9
<1>11. TermsOK'
  <2>1. SUFFICES ASSUME NEW p \in Terms
                 PROVE  /\ allowance'[p].amount + used'[p].taken = used'[p].granted
                        /\ used'[p].taken # 0 => allowance'[p].amount >= 0
                        /\ \/ allowance'[p] = NoAllowance
                           \/ allowance'[p].expiration = used'[p].until
    BY DEF TermsOK
  <2>2. CASE p # q
    BY <2>1, <2>2, <1>8 DEF TermsOK
  <2>3. CASE p = q
    <3>1. was.amount + used[q].taken = used[q].granted
      BY <1>1 DEF TermsOK
    <3>2. allowance'[q].amount + used'[q].taken = used'[q].granted
      <4>1. allowance'[q].amount = was.amount - amount
        BY <1>4, <1>9
      <4>2. was.amount \in Int /\ used[q].taken \in Int
        BY <1>1
      <4> HIDE DEF was, q
      <4> QED
        BY <4>1, <4>2, <3>1, <1>10
    <3>3. allowance'[q].amount >= 0
      BY <1>1, <1>2, <1>4, <1>9
    <3>4. allowance'[q] = NoAllowance \/ allowance'[q].expiration = used'[q].until
      BY <1>5, <1>6, <1>9, <1>10
    <3> QED
      BY <2>3, <3>2, <3>3, <3>4
  <2> QED
    BY <2>2, <2>3
<1>12. used' \in [Terms -> [taken: Int, granted: Int, until: Nat]]
  <2>1. used'[q] \in [taken: Int, granted: Int, until: Nat]
    BY <1>1, <1>9
  <2> HIDE DEF q
  <2>2. used' = [used EXCEPT ![q] = used'[q]]
    BY <1>1, <1>7 DEF LpTypeOK
  <2> QED
    BY <1>1, <2>1, <2>2 DEF LpTypeOK
<1>13. allowance' \in [Terms -> [amount: Int, expiration: Nat]]
  BY <1>1, <1>3, <1>7 DEF LpTypeOK
<1>14. \A p \in Terms : used'[p].taken # used[p].taken => ledger < used[p].until
  <2>1. \A p \in Terms : used[p].taken \in Int
    BY DEF LpTypeOK
  <2> QED
    BY <1>1, <1>2, <1>6, <1>8, <2>1
<1> QED
  BY <1>11, <1>12, <1>13, <1>14

\* transfer_internal moves LP and neither creates nor destroys any, to oneself included.
LEMMA TransferOK ==
    ASSUME LpTypeOK, LedgerOK, NEW from \in Account, NEW to \in Account,
           NEW amount \in Int, transfer_internal(from, to, amount)
    PROVE  balance' \in [Account -> Int] /\ IsSum(balance', Account, total_supply)
<1>1. /\ balance \in [Account -> Int] /\ total_supply \in Int
      /\ balance[from] \in Int /\ balance[to] \in Int
  BY DEF LpTypeOK
<1>2. CASE from = to \/ amount = 0
  <2>1. balance' = balance
    BY <1>1, <1>2 DEF transfer_internal
  <2> QED
    BY <1>1, <2>1 DEF LedgerOK
<1>3. CASE from # to /\ amount # 0
  <2> DEFINE v == balance[from] - amount
             w == balance[to] + amount
  <2>1. v \in Int /\ w \in Int
    BY <1>1
  <2>2. balance' = [balance EXCEPT ![from] = v, ![to] = w]
    BY <1>1, <1>3 DEF transfer_internal
  <2>3. total_supply - balance[from] + v - balance[to] + w = total_supply
    BY <1>1
  <2> HIDE DEF v, w
  <2>4. IsSum([balance EXCEPT ![from] = v, ![to] = w], Account,
              total_supply - balance[from] + v - balance[to] + w)
    BY <1>1, <1>3, <2>1, SumUpdateTwoInt DEF LedgerOK
  <2> QED
    BY <1>1, <2>1, <2>2, <2>3, <2>4
<1> QED
  BY <1>2, <1>3

\* The balance and the supply change by the same amount in mint and in the burns.
LEMMA SupplyOK ==
    ASSUME LpTypeOK, LedgerOK, NEW a \in Account, NEW v \in Int, NEW supply,
           supply = total_supply - balance[a] + v
    PROVE  /\ [balance EXCEPT ![a] = v] \in [Account -> Int]
           /\ supply \in Int
           /\ IsSum([balance EXCEPT ![a] = v], Account, supply)
<1>1. balance \in [Account -> Int] /\ total_supply \in Int /\ balance[a] \in Int
  BY DEF LpTypeOK
<1>2. IsSum([balance EXCEPT ![a] = v], Account, supply)
  BY <1>1, SumUpdateInt DEF LedgerOK
<1> QED
  BY <1>1, <1>2

\* Nothing is taken on an allowance in the ledger of its deadline or later.
InTime ==
    \A p \in Terms :
        balance' # balance /\ used'[p].taken # used[p].taken => ledger < used[p].until

\* A burn keeps the invariant's part about the supply.
LEMMA BurnLedger ==
    ASSUME LpTypeOK, LedgerOK, NEW from \in Account, NEW amount \in Int,
           balance' = [balance EXCEPT ![from] = @ - amount],
           total_supply' = total_supply - amount
    PROVE  balance' \in [Account -> Int] /\ total_supply' \in Int /\ LedgerOK'
<1> DEFINE v == balance[from] - amount
<1>1. v \in Int /\ total_supply - amount = total_supply - balance[from] + v
  BY DEF LpTypeOK
<1>2. balance' = [balance EXCEPT ![from] = v]
  BY DEF LpTypeOK
<1> HIDE DEF v
<1>3. LET supply == total_supply - amount
      IN  /\ [balance EXCEPT ![from] = v] \in [Account -> Int]
          /\ supply \in Int
          /\ IsSum([balance EXCEPT ![from] = v], Account, supply)
  BY <1>1, SupplyOK
<1> QED
  BY <1>2, <1>3 DEF LedgerOK

\* One step of the token.
LEMMA LpStep ==
    ASSUME LpInv, [Next]_vars
    PROVE  LpInv' /\ InTime
<1> USE LpTokenAssumption DEF LpInv
<1>1. \A p \in Terms : used[p].taken \in Int
  BY DEF LpTypeOK
<1>2. ASSUME UNCHANGED <<allowance, used>>
      PROVE  /\ allowance' \in [Terms -> [amount: Int, expiration: Nat]]
             /\ used' \in [Terms -> [taken: Int, granted: Int, until: Nat]]
             /\ TermsOK' /\ InTime
  BY <1>1, <1>2 DEF LpTypeOK, TermsOK, InTime
<1>3. ASSUME NEW from \in Account, NEW to \in Account, NEW amount \in Amounts,
             transfer(from, to, amount)
      PROVE  LpInv' /\ InTime
  BY <1>2, <1>3, TransferOK DEF transfer, LpTypeOK, LedgerOK
<1>4. ASSUME NEW from \in Account, NEW amount \in Amounts, NEW signer \in Admins,
             mint(signer, from, amount)
      PROVE  LpInv' /\ InTime
  <2> DEFINE v == balance[from] + amount
             supply == total_supply + amount
  <2>1. v \in Int /\ supply = total_supply - balance[from] + v
    BY DEF LpTypeOK
  <2>2. balance' = [balance EXCEPT ![from] = v] /\ total_supply' = supply
    BY <1>4 DEF mint, LpTypeOK
  <2> HIDE DEF v, supply
  <2>3. balance' \in [Account -> Int] /\ total_supply' \in Int /\ LedgerOK'
    BY <2>1, <2>2, SupplyOK DEF LedgerOK
  <2> QED
    BY <1>2, <1>4, <2>3 DEF mint, LpTypeOK
<1>5. ASSUME NEW from \in Account, NEW amount \in Amounts, burn(from, amount)
      PROVE  LpInv' /\ InTime
  <2>1. balance' \in [Account -> Int] /\ total_supply' \in Int /\ LedgerOK'
    BY <1>5, BurnLedger DEF burn
  <2> QED
    BY <1>2, <1>5, <2>1 DEF burn, LpTypeOK
<1>6. ASSUME NEW from \in Account, NEW to \in Account, NEW amount \in Amounts,
             NEW spender \in Spender, transfer_from(spender, from, to, amount)
      PROVE  LpInv' /\ InTime
  <2>1. /\ allowance' \in [Terms -> [amount: Int, expiration: Nat]]
        /\ used' \in [Terms -> [taken: Int, granted: Int, until: Nat]]
        /\ TermsOK' /\ InTime
    BY <1>2, <1>6, SpendOK DEF transfer_from, InTime
  <2> QED
    BY <1>6, <2>1, TransferOK DEF transfer_from, LpTypeOK, LedgerOK
<1>7. ASSUME NEW from \in Account, NEW amount \in Amounts,
             NEW spender \in Spender, burn_from(spender, from, amount)
      PROVE  LpInv' /\ InTime
  <2>1. /\ allowance' \in [Terms -> [amount: Int, expiration: Nat]]
        /\ used' \in [Terms -> [taken: Int, granted: Int, until: Nat]]
        /\ TermsOK' /\ InTime
    BY <1>7, SpendOK DEF burn_from, InTime
  <2>2. balance' \in [Account -> Int] /\ total_supply' \in Int /\ LedgerOK'
    BY <1>7, BurnLedger DEF burn_from
  <2> QED
    BY <1>7, <2>1, <2>2 DEF burn_from, LpTypeOK
<1>8. ASSUME NEW from \in Account, NEW amount \in Amounts, NEW spender \in Spender,
             NEW expiration \in 0..(LastLedger + 1),
             approve(from, spender, amount, expiration)
      PROVE  LpInv' /\ InTime
  <2> DEFINE q == <<from, spender>>
             entry == IF amount = 0 THEN NoAllowance
                      ELSE [amount |-> amount, expiration |-> expiration]
             terms == [taken |-> 0, granted |-> amount, until |-> expiration]
  <2>1. q \in Terms /\ amount \in Int /\ expiration \in Nat
    BY DEF Terms
  <2>2. /\ entry \in [amount: Int, expiration: Nat] /\ entry.amount = amount
        /\ entry = NoAllowance \/ entry.expiration = expiration
    BY <2>1 DEF NoAllowance
  <2>3. terms \in [taken: Int, granted: Int, until: Nat]
    BY <2>1
  <2>4. /\ allowance' = [allowance EXCEPT ![q] = entry]
        /\ used' = [used EXCEPT ![q] = terms]
    BY <1>8 DEF approve
  <2>5. terms.taken = 0 /\ terms.granted = amount /\ terms.until = expiration
    OBVIOUS
  <2> HIDE DEF q, entry, terms
  <2>6. /\ allowance' \in [Terms -> [amount: Int, expiration: Nat]]
        /\ used' \in [Terms -> [taken: Int, granted: Int, until: Nat]]
    BY <2>1, <2>2, <2>3, <2>4 DEF LpTypeOK
  <2>7. /\ allowance'[q] = entry /\ used'[q] = terms
        /\ \A p \in Terms : p # q => allowance'[p] = allowance[p] /\ used'[p] = used[p]
    BY <2>1, <2>4 DEF LpTypeOK
  <2>8. TermsOK'
    BY <2>1, <2>2, <2>5, <2>7 DEF TermsOK
  <2>9. InTime
    BY <1>8 DEF approve, InTime
  <2> QED
    BY <1>8, <2>6, <2>8, <2>9 DEF approve, LpTypeOK, LedgerOK
<1>9. CASE UNCHANGED <<balance, total_supply, allowance, ledger, used>>
  BY <1>2, <1>9 DEF LpTypeOK, LedgerOK
<1>10. CASE CloseLedger
  BY <1>2, <1>10 DEF CloseLedger, LpTypeOK, LedgerOK
<1>11. ASSUME NEW signer \in Admins,
              \/ \E new_admin \in Admins : admin_transfer(signer, new_admin)
              \/ pause(signer) \/ unpause(signer)
       PROVE  UNCHANGED <<balance, total_supply, allowance, ledger, used>>
  BY <1>11 DEF admin_transfer, pause, unpause
<1> QED
  BY <1>3, <1>4, <1>5, <1>6, <1>7, <1>8, <1>9, <1>10, <1>11 DEF Next, vars

\* The ledger, the allowances and the record of what was granted in any reachable state.
THEOREM LpInvariance == Spec => []LpInv
<1>1. Init => LpInv
  <2> SUFFICES ASSUME Init PROVE LpInv
    OBVIOUS
  <2>1. LpTypeOK /\ TermsOK
    BY DEF Init, LpTypeOK, TermsOK, Terms, NoAllowance, NothingUsed
  <2>2. LedgerOK
    BY LpTokenAssumption, SumZero DEF Init, LedgerOK
  <2> QED
    BY <2>1, <2>2 DEF LpInv
<1> QED
  BY <1>1, LpStep, PTL DEF Spec

\* total_supply is the sum of the balances after any number of mints, burns and
\* transfers, to oneself included.
THEOREM AlwaysConserved == Spec => []Conservation
<1>1. LpInv => Conservation
  BY LpTokenAssumption, SumIsSumFunctionInt DEF LpInv, LpTypeOK, LedgerOK, Conservation
<1> QED
  BY <1>1, LpInvariance, PTL

\* A spender never takes, on balance, more than its last approval granted, over any
\* number of transfer_from and burn_from calls, whatever the amounts and their signs.
THEOREM AllowanceAlwaysHonoured == Spec => []AllowanceHonoured
<1>1. LpInv => AllowanceHonoured
  <2> SUFFICES ASSUME LpInv, NEW p \in Terms
               PROVE  /\ allowance[p].amount + used[p].taken = used[p].granted
                      /\ used[p].taken > 0 => used[p].taken <= used[p].granted
    BY DEF AllowanceHonoured, Terms
  <2>1. allowance[p].amount \in Int /\ used[p].taken \in Int
    BY DEF LpInv, LpTypeOK
  <2> QED
    BY <2>1 DEF LpInv, TermsOK
<1> QED
  BY <1>1, LpInvariance, PTL

\* Nothing is taken on an allowance from the ledger of its deadline on, also when
\* spend_allowance rewrote what was left of it.
THEOREM DeadlineAlwaysHonoured == Spec => DeadlineHonoured
<1> DEFINE Honoured == \A p \in Account \X Spender :
                          balance' # balance /\ used'[p].taken # used[p].taken
                              => ledger < used[p].until
<1>1. LpInv /\ [Next]_vars => [Honoured]_vars
  BY LpStep DEF InTime, Terms
<1>2. Spec => [][Honoured]_vars
  BY <1>1, LpInvariance, PTL DEF Spec
<1> QED
  BY <1>2 DEF DeadlineHonoured

\* While the token is paused no path, the allowance ones included, moves or creates LP.
THEOREM PausedAlwaysStandsStill == Spec => PausedTokenStandsStill
<1> DEFINE Still == paused => UNCHANGED <<balance, total_supply>>
<1>1. [Next]_vars => [Still]_vars
  BY DEF Next, transfer, transfer_from, mint, burn, burn_from, approve, admin_transfer,
         pause, unpause, CloseLedger
<1>2. Spec => [][Still]_vars
  BY <1>1, PTL DEF Spec
<1> QED
  BY <1>2 DEF PausedTokenStandsStill

=============================================================================
