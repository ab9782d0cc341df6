------------------------------ MODULE Factory ------------------------------
(***************************************************************************)
(* The factory (contracts/factory): the registry of pairs, the signers and  *)
(* their quorum, the fee configuration, the freeze of single pairs, and the *)
(* upgrade of the factory itself after a delay.                             *)
(*                                                                          *)
(* A pair's address is derived from its two tokens in sorted order: here it *)
(* is the set of the two, and the sorting is the set's indifference to      *)
(* order.  Whoever must sign a call is a parameter, and a call that returns *)
(* an error, or that calls a contract which does, changes nothing.  The     *)
(* relays of an LP pause and of an idle threshold change only the pair:     *)
(* they are set_lp_token_paused in Pair and set_stale_threshold in          *)
(* FeeEngine.  An upgrade installs code that behaves as this code does.     *)
(* A new pair asks the factory back whether a token is a pair or an LP      *)
(* token of its own; the host refuses to re-enter the factory and a failed  *)
(* answer counts as no, so the question restricts nothing.                  *)
(***************************************************************************)
EXTENDS Integers, FiniteSets, Functions, SequencesExt

CONSTANTS
    Tokens,           \* addresses of tokens
    Addr,             \* addresses that sign calls
    SignerLists,      \* model bound: signer lists initialize is called with
    Presented,        \* model bound: signer lists a governed call presents
    Setters,          \* model bound: addresses that may become fee_to_setter
    Hashes,           \* model bound: hashes of code to upgrade to
    FirstHash,        \* the code the factory was deployed with
    MaxSigners,       \* 10
    MaxProtocolFeeBps,\* MAX_PROTOCOL_FEE_BPS
    MaxPairFeeBps,    \* MAX_PAIR_FEE_BPS
    FeeChoices,       \* model bound: rates a setter asks for
    UpgradeDelay,     \* UPGRADE_DELAY_LEDGERS
    FeeTokens,        \* model bound: tokens in which protocol fees are recorded
    MaxPairs,         \* model bound on the number of pairs
    MaxPage,          \* pairs in a page, 50
    MaxRecorded,      \* model bound on a recorded protocol fee
    None,             \* the absence of an address
    LastLedger        \* model bound on the ledger sequence

PairAddrs == {p \in SUBSET Tokens : Cardinality(p) = 2}

ASSUME FactoryAssumption ==
    /\ IsFiniteSet(Tokens)
    /\ SignerLists \subseteq Seq(Addr) /\ Presented \subseteq Seq(Addr)
    /\ Setters \subseteq Addr /\ Setters # {} /\ None \notin Addr
    /\ FirstHash \notin Hashes
    /\ {MaxSigners, MaxProtocolFeeBps, MaxPairFeeBps, UpgradeDelay,
        MaxPairs, MaxPage, MaxRecorded, LastLedger} \subseteq Nat
    /\ FeeChoices \subseteq Nat

VARIABLES
    signers,          \* FactoryStorage.signers; empty before initialize
    pair_count,       \* FactoryStorage.pair_count
    version,          \* FactoryStorage.protocol_version
    paused,           \* FactoryStorage.paused
    fee,              \* FactoryStorage.fee_to, fee_bps
    setter,           \* FactoryStorage.fee_to_setter
    pairOf,           \* Pair(token, token)
    pairList,         \* PairList
    isPair,           \* IsPair
    totalPairs,       \* TotalPairs
    override,         \* PairFeeOverride; 0 is the absence of an entry
    frozenPairs,      \* PairFrozen of the factory
    pairFlag,         \* Frozen of each pair contract
    recorded,         \* protocol_fee_balance
    pending,          \* PendingUpgrade
    wasm,             \* the code of the factory
    ledger,           \* the ledger sequence
    approved,         \* who signed the last call that needed a quorum (history)
    voted             \* the ledger of a quorum's standing decision for a hash (history)

registryVars == <<pair_count, pairOf, pairList, isPair, totalPairs>>
feeVars == <<fee, setter, override, recorded>>
freezeVars == <<frozenPairs, pairFlag>>
upgradeVars == <<pending, wasm, version, voted>>
vars == <<signers, paused, ledger, approved, registryVars, feeVars, freezeVars, upgradeVars>>

NoPending == [set |-> FALSE]
NoVote == -1

Init ==
    /\ signers = <<>> /\ paused = FALSE /\ ledger = 0 /\ approved = {}
    /\ pair_count = 0 /\ totalPairs = 0 /\ pairList = <<>> /\ isPair = {}
    /\ pairOf = [p \in Tokens \X Tokens |-> {}]
    /\ fee = [to |-> None, bps |-> 0] /\ setter = None
    /\ override = [p \in PairAddrs |-> 0] /\ recorded = [t \in FeeTokens |-> 0]
    /\ frozenPairs = {} /\ pairFlag = [p \in PairAddrs |-> FALSE]
    /\ pending = NoPending /\ wasm = FirstHash /\ version = 0
    /\ voted = [h \in Hashes |-> NoVote]

Initialized == signers # <<>>

\* initialize stores at least one signer, which is what makes Initialized true.
initialize(list, first) ==
    /\ ~Initialized
    /\ Len(list) \in 1..MaxSigners
    /\ signers' = list /\ setter' = first /\ version' = 1
    /\ UNCHANGED <<paused, ledger, approved, registryVars, fee, override, recorded,
                   freezeVars, pending, wasm, voted>>

-----------------------------------------------------------------------------
(***************************************************************************)
(* Governance.                                                              *)
(***************************************************************************)

\* Mutant: half of the signers, rounded down, are a quorum.
HalfIsQuorum(n) == n \div 2

quorum_threshold(n) == n \div 2 + 1

\* The presented signers, all of whom have signed, are a quorum of the registered.
verify_multisig(list) ==
    /\ Initialized
    /\ \A i \in 1..Len(list) :
          /\ list[i] \in Range(signers)
          /\ \A j \in 1..(i - 1) : list[j] # list[i]
    /\ Len(list) >= quorum_threshold(Len(signers))
    /\ approved' = Range(list)

pause(list) ==
    /\ verify_multisig(list)
    /\ paused' = TRUE
    /\ UNCHANGED <<signers, ledger, registryVars, feeVars, freezeVars, upgradeVars>>

\* unpause, and resume, which is the same call.
unpause(list) ==
    /\ verify_multisig(list)
    /\ paused' = FALSE
    /\ UNCHANGED <<signers, ledger, registryVars, feeVars, freezeVars, upgradeVars>>

propose_upgrade(list, hash) ==
    /\ verify_multisig(list)
    /\ ~pending.set
    /\ pending' = [set |-> TRUE, hash |-> hash, at |-> ledger]
    /\ voted' = [voted EXCEPT ![hash] = ledger]
    /\ UNCHANGED <<signers, paused, ledger, registryVars, feeVars, freezeVars, wasm, version>>

\* Mutant: the executed proposal stays pending.
ExecuteKeepsProposal ==
    /\ pending.set
    /\ ledger - pending.at >= UpgradeDelay
    /\ wasm' = pending.hash
    /\ version' = version + 1
    /\ voted' = [voted EXCEPT ![pending.hash] = NoVote]
    /\ UNCHANGED <<signers, paused, ledger, approved, registryVars, feeVars,
                   freezeVars, pending>>

\* Anybody may execute a proposal that has waited.
execute_upgrade ==
    /\ pending.set
    /\ ledger - pending.at >= UpgradeDelay
    /\ wasm' = pending.hash
    /\ pending' = NoPending
    /\ version' = version + 1
    /\ voted' = [voted EXCEPT ![pending.hash] = NoVote]
    /\ UNCHANGED <<signers, paused, ledger, approved, registryVars, feeVars, freezeVars>>

cancel_upgrade(list) ==
    /\ verify_multisig(list)
    /\ pending.set
    /\ pending' = NoPending
    /\ voted' = [voted EXCEPT ![pending.hash] = NoVote]
    /\ UNCHANGED <<signers, paused, ledger, registryVars, feeVars, freezeVars, wasm, version>>

-----------------------------------------------------------------------------
(***************************************************************************)
(* The registry.                                                            *)
(***************************************************************************)

\* Mutant: the pair is found in one order of its tokens only.
StoredOneWay(a, b) == [pairOf EXCEPT ![<<a, b>>] = {a, b}]

Stored(a, b) == [pairOf EXCEPT ![<<a, b>>] = {a, b}, ![<<b, a>>] = {a, b}]

\* Mutant: the newest pair comes first.
ListedFirst(p) == <<p>> \o pairList

Listed(p) == Append(pairList, p)

\* The view that indexers page through, at most MaxPage pairs at a time.
get_all_pairs(offset, limit) ==
    LET end == IF offset + limit < Len(pairList) THEN offset + limit ELSE Len(pairList)
    IN  IF limit <= MaxPage THEN SubSeq(pairList, offset + 1, end) ELSE <<>>

is_pair(p) == p \in isPair \/ p \in Range(pairList)

\* Deploys the pair and its LP token, initializes both and registers them.
create_pair(a, b) ==
    /\ a # b
    /\ pairOf[<<a, b>>] = {}
    /\ Initialized /\ ~paused
    /\ pair_count < MaxPairs
    /\ pairOf' = Stored(a, b)
    /\ isPair' = isPair \cup {{a, b}}
    /\ pair_count' = pair_count + 1
    /\ pairList' = Listed({a, b})
    /\ totalPairs' = Len(pairList')
    /\ UNCHANGED <<signers, paused, ledger, approved, feeVars, freezeVars, upgradeVars>>

\* Mutant: the pair's answer is ignored.
FreezeIgnoresPair(p, frozen) ==
    /\ is_pair(p)
    /\ \/ pairFlag' = [pairFlag EXCEPT ![p] = frozen]
       \/ UNCHANGED pairFlag
    /\ frozenPairs' = IF frozen THEN frozenPairs \cup {p} ELSE frozenPairs \ {p}

\* The pair's own flag and the registry's, in one call.
set_pair_frozen_state(p, frozen) ==
    /\ is_pair(p)
    /\ pairFlag' = [pairFlag EXCEPT ![p] = frozen]
    /\ frozenPairs' = IF frozen THEN frozenPairs \cup {p} ELSE frozenPairs \ {p}

\* The setter alone may freeze, or a quorum.
freeze_pair(list, p) ==
    /\ Initialized
    /\ IF list = <<setter>> THEN UNCHANGED approved ELSE verify_multisig(list)
    /\ set_pair_frozen_state(p, TRUE)
    /\ UNCHANGED <<signers, paused, ledger, registryVars, feeVars, upgradeVars>>

unfreeze_pair(list, p) ==
    /\ verify_multisig(list)
    /\ set_pair_frozen_state(p, FALSE)
    /\ UNCHANGED <<signers, paused, ledger, registryVars, feeVars, upgradeVars>>

-----------------------------------------------------------------------------
(***************************************************************************)
(* Fees.                                                                    *)
(***************************************************************************)

SignedBySetter(s) == Initialized /\ s = setter

\* set_fee_to is the same call.
set_fee_config(s, to, bps) ==
    /\ SignedBySetter(s)
    /\ bps <= MaxProtocolFeeBps
    /\ (to = None) <=> (bps = 0)
    /\ fee' = [to |-> to, bps |-> bps]
    /\ UNCHANGED <<signers, paused, ledger, approved, registryVars, setter, override,
                   recorded, freezeVars, upgradeVars>>

set_fee_to_setter(s, new) ==
    /\ SignedBySetter(s)
    /\ setter' = new
    /\ UNCHANGED <<signers, paused, ledger, approved, registryVars, fee, override,
                   recorded, freezeVars, upgradeVars>>

\* A rate of 0 removes the override.
set_pair_fee(s, p, bps) ==
    /\ SignedBySetter(s)
    /\ bps <= MaxPairFeeBps
    /\ override' = [override EXCEPT ![p] = bps]
    /\ UNCHANGED <<signers, paused, ledger, approved, registryVars, fee, setter,
                   recorded, freezeVars, upgradeVars>>

\* A pair, which signs the call, records the protocol's cut.
deposit_protocol_fee(p, t, amount) ==
    /\ Initialized
    /\ fee.to # None /\ fee.bps # 0
    /\ is_pair(p)
    /\ amount > 0
    /\ recorded[t] + amount <= MaxRecorded
    /\ recorded' = [recorded EXCEPT ![t] = @ + amount]
    /\ UNCHANGED <<signers, paused, ledger, approved, registryVars, fee, setter,
                   override, freezeVars, upgradeVars>>

CloseLedger ==
    /\ ledger < LastLedger
    /\ ledger' = ledger + 1
    /\ UNCHANGED <<signers, paused, approved, registryVars, feeVars, freezeVars, upgradeVars>>

-----------------------------------------------------------------------------

GovernanceStep ==
    \E list \in Presented :
        \/ pause(list)
        \/ unpause(list)
        \/ \E h \in Hashes : propose_upgrade(list, h)
        \/ cancel_upgrade(list)
        \/ \E p \in PairAddrs : freeze_pair(list, p) \/ unfreeze_pair(list, p)

FeeStep ==
    \/ \E s \in Setters :
          \/ \E to \in Setters \cup {None}, bps \in FeeChoices : set_fee_config(s, to, bps)
          \/ \E new \in Setters : set_fee_to_setter(s, new)
          \/ \E p \in PairAddrs, bps \in FeeChoices : set_pair_fee(s, p, bps)
    \/ \E p \in PairAddrs, t \in FeeTokens, n \in 0..1 : deposit_protocol_fee(p, t, n)

Next ==
    \/ \E list \in SignerLists, s \in Setters : initialize(list, s)
    \/ GovernanceStep
    \/ execute_upgrade
    \/ \E a, b \in Tokens : create_pair(a, b)
    \/ FeeStep
    \/ CloseLedger

Spec == Init /\ [][Next]_vars

-----------------------------------------------------------------------------
(***************************************************************************)
(* Properties.                                                              *)
(***************************************************************************)

\* Five places say which pairs exist: two counters, the list, the membership
\* flag and the lookup by tokens.  They agree in both orders of the tokens, and
\* the list has no pair twice (create_pair, "strict lockstep").
RegistryAgrees ==
    /\ pair_count = Len(pairList) /\ totalPairs = Len(pairList)
    /\ Cardinality(Range(pairList)) = Len(pairList)
    /\ isPair = Range(pairList)
    /\ \A a, b \in Tokens : pairOf[<<a, b>>] = IF {a, b} \in isPair THEN {a, b} ELSE {}

\* A pair refuses trades exactly when the factory says that it is frozen: no call
\* leaves the two contracts disagreeing ("leaving no half-frozen state",
\* freeze_pair).
FreezeRelayed == \A p \in PairAddrs : pairFlag[p] <=> p \in frozenPairs

\* A client reads a page, a pair is created, and it reads the page that follows: the
\* two join without a gap or a repetition, and the second one reaches as far as its
\* limit or the list allows (get_all_pairs, "zero duplicates and zero skipped pairs").
PagesJoin ==
    [][pairList' # pairList => \A offset \in 0..Len(pairList), limit \in 1..MaxPage :
          \E n \in 0..limit :
              /\ n = Len(get_all_pairs(offset, limit))
              /\ get_all_pairs(offset, limit) \o get_all_pairs(offset + n, limit)'
                   = SubSeq(pairList', offset + 1,
                            IF offset + n + limit < Len(pairList')
                            THEN offset + n + limit ELSE Len(pairList'))]_vars

\* Two decisions that need a quorum always have a signer in common: disjoint
\* groups of signers can never both act ("two disjoint halves of an even-sized
\* set can never both act", quorum_threshold), whatever lists they present.
QuorumsMeet ==
    [][approved' # approved /\ approved # {} => approved' \cap approved # {}]_vars

\* The factory's code changes only to what a quorum decided on a full delay
\* earlier and did not withdraw since, and one decision upgrades once.
UpgradeWaited ==
    [][version' # version /\ version > 0 =>
          voted[wasm'] # NoVote /\ ledger >= voted[wasm'] + UpgradeDelay]_vars

=============================================================================
