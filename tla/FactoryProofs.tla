--------------------------- MODULE FactoryProofs ---------------------------
(***************************************************************************)
(* What holds of the factory for every set of tokens and signers, every     *)
(* quorum, every delay of an upgrade and every number of pairs.             *)
(***************************************************************************)
EXTENDS Factory, FiniteSetTheorems, SequenceTheorems, TLAPS

(***************************************************************************)
(* The inductive invariant.  RegistryAgrees and FreezeRelayed need only the *)
(* types beside them; that two quorums meet needs the size of the last one, *)
(* and that an upgrade waited needs the vote a pending proposal stands for. *)
(***************************************************************************)

FactoryTypeOK ==
    /\ signers \in Seq(Addr) /\ ledger \in Nat /\ version \in Nat
    /\ pairList \in Seq(PairAddrs)
    /\ pairOf \in [Tokens \X Tokens -> SUBSET Tokens]
    /\ pairFlag \in [PairAddrs -> BOOLEAN]
    /\ voted \in [Hashes -> Nat \cup {NoVote}]

\* Before initialize nothing has been decided.
FreshOK == signers = <<>> => version = 0 /\ approved = {} /\ pending = NoPending

\* More than half of the registered signers made the last governed call.
QuorumOK ==
    approved # {} =>
        /\ approved \subseteq Range(signers)
        /\ IsFiniteSet(approved)
        /\ Cardinality(approved) >= quorum_threshold(Len(signers))

\* A pending proposal is one a quorum has voted for, in the ledger it is dated with.
PendingOK ==
    \/ pending = NoPending
    \/ \E h \in Hashes : /\ voted[h] \in Nat
                         /\ pending = [set |-> TRUE, hash |-> h, at |-> voted[h]]

FactoryInv ==
    FactoryTypeOK /\ RegistryAgrees /\ FreezeRelayed /\ FreshOK /\ QuorumOK /\ PendingOK

-----------------------------------------------------------------------------
(***************************************************************************)
(* Quorums.                                                                 *)
(***************************************************************************)

\* A list has at most as many members as entries, and exactly as many when no
\* member is repeated.
LEMMA ListMembers ==
    ASSUME NEW S, NEW list \in Seq(S)
    PROVE  /\ IsFiniteSet(Range(list))
           /\ Cardinality(Range(list)) <= Len(list)
           /\ (\A i \in 1..Len(list) : \A j \in 1..(i - 1) : list[j] # list[i])
                  => Cardinality(Range(list)) = Len(list)
<1> DEFINE n == Len(list)
<1>1. n \in Nat /\ list \in [1..n -> S] /\ DOMAIN list = 1..n
  BY LenProperties
<1>2. list \in Surjection(1..n, Range(list))
  BY <1>1 DEF Surjection, Range
<1>3. ExistsSurjection(1..n, Range(list))
  BY <1>2 DEF ExistsSurjection
<1>4. IsFiniteSet(Range(list)) /\ Cardinality(Range(list)) <= n
  BY <1>1, <1>3, FS_NatSurjection, FS_SurjCardinalityBound
<1>5. ASSUME \A i \in 1..n : \A j \in 1..(i - 1) : list[j] # list[i]
      PROVE  Cardinality(Range(list)) = n
  <2>1. \A i, j \in 1..n : list[i] = list[j] => i = j
    <3>1. SUFFICES ASSUME NEW i \in 1..n, NEW j \in 1..n, i # j PROVE list[i] # list[j]
      OBVIOUS
    <3>2. CASE j < i
      <4>1. j \in 1..(i - 1)
        BY <1>1, <3>2
      <4> QED
        BY <1>5, <4>1
    <3>3. CASE i < j
      <4>1. i \in 1..(j - 1)
        BY <1>1, <3>3
      <4> QED
        BY <1>5, <4>1
    <3> QED
      BY <1>1, <3>1, <3>2, <3>3
  <2>2. list \in Bijection(1..n, Range(list))
    BY <1>1, <1>2, <2>1 DEF Bijection, Injection, IsInjective, Surjection
  <2>3. ExistsBijection(1..n, Range(list))
    BY <2>2 DEF ExistsBijection
  <2> QED
    BY <1>1, <2>3, FS_CountingElements
<1> QED
  BY <1>4, <1>5

\* Two groups of registered signers that both reach quorum_threshold have a member
\* in common, also when the registered list names a signer twice.
LEMMA QuorumsIntersect ==
    ASSUME NEW S, NEW list \in Seq(S), NEW A, NEW B,
           A \subseteq Range(list), B \subseteq Range(list),
           Cardinality(A) >= quorum_threshold(Len(list)),
           Cardinality(B) >= quorum_threshold(Len(list))
    PROVE  A \cap B # {}
<1>1. /\ IsFiniteSet(Range(list)) /\ Len(list) \in Nat
      /\ Cardinality(Range(list)) <= Len(list)
  BY ListMembers, LenProperties
<1>2. /\ Cardinality(A) \in Nat /\ Cardinality(B) \in Nat
      /\ Cardinality(Range(list)) \in Nat
  BY <1>1, FS_Subset, FS_CardinalityType
<1>3. Cardinality(A) + Cardinality(B) > Cardinality(Range(list))
  BY <1>1, <1>2 DEF quorum_threshold
<1> QED
  BY <1>1, <1>3, FS_MajoritiesIntersect

\* A call that verify_multisig lets through leaves a quorum behind and, if an
\* earlier one decided before, shares a signer with it.
LEMMA VerifiedQuorum ==
    ASSUME FactoryInv, NEW list \in Presented, verify_multisig(list), UNCHANGED signers
    PROVE  /\ QuorumOK' /\ FreshOK'
           /\ approved # {} => approved' \cap approved # {}
<1>1. /\ list \in Seq(Addr) /\ signers \in Seq(Addr) /\ signers # <<>>
      /\ Len(list) \in Nat
  BY FactoryAssumption, LenProperties
     DEF FactoryInv, FactoryTypeOK, verify_multisig, Initialized
<1>2. approved' = Range(list) /\ Len(list) >= quorum_threshold(Len(signers))
  BY DEF verify_multisig
<1>3. IsFiniteSet(Range(list)) /\ Cardinality(Range(list)) = Len(list)
  BY <1>1, ListMembers DEF verify_multisig
<1>4. Range(list) \subseteq Range(signers)
  <2>1. \A i \in 1..Len(list) : list[i] \in Range(signers)
    BY DEF verify_multisig
  <2>2. DOMAIN list = 1..Len(list)
    BY <1>1, LenProperties
  <2> QED
    BY <2>1, <2>2 DEF Range
<1>5. QuorumOK' /\ FreshOK'
  BY <1>1, <1>2, <1>3, <1>4 DEF QuorumOK, FreshOK, quorum_threshold
<1>6. approved # {} => approved' \cap approved # {}
  BY <1>1, <1>2, <1>3, <1>4, QuorumsIntersect DEF FactoryInv, QuorumOK
<1> QED
  BY <1>5, <1>6

-----------------------------------------------------------------------------
(***************************************************************************)
(* The registry.                                                            *)
(***************************************************************************)

\* create_pair keeps the five records of which pairs exist in step.
LEMMA CreateKeepsRegistry ==
    ASSUME FactoryTypeOK, RegistryAgrees, NEW a \in Tokens, NEW b \in Tokens,
           create_pair(a, b)
    PROVE  /\ RegistryAgrees'
           /\ {a, b} \in PairAddrs /\ pairList' = Append(pairList, {a, b})
           /\ pairList' \in Seq(PairAddrs)
           /\ pairOf' \in [Tokens \X Tokens -> SUBSET Tokens]
<1> DEFINE p == {a, b}
<1>1. /\ a # b /\ pairOf[<<a, b>>] = {}
      /\ pairOf' = [pairOf EXCEPT ![<<a, b>>] = p, ![<<b, a>>] = p]
      /\ isPair' = isPair \cup {p}
      /\ pair_count' = pair_count + 1
      /\ pairList' = Append(pairList, p)
      /\ totalPairs' = Len(pairList')
  BY DEF create_pair, Stored, Listed
<1>2. p \in PairAddrs
  <2>1. IsFiniteSet({a}) /\ Cardinality({a}) = 1 /\ {a} \cup {b} = p
    BY FS_Singleton
  <2>2. b \notin {a}
    BY <1>1
  <2>3. Cardinality({a} \cup {b}) = 1 + 1
    BY <2>1, <2>2, FS_AddElement
  <2> QED
    BY <2>1, <2>3 DEF PairAddrs
<1>3. pairList \in Seq(PairAddrs) /\ isPair = Range(pairList)
      /\ pair_count = Len(pairList) /\ Cardinality(Range(pairList)) = Len(pairList)
  BY DEF FactoryTypeOK, RegistryAgrees
<1>4. p \notin Range(pairList)
  BY <1>1, <1>3 DEF RegistryAgrees
<1>5. /\ pairList' \in Seq(PairAddrs) /\ Len(pairList') = Len(pairList) + 1
      /\ Range(pairList') = Range(pairList) \cup {p}
  <2>1. /\ Append(pairList, p) \in Seq(PairAddrs)
        /\ Len(Append(pairList, p)) = Len(pairList) + 1
        /\ \A i \in 1..Len(pairList) : Append(pairList, p)[i] = pairList[i]
        /\ Append(pairList, p)[Len(pairList) + 1] = p
    BY <1>2, <1>3, AppendProperties
  <2>2. /\ DOMAIN pairList = 1..Len(pairList) /\ Len(pairList) \in Nat
        /\ DOMAIN Append(pairList, p) = 1..(Len(pairList) + 1)
    BY <1>3, <2>1, LenProperties
  <2>3. 1..(Len(pairList) + 1) = (1..Len(pairList)) \cup {Len(pairList) + 1}
    BY <2>2
  <2> HIDE DEF p
  <2> DEFINE longer == Append(pairList, p)
  <2>4. Range(longer) = Range(pairList) \cup {p}
    <3>1. ASSUME NEW i \in 1..(Len(pairList) + 1)
          PROVE  longer[i] \in {pairList[j] : j \in 1..Len(pairList)} \cup {p}
      <4>1. CASE i \in 1..Len(pairList)
        BY <2>1, <4>1
      <4>2. CASE i = Len(pairList) + 1
        BY <2>1, <4>2
      <4> QED
        BY <2>3, <3>1, <4>1, <4>2
    <3>2. \A j \in 1..Len(pairList) : pairList[j] \in {longer[i] : i \in 1..(Len(pairList) + 1)}
      BY <2>1, <2>3
    <3>3. p \in {longer[i] : i \in 1..(Len(pairList) + 1)}
      BY <2>1, <2>3
    <3>4. /\ Range(longer) = {longer[i] : i \in 1..(Len(pairList) + 1)}
          /\ Range(pairList) = {pairList[j] : j \in 1..Len(pairList)}
      BY <2>2 DEF Range
    <3> HIDE DEF longer
    <3> QED
      BY <3>1, <3>2, <3>3, <3>4
  <2> QED
    BY <1>1, <2>1, <2>4
<1>6. Cardinality(Range(pairList')) = Len(pairList')
  <2>1. IsFiniteSet(Range(pairList))
    BY <1>3, ListMembers
  <2> QED
    BY <1>3, <1>4, <1>5, <2>1, FS_AddElement
<1>7. pairOf' \in [Tokens \X Tokens -> SUBSET Tokens]
  BY <1>1 DEF FactoryTypeOK
<1>8. ASSUME NEW c \in Tokens, NEW d \in Tokens
      PROVE  pairOf'[<<c, d>>] = IF {c, d} \in isPair' THEN {c, d} ELSE {}
  <2>1. pairOf[<<c, d>>] = IF {c, d} \in isPair THEN {c, d} ELSE {}
    BY DEF RegistryAgrees
  <2>2. {c, d} = p <=> <<c, d>> = <<a, b>> \/ <<c, d>> = <<b, a>>
    OBVIOUS
  <2>3. pairOf'[<<c, d>>]
          = IF <<c, d>> = <<a, b>> \/ <<c, d>> = <<b, a>> THEN p ELSE pairOf[<<c, d>>]
    BY <1>1 DEF FactoryTypeOK
  <2> HIDE DEF p
  <2> QED
    BY <1>1, <2>1, <2>2, <2>3
<1>9. RegistryAgrees'
  <2>1. Len(pairList) \in Nat
    BY <1>3, LenProperties
  <2> HIDE DEF p
  <2> QED
    BY <1>1, <1>3, <1>5, <1>6, <1>8, <2>1 DEF RegistryAgrees
<1> QED
  BY <1>1, <1>2, <1>5, <1>7, <1>9

\* A call that relays a freeze leaves the pair and the registry agreeing.
LEMMA FreezeKept ==
    ASSUME FactoryTypeOK, FreezeRelayed, NEW p \in PairAddrs, NEW frozen \in BOOLEAN,
           set_pair_frozen_state(p, frozen)
    PROVE  FreezeRelayed' /\ pairFlag' \in [PairAddrs -> BOOLEAN]
BY DEF FactoryTypeOK, FreezeRelayed, set_pair_frozen_state

-----------------------------------------------------------------------------
(***************************************************************************)
(* Every step.                                                              *)
(***************************************************************************)

\* A factory that has just been deployed satisfies the invariant.
LEMMA FactoryInit == Init => FactoryInv
<1> SUFFICES ASSUME Init PROVE FactoryInv
  OBVIOUS
<1>1. FactoryTypeOK
  BY EmptySeq DEF Init, FactoryTypeOK
<1>2. RegistryAgrees
  <2>1. pairList \in Seq(PairAddrs) /\ Len(pairList) = 0 /\ DOMAIN pairList = 1..0
    BY <1>1, EmptySeq, LenProperties DEF Init, FactoryTypeOK
  <2>2. Range(pairList) = {}
    BY <2>1 DEF Range
  <2> QED
    BY <2>1, <2>2, FS_EmptySet DEF Init, RegistryAgrees
<1>3. FreezeRelayed /\ FreshOK /\ QuorumOK /\ PendingOK
  BY DEF Init, FreezeRelayed, FreshOK, QuorumOK, PendingOK
<1> QED
  BY <1>1, <1>2, <1>3 DEF FactoryInv

\* What the action properties ask of a step that changes what they speak of.
Decided == approved' # approved /\ approved # {} => approved' \cap approved # {}
Waited ==
    version' # version /\ version > 0 =>
        voted[wasm'] # NoVote /\ ledger >= voted[wasm'] + UpgradeDelay
Grown ==
    pairList' # pairList => \E p \in PairAddrs : pairList' = Append(pairList, p)

\* Every step, initialize and the history variables included, keeps the invariant,
\* and does only what the action properties allow.
LEMMA FactoryStep ==
    ASSUME FactoryInv, [Next]_vars
    PROVE  FactoryInv' /\ Decided /\ Waited /\ Grown
<1> USE DEF Decided, Waited, Grown
<1>1. CASE UNCHANGED vars
  BY <1>1 DEF vars, registryVars, feeVars, freezeVars, upgradeVars, FactoryInv,
              FactoryTypeOK, RegistryAgrees, FreezeRelayed, FreshOK, QuorumOK, PendingOK
<1>2. CASE \E list \in SignerLists, s \in Setters : initialize(list, s)
  <2>1. PICK list \in SignerLists, s \in Setters : initialize(list, s)
    BY <1>2
  <2>2. /\ signers = <<>> /\ signers' = list /\ Len(list) \in 1..MaxSigners /\ version' = 1
        /\ UNCHANGED <<paused, ledger, approved, registryVars, fee, override, recorded,
                       freezeVars, pending, wasm, voted>>
    BY <2>1 DEF initialize, Initialized
  <2>3. list \in Seq(Addr) /\ list # <<>> /\ version = 0 /\ approved = {}
    <3>1. Len(<<>>) = 0 /\ MaxSigners \in Nat
      BY FactoryAssumption
    <3> QED
      BY <2>2, <3>1, FactoryAssumption DEF FactoryInv, FreshOK
  <2> QED
    BY <2>2, <2>3 DEF registryVars, freezeVars, FactoryInv, FactoryTypeOK, RegistryAgrees,
                      FreezeRelayed, FreshOK, QuorumOK, PendingOK
<1>3. ASSUME NEW list \in Presented, pause(list) \/ unpause(list)
      PROVE  FactoryInv' /\ Decided /\ Waited /\ Grown
  <2>1. /\ verify_multisig(list)
        /\ UNCHANGED <<signers, ledger, registryVars, feeVars, freezeVars, upgradeVars>>
    BY <1>3 DEF pause, unpause
  <2>2. /\ QuorumOK' /\ FreshOK'
        /\ approved # {} => approved' \cap approved # {}
    BY <2>1, VerifiedQuorum
  <2> QED
    BY <2>1, <2>2 DEF registryVars, freezeVars, upgradeVars, FactoryInv, FactoryTypeOK,
                      RegistryAgrees, FreezeRelayed, PendingOK
<1>4. ASSUME NEW list \in Presented, NEW h \in Hashes, propose_upgrade(list, h)
      PROVE  FactoryInv' /\ Decided /\ Waited /\ Grown
  <2>1. /\ verify_multisig(list)
        /\ pending' = [set |-> TRUE, hash |-> h, at |-> ledger]
        /\ voted' = [voted EXCEPT ![h] = ledger]
        /\ UNCHANGED <<signers, paused, ledger, registryVars, feeVars, freezeVars, wasm,
                       version>>
    BY <1>4 DEF propose_upgrade
  <2>2. /\ QuorumOK' /\ FreshOK'
        /\ approved # {} => approved' \cap approved # {}
    BY <2>1, VerifiedQuorum
  <2>3. /\ voted' \in [Hashes -> Nat \cup {NoVote}] /\ voted'[h] = ledger /\ ledger \in Nat
    BY <2>1 DEF FactoryInv, FactoryTypeOK
  <2>4. PendingOK'
    BY <2>1, <2>3 DEF PendingOK
  <2> QED
    BY <2>1, <2>2, <2>3, <2>4 DEF registryVars, freezeVars, FactoryInv, FactoryTypeOK,
                                  RegistryAgrees, FreezeRelayed
<1>5. ASSUME NEW list \in Presented, cancel_upgrade(list)
      PROVE  FactoryInv' /\ Decided /\ Waited /\ Grown
  <2>1. /\ verify_multisig(list) /\ pending.set /\ pending' = NoPending
        /\ voted' = [voted EXCEPT ![pending.hash] = NoVote]
        /\ UNCHANGED <<signers, paused, ledger, registryVars, feeVars, freezeVars, wasm,
                       version>>
    BY <1>5 DEF cancel_upgrade
  <2>2. /\ QuorumOK' /\ FreshOK'
        /\ approved # {} => approved' \cap approved # {}
    BY <2>1, VerifiedQuorum
  <2>3. voted' \in [Hashes -> Nat \cup {NoVote}] /\ PendingOK'
    BY <2>1 DEF FactoryInv, FactoryTypeOK, PendingOK
  <2> QED
    BY <2>1, <2>2, <2>3 DEF registryVars, freezeVars, FactoryInv, FactoryTypeOK,
                            RegistryAgrees, FreezeRelayed
<1>6. ASSUME NEW list \in Presented, NEW p \in PairAddrs,
             freeze_pair(list, p) \/ unfreeze_pair(list, p)
      PROVE  FactoryInv' /\ Decided /\ Waited /\ Grown
  <2>1. /\ verify_multisig(list) \/ UNCHANGED approved
        /\ set_pair_frozen_state(p, TRUE) \/ set_pair_frozen_state(p, FALSE)
        /\ UNCHANGED <<signers, paused, ledger, registryVars, feeVars, upgradeVars>>
    BY <1>6 DEF freeze_pair, unfreeze_pair
  <2>2. /\ QuorumOK' /\ FreshOK'
        /\ Decided
    <3>1. CASE verify_multisig(list)
      BY <2>1, <3>1, VerifiedQuorum DEF upgradeVars
    <3>2. CASE UNCHANGED approved
      BY <2>1, <3>2 DEF FactoryInv, QuorumOK, FreshOK, upgradeVars
    <3> QED
      BY <2>1, <3>1, <3>2
  <2>3. FreezeRelayed' /\ pairFlag' \in [PairAddrs -> BOOLEAN]
    BY <2>1, FreezeKept DEF FactoryInv
  <2> QED
    BY <2>1, <2>2, <2>3 DEF registryVars, upgradeVars, FactoryInv, FactoryTypeOK,
                            RegistryAgrees, PendingOK
<1>7. CASE execute_upgrade
  <2>1. /\ pending.set /\ ledger - pending.at >= UpgradeDelay
        /\ wasm' = pending.hash /\ pending' = NoPending /\ version' = version + 1
        /\ voted' = [voted EXCEPT ![pending.hash] = NoVote]
        /\ UNCHANGED <<signers, paused, ledger, approved, registryVars, feeVars, freezeVars>>
    BY <1>7 DEF execute_upgrade
  <2>2. PICK h \in Hashes : /\ voted[h] \in Nat
                            /\ pending = [set |-> TRUE, hash |-> h, at |-> voted[h]]
    BY <2>1 DEF FactoryInv, PendingOK, NoPending
  <2>3. Waited
    <3>1. wasm' = h /\ ledger - voted[h] >= UpgradeDelay
      BY <2>1, <2>2
    <3>2. ledger \in Nat /\ UpgradeDelay \in Nat
      BY FactoryAssumption DEF FactoryInv, FactoryTypeOK
    <3> QED
      BY <2>2, <3>1, <3>2 DEF NoVote
  <2>4. voted' \in [Hashes -> Nat \cup {NoVote}] /\ PendingOK' /\ version' \in Nat
    <3>1. version \in Nat /\ voted \in [Hashes -> Nat \cup {NoVote}]
      BY DEF FactoryInv, FactoryTypeOK
    <3>2. version' \in Nat
      BY <2>1, <3>1
    <3> QED
      BY <2>1, <3>1, <3>2 DEF PendingOK
  <2>5. FreshOK'
    BY <2>1, <2>2 DEF FactoryInv, FreshOK, NoPending
  <2> QED
    BY <2>1, <2>3, <2>4, <2>5 DEF registryVars, freezeVars, FactoryInv, FactoryTypeOK,
                                  RegistryAgrees, FreezeRelayed, QuorumOK
<1>8. ASSUME NEW a \in Tokens, NEW b \in Tokens, create_pair(a, b)
      PROVE  FactoryInv' /\ Decided /\ Waited /\ Grown
  <2>1. /\ RegistryAgrees'
        /\ {a, b} \in PairAddrs /\ pairList' = Append(pairList, {a, b})
        /\ pairList' \in Seq(PairAddrs)
        /\ pairOf' \in [Tokens \X Tokens -> SUBSET Tokens]
    BY <1>8, CreateKeepsRegistry DEF FactoryInv
  <2>2. UNCHANGED <<signers, paused, ledger, approved, feeVars, freezeVars, upgradeVars>>
    BY <1>8 DEF create_pair
  <2> QED
    BY <2>1, <2>2 DEF freezeVars, upgradeVars, FactoryInv, FactoryTypeOK, FreezeRelayed,
                      FreshOK, QuorumOK, PendingOK
<1>9. CASE FeeStep \/ CloseLedger
  <2>1. /\ UNCHANGED <<signers, approved, registryVars, freezeVars, upgradeVars>>
        /\ ledger' \in Nat
    BY <1>9 DEF FeeStep, set_fee_config, set_fee_to_setter, set_pair_fee,
                deposit_protocol_fee, CloseLedger, FactoryInv, FactoryTypeOK
  <2> QED
    BY <2>1 DEF registryVars, freezeVars, upgradeVars, FactoryInv, FactoryTypeOK,
                RegistryAgrees, FreezeRelayed, FreshOK, QuorumOK, PendingOK
<1> QED
  BY <1>1, <1>2, <1>3, <1>4, <1>5, <1>6, <1>7, <1>8, <1>9 DEF Next, GovernanceStep

\* The inductive invariant holds in every reachable state of every factory.
THEOREM FactoryInvariance == Spec => []FactoryInv
<1>1. FactoryInv /\ [Next]_vars => FactoryInv'
  BY FactoryStep
<1> QED
  BY <1>1, FactoryInit, PTL DEF Spec

\* The two counters, the list, the membership flags and the lookup in both orders
\* of the tokens say the same of every pair, and no pair is listed twice, however
\* many pairs are created.
THEOREM RegistryAlwaysAgrees == Spec => []RegistryAgrees
<1>1. FactoryInv => RegistryAgrees
  BY DEF FactoryInv
<1> QED
  BY <1>1, FactoryInvariance, PTL

\* A pair and the factory never disagree on whether the pair is frozen.
THEOREM FreezeAlwaysRelayed == Spec => []FreezeRelayed
<1>1. FactoryInv => FreezeRelayed
  BY DEF FactoryInv
<1> QED
  BY <1>1, FactoryInvariance, PTL

\* For any number of signers, repeated ones included, two decisions of a quorum in
\* a row have a signer in common.
THEOREM QuorumsAlwaysMeet == Spec => QuorumsMeet
<1>1. FactoryInv /\ [Next]_vars => [Decided]_vars
  BY FactoryStep
<1>2. Spec => [][Decided]_vars
  BY <1>1, FactoryInvariance, PTL DEF Spec
<1> QED
  BY <1>2 DEF QuorumsMeet, Decided

\* Whatever is proposed, cancelled, proposed again and executed, the code changes
\* only to what a quorum stood by for the whole delay.
THEOREM UpgradeAlwaysWaits == Spec => UpgradeWaited
<1>1. FactoryInv /\ [Next]_vars => [Waited]_vars
  BY FactoryStep
<1>2. Spec => [][Waited]_vars
  BY <1>1, FactoryInvariance, PTL DEF Spec
<1> QED
  BY <1>2 DEF UpgradeWaited, Waited

-----------------------------------------------------------------------------
(***************************************************************************)
(* Pages of the registry.                                                   *)
(***************************************************************************)

PageEnd(list, offset, limit) ==
    IF offset + limit < Len(list) THEN offset + limit ELSE Len(list)

Page(list, offset, limit) == SubSeq(list, offset + 1, PageEnd(list, offset, limit))

\* Within the limit on its size a page holds the pairs offset + 1 to PageEnd.
LEMMA PageContents ==
    ASSUME NEW list \in Seq(PairAddrs), NEW offset \in 0..Len(list), NEW limit \in 1..MaxPage
    PROVE  /\ PageEnd(list, offset, limit) \in offset..Len(list)
           /\ Page(list, offset, limit) \in Seq(PairAddrs)
           /\ Len(Page(list, offset, limit)) = PageEnd(list, offset, limit) - offset
           /\ \A i \in 1..(PageEnd(list, offset, limit) - offset) :
                 Page(list, offset, limit)[i] = list[offset + i]
<1> DEFINE end == PageEnd(list, offset, limit)
           page == Page(list, offset, limit)
<1>1. Len(list) \in Nat /\ MaxPage \in Nat
  BY FactoryAssumption, LenProperties
<1>2. end \in offset..Len(list) /\ end \in Int /\ offset \in Int
  BY <1>1 DEF PageEnd
<1>3. page = SubSeq(list, offset + 1, end)
  BY DEF Page
<1> HIDE DEF end, page
<1>4. \A i \in (offset + 1)..end : list[i] \in PairAddrs
  BY <1>1, <1>2, ElementOfSeq
<1>5. /\ page \in Seq(PairAddrs)
      /\ Len(page) = IF offset + 1 <= end THEN end - (offset + 1) + 1 ELSE 0
      /\ \A i \in 1..(end - (offset + 1) + 1) : page[i] = list[offset + 1 + i - 1]
  <2>1. offset + 1 \in Int
    BY <1>2
  <2> QED
    BY <1>2, <1>3, <1>4, <2>1, SubSeqProperties
<1>6. Len(page) = end - offset
  BY <1>2, <1>5
<1>7. \A i \in 1..(end - offset) : page[i] = list[offset + i]
  <2>1. end - (offset + 1) + 1 = end - offset
    BY <1>2
  <2>2. \A i \in 1..(end - offset) : offset + 1 + i - 1 = offset + i
    BY <1>2
  <2> QED
    BY <1>5, <2>1, <2>2
<1> QED
  BY <1>2, <1>5, <1>6, <1>7 DEF end, page

\* get_all_pairs returns that page of the registry.
LEMMA PageOfRegistry ==
    ASSUME NEW offset \in Nat, NEW limit \in 1..MaxPage
    PROVE  /\ get_all_pairs(offset, limit) = Page(pairList, offset, limit)
           /\ get_all_pairs(offset, limit)' = Page(pairList', offset, limit)
<1>1. limit <= MaxPage
  BY FactoryAssumption
<1> QED
  BY <1>1 DEF get_all_pairs, Page, PageEnd

\* A page of the list as it was is the same stretch of the list with a pair more, and
\* the page that starts where it ended, read from the longer list, continues it.
LEMMA PagesAdjacent ==
    ASSUME NEW list \in Seq(PairAddrs), NEW p \in PairAddrs,
           NEW offset \in 0..Len(list), NEW limit \in 1..MaxPage, NEW n \in Nat,
           n = Len(Page(list, offset, limit))
    PROVE  /\ offset + n \in Nat /\ n <= limit
           /\ Page(list, offset, limit) \o Page(Append(list, p), offset + n, limit)
                = SubSeq(Append(list, p), offset + 1,
                         PageEnd(Append(list, p), offset + n, limit))
<1> DEFINE longer == Append(list, p)
           first == Page(list, offset, limit)
           start == offset + n
           end == PageEnd(longer, start, limit)
<1>1. /\ Len(list) \in Nat /\ MaxPage \in Nat
      /\ longer \in Seq(PairAddrs) /\ Len(longer) = Len(list) + 1
      /\ \A i \in 1..Len(list) : longer[i] = list[i]
  BY FactoryAssumption, LenProperties, AppendProperties
<1>2. /\ PageEnd(list, offset, limit) \in offset..Len(list)
      /\ first \in Seq(PairAddrs) /\ n = PageEnd(list, offset, limit) - offset
      /\ \A i \in 1..n : first[i] = list[offset + i]
  BY PageContents
<1>3. start \in Nat /\ start <= Len(list) /\ offset + 1 \in Int /\ n <= limit
  BY <1>1, <1>2 DEF PageEnd
<1> HIDE DEF longer, first
<1>4. end \in start..Len(longer) /\ Page(longer, start, limit) = SubSeq(longer, start + 1, end)
  <2>1. start \in 0..Len(longer)
    BY <1>1, <1>3
  <2> QED
    BY <1>1, <2>1, PageContents DEF Page
<1>5. first = SubSeq(longer, offset + 1, start)
  <2>1. \A i \in (offset + 1)..start : longer[i] \in PairAddrs
    BY <1>1, <1>3, ElementOfSeq
  <2>2. /\ SubSeq(longer, offset + 1, start) \in Seq(PairAddrs)
        /\ Len(SubSeq(longer, offset + 1, start)) = n
        /\ \A i \in 1..n : SubSeq(longer, offset + 1, start)[i] = longer[offset + i]
    <3>1. /\ SubSeq(longer, offset + 1, start) \in Seq(PairAddrs)
          /\ Len(SubSeq(longer, offset + 1, start))
               = IF offset + 1 <= start THEN start - (offset + 1) + 1 ELSE 0
          /\ \A i \in 1..(start - (offset + 1) + 1) :
                SubSeq(longer, offset + 1, start)[i] = longer[offset + 1 + i - 1]
      BY <1>1, <1>3, <2>1, SubSeqProperties
    <3>2. start - (offset + 1) + 1 = n
      OBVIOUS
    <3>3. \A i \in 1..n : offset + 1 + i - 1 = offset + i
      OBVIOUS
    <3> QED
      BY <3>1, <3>2, <3>3
  <2>3. \A i \in 1..n : offset + i \in 1..Len(list)
    BY <1>3
  <2>4. \A i \in 1..n : first[i] = SubSeq(longer, offset + 1, start)[i]
    BY <1>1, <1>2, <2>2, <2>3
  <2>5. Len(first) = n
    BY DEF first
  <2> QED
    BY <1>2, <2>2, <2>4, <2>5, SeqEqual
<1>6. SubSeq(longer, offset + 1, start) \o SubSeq(longer, start + 1, end)
        = SubSeq(longer, offset + 1, end)
  <2>1. offset + 1 \in 1..(Len(longer) + 1) /\ start \in ((offset + 1) - 1)..Len(longer)
    BY <1>1, <1>3
  <2> HIDE DEF start, end
  <2> QED
    BY <1>1, <1>4, <2>1, ConcatAdjacentSubSeq
<1> QED
  BY <1>3, <1>4, <1>5, <1>6 DEF first, longer

\* For every page size and every registry, a page read before a pair is created and
\* the page that follows, read after it, join without a gap or a repetition.
THEOREM PagesAlwaysJoin == Spec => PagesJoin
<1> DEFINE Joined ==
      pairList' # pairList => \A offset \in 0..Len(pairList), limit \in 1..MaxPage :
          \E n \in 0..limit :
              /\ n = Len(get_all_pairs(offset, limit))
              /\ get_all_pairs(offset, limit) \o get_all_pairs(offset + n, limit)'
                   = SubSeq(pairList', offset + 1,
                            IF offset + n + limit < Len(pairList')
                            THEN offset + n + limit ELSE Len(pairList'))
<1>1. ASSUME FactoryInv, [Next]_vars PROVE Joined
  <2>1. Grown /\ pairList \in Seq(PairAddrs) /\ Len(pairList) \in Nat
    BY <1>1, FactoryStep, LenProperties DEF FactoryInv, FactoryTypeOK
  <2>2. SUFFICES ASSUME pairList' # pairList, NEW offset \in 0..Len(pairList),
                        NEW limit \in 1..MaxPage
                 PROVE  \E n \in 0..limit :
                          /\ n = Len(get_all_pairs(offset, limit))
                          /\ get_all_pairs(offset, limit) \o get_all_pairs(offset + n, limit)'
                               = SubSeq(pairList', offset + 1,
                                        IF offset + n + limit < Len(pairList')
                                        THEN offset + n + limit ELSE Len(pairList'))
    OBVIOUS
  <2>3. offset \in Nat
    BY <2>1
  <2>4. PICK p \in PairAddrs : pairList' = Append(pairList, p)
    BY <2>1, <2>2 DEF Grown
  <2>5. Page(pairList, offset, limit) \in Seq(PairAddrs)
    BY <2>1, PageContents
  <2>6. PICK n \in Nat : n = Len(Page(pairList, offset, limit))
    BY <2>5, LenProperties
  <2>7. /\ offset + n \in Nat /\ n <= limit
        /\ Page(pairList, offset, limit) \o Page(pairList', offset + n, limit)
             = SubSeq(pairList', offset + 1, PageEnd(pairList', offset + n, limit))
    BY <2>1, <2>4, <2>6, PagesAdjacent
  <2>8. /\ get_all_pairs(offset, limit) = Page(pairList, offset, limit)
        /\ get_all_pairs(offset + n, limit)' = Page(pairList', offset + n, limit)
    BY <2>3, <2>7, PageOfRegistry
  <2>9. n \in 0..limit
    BY <2>7, FactoryAssumption
  <2> QED
    BY <2>6, <2>7, <2>8, <2>9 DEF PageEnd
<1>2. FactoryInv /\ [Next]_vars => [Joined]_vars
  BY <1>1
<1>3. Spec => [][Joined]_vars
  BY <1>2, FactoryInvariance, PTL DEF Spec
<1> QED
  BY <1>3 DEF PagesJoin

=============================================================================
