------------------------- MODULE RouterCommitProofs -------------------------
(***************************************************************************)
(* What holds of the commit-reveal swaps for every set of senders, swaps    *)
(* and nonces and for every bound and expiry.                               *)
(***************************************************************************)
EXTENDS RouterCommit, FiniteSetTheorems, TLAPS

Occupied == {s \in Sender : commits[s].set}

Commit == {NoCommit} \cup [set: {TRUE}, hash: Hash, ledger: Nat]

CommitTypeOK ==
    /\ commits \in [Sender -> Commit]
    /\ config \in [max_commits: Nat, expiry_ledgers: Nat]
    /\ nonceUsed \subseteq Sender \X Nonces
    /\ executed \in [Sender \X Nonces -> Nat]
    /\ placedAt \in [Sender -> Nat]
    /\ ledger \in Nat

\* The counter, with the finiteness that gives the cardinality a meaning.
CountOK == IsFiniteSet(Occupied) /\ count \in Nat /\ count = Cardinality(Occupied)

\* The history agrees with what the router stores: a nonce was executed when it is
\* marked, and a stored hash was put there no later than its entry says.
HistoryOK ==
    /\ \A p \in Sender \X Nonces : executed[p] = IF p \in nonceUsed THEN 1 ELSE 0
    /\ \A s \in Sender :
          commits[s].set => placedAt[s] <= commits[s].ledger /\ commits[s].ledger <= ledger

CommitInv == CommitTypeOK /\ CountOK /\ HistoryOK

\* A stored entry is recognised by its flag.
LEMMA EntryShape ==
    ASSUME NEW c \in Commit
    PROVE  /\ c.set \in BOOLEAN
           /\ c.set => c \in [set: {TRUE}, hash: Hash, ledger: Nat]
<1>1. CASE c = NoCommit
  <2>1. c.set = FALSE
    BY <1>1 DEF NoCommit
  <2> QED
    BY <2>1
<1>2. CASE c \in [set: {TRUE}, hash: Hash, ledger: Nat]
  <2>1. c.set = TRUE
    BY <1>2
  <2> QED
    BY <1>2, <2>1
<1> QED
  BY <1>1, <1>2 DEF Commit

\* A new router holds no commit and has executed nothing.
LEMMA CommitInit == Init => CommitInv
<1> SUFFICES ASSUME Init PROVE CommitInv
  OBVIOUS
<1>1. CommitTypeOK
  BY RouterAssumption DEF Init, CommitTypeOK, Commit, NoCommit
<1>2. Occupied = {}
  BY DEF Init, Occupied, NoCommit
<1>3. CountOK
  BY <1>2, FS_EmptySet DEF Init, CountOK
<1>4. HistoryOK
  BY DEF Init, HistoryOK, NoCommit
<1> QED
  BY <1>1, <1>3, <1>4 DEF CommitInv

\* Storing an entry occupies its sender's slot, once.
LEMMA CommitSwapInv ==
    ASSUME CommitInv, NEW s \in Sender, NEW hash \in Hash, commit_swap(s, hash)
    PROVE  CommitInv'
<1> USE DEF CommitInv
<1>1. Entry(hash, ledger) \in [set: {TRUE}, hash: Hash, ledger: Nat]
  BY DEF Entry, CommitTypeOK
<1>2. CommitTypeOK'
  BY <1>1 DEF CommitTypeOK, commit_swap, Commit
<1>3. Occupied' = Occupied \cup {s}
  <2>1. \A t \in Sender : commits'[t].set <=> (t = s \/ commits[t].set)
    BY DEF CommitTypeOK, commit_swap, Entry
  <2> QED
    BY <2>1 DEF Occupied
<1>4. CountOK'
  <2>1. s \in Occupied <=> commits[s].set
    BY DEF Occupied
  <2>2. count' = IF s \in Occupied THEN count ELSE count + 1
    BY <2>1 DEF commit_swap
  <2>3. /\ IsFiniteSet(Occupied')
        /\ Cardinality(Occupied') =
              IF s \in Occupied THEN Cardinality(Occupied) ELSE Cardinality(Occupied) + 1
    BY <1>3, FS_AddElement DEF CountOK
  <2> QED
    BY <2>2, <2>3 DEF CountOK
<1>5. HistoryOK'
  <2>1. \A t \in Sender : t # s => commits'[t] = commits[t] /\ placedAt'[t] = placedAt[t]
    BY DEF CommitTypeOK, commit_swap
  <2>2. commits'[s].ledger = ledger /\ ledger' = ledger
    BY DEF CommitTypeOK, commit_swap, Entry
  <2>3. (placedAt'[s] = placedAt[s] /\ commits[s].set) \/ placedAt'[s] = ledger
    BY DEF CommitTypeOK, commit_swap
  <2>4. commits[s].set => commits[s].ledger \in Nat
    BY EntryShape DEF CommitTypeOK
  <2>5. placedAt'[s] <= ledger
    BY <2>3, <2>4 DEF HistoryOK, CommitTypeOK
  <2> QED
    BY <2>1, <2>2, <2>5 DEF HistoryOK, commit_swap, CommitTypeOK
<1> QED
  BY <1>2, <1>4, <1>5

\* Freeing an occupied slot keeps the types, the counter and the entries' ledgers.
LEMMA FreeSlotInv ==
    ASSUME CommitInv, NEW s \in Sender, commits[s].set, FreeSlot(s)
    PROVE  /\ commits' \in [Sender -> Commit]
           /\ CountOK'
           /\ \A t \in Sender : commits'[t].set => t # s /\ commits'[t] = commits[t]
<1> USE DEF CommitInv
<1>1. commits' \in [Sender -> Commit]
  BY DEF FreeSlot, CommitTypeOK, Commit
<1>2. \A t \in Sender : commits'[t].set <=> (t # s /\ commits[t].set)
  BY DEF FreeSlot, CommitTypeOK, NoCommit
<1>3. \A t \in Sender : commits'[t].set => t # s /\ commits'[t] = commits[t]
  BY <1>2 DEF FreeSlot, CommitTypeOK
<1>4. Occupied' = Occupied \ {s} /\ s \in Occupied
  BY <1>2 DEF Occupied
<1>5. CountOK'
  <2>1. /\ IsFiniteSet(Occupied')
        /\ Cardinality(Occupied') = Cardinality(Occupied) - 1
    BY <1>4, FS_RemoveElement DEF CountOK
  <2>2. Cardinality(Occupied) # 0
    BY <1>4, FS_EmptySet DEF CountOK
  <2> QED
    BY <2>1, <2>2 DEF CountOK, FreeSlot
<1> QED
  BY <1>1, <1>3, <1>5

\* reveal_swap frees the slot and marks the nonce.
LEMMA RevealInv ==
    ASSUME CommitInv, NEW s \in Sender, NEW swap \in Swaps, NEW nonce \in Nonces,
           reveal_swap(s, swap, nonce)
    PROVE  CommitInv'
<1> USE DEF CommitInv
<1>1. commits[s].set /\ FreeSlot(s)
  BY DEF reveal_swap, Live
<1>2. CommitTypeOK'
  BY <1>1, FreeSlotInv DEF CommitTypeOK, reveal_swap
<1>3. \A p \in Sender \X Nonces : executed'[p] = IF p \in nonceUsed' THEN 1 ELSE 0
  BY DEF HistoryOK, CommitTypeOK, reveal_swap
<1>4. HistoryOK'
  BY <1>1, <1>3, FreeSlotInv DEF HistoryOK, reveal_swap
<1> QED
  BY <1>1, <1>2, <1>4, FreeSlotInv

\* prune_expired_commit frees the slot of the entry it removes.
LEMMA PruneInv ==
    ASSUME CommitInv, NEW s \in Sender, prune_expired_commit(s)
    PROVE  CommitInv'
<1> USE DEF CommitInv
<1>1. commits[s].set /\ FreeSlot(s)
  BY DEF prune_expired_commit, Expired
<1>2. CommitTypeOK'
  BY <1>1, FreeSlotInv DEF CommitTypeOK, prune_expired_commit
<1>3. HistoryOK'
  BY <1>1, FreeSlotInv DEF HistoryOK, prune_expired_commit
<1> QED
  BY <1>1, <1>2, <1>3, FreeSlotInv

\* Every step of the router keeps the invariant.
LEMMA CommitStep == CommitInv /\ [Next]_vars => CommitInv'
<1> SUFFICES ASSUME CommitInv, [Next]_vars PROVE CommitInv'
  OBVIOUS
<1> USE DEF CommitInv
<1>1. ASSUME NEW s \in Sender, reveal_expired(s) PROVE CommitInv'
  BY <1>1 DEF reveal_expired, CommitTypeOK, CountOK, HistoryOK, Occupied
<1>2. ASSUME NEW n, NEW e, set_commit_config(n, e) PROVE CommitInv'
  <2>1. config' \in [max_commits: Nat, expiry_ledgers: Nat]
    BY <1>2, RouterAssumption DEF set_commit_config
  <2> QED
    BY <1>2, <2>1 DEF set_commit_config, CommitTypeOK, CountOK, HistoryOK, Occupied
<1>3. CASE CloseLedger
  <2>1. ledger' \in Nat /\ ledger <= ledger'
    BY <1>3 DEF CloseLedger, CommitTypeOK
  <2>2. \A s \in Sender : commits[s].set => commits[s].ledger \in Nat
    BY EntryShape DEF CommitTypeOK
  <2> QED
    BY <1>3, <2>1, <2>2 DEF CloseLedger, CommitTypeOK, CountOK, HistoryOK, Occupied
<1>4. CASE UNCHANGED vars
  BY <1>4 DEF vars, CommitTypeOK, CountOK, HistoryOK, Occupied
<1> QED
  BY <1>1, <1>2, <1>3, <1>4, CommitSwapInv, RevealInv, PruneInv DEF Next

\* The inductive invariant of the commits.
THEOREM CommitInvariance == Spec => []CommitInv
<1> QED
  BY CommitInit, CommitStep, PTL DEF Spec

\* CommitCount is the number of stored commits for any number of senders and under
\* any bounds: commit_swap, reveal_swap and prune_expired_commit never leak a slot.
THEOREM CountAlwaysOccupied == Spec => []CountIsOccupied
<1>1. CommitInv => CountIsOccupied
  BY DEF CommitInv, CountOK, CountIsOccupied, Occupied
<1> QED
  BY <1>1, CommitInvariance, PTL

\* reveal_swap never executes a nonce twice, however often it is committed again.
THEOREM NonceAlwaysOnce == Spec => []NonceExecutedOnce
<1>1. CommitInv => NonceExecutedOnce
  BY DEF CommitInv, HistoryOK, NonceExecutedOnce
<1> QED
  BY <1>1, CommitInvariance, PTL

\* reveal_swap executes only a hash that was stored in an earlier ledger, also when
\* its sender overwrote other hashes before.
THEOREM DelayAlwaysKept == Spec => DelayBeforeReveal
<1> DEFINE Delayed ==
      \A s \in Sender :
          (\E n \in Nonces : executed'[<<s, n>>] > executed[<<s, n>>]) => placedAt[s] < ledger
<1>1. CommitInv /\ [Next]_vars => [Delayed]_vars
  <2> SUFFICES ASSUME CommitInv, Next PROVE Delayed
    OBVIOUS
  <2> USE DEF CommitInv
  <2>1. ASSUME NEW s \in Sender, NEW swap \in Swaps, NEW nonce \in Nonces,
               reveal_swap(s, swap, nonce)
        PROVE  Delayed
    <3>1. \A t \in Sender, n \in Nonces : t # s => executed'[<<t, n>>] = executed[<<t, n>>]
      BY <2>1 DEF reveal_swap, CommitTypeOK
    <3>2. commits[s].ledger \in Nat /\ placedAt[s] \in Nat /\ ledger \in Nat
      BY <2>1, EntryShape DEF reveal_swap, Live, CommitTypeOK
    <3>3. placedAt[s] <= commits[s].ledger /\ commits[s].ledger < ledger
      BY <2>1, <3>2 DEF reveal_swap, Live, HistoryOK
    <3>4. \A t \in Sender, n \in Nonces : executed[<<t, n>>] \in Nat
      BY DEF CommitTypeOK
    <3> QED
      BY <3>1, <3>2, <3>3, <3>4
  <2>2. CASE UNCHANGED executed
    <3>1. \A s \in Sender, n \in Nonces : executed[<<s, n>>] \in Nat
      BY DEF CommitTypeOK
    <3> QED
      BY <2>2, <3>1
  <2>3. \/ \E s \in Sender, swap \in Swaps, nonce \in Nonces : reveal_swap(s, swap, nonce)
        \/ UNCHANGED executed
    BY DEF Next, commit_swap, reveal_expired, prune_expired_commit, set_commit_config,
           CloseLedger
  <2> QED
    BY <2>1, <2>2, <2>3
<1>2. Spec => [][Delayed]_vars
  BY <1>1, CommitInvariance, PTL DEF Spec
<1> QED
  BY <1>2 DEF DelayBeforeReveal

=============================================================================
