---------------------------- MODULE RouterCommit ----------------------------
(***************************************************************************)
(* The router's commit-reveal swaps (contracts/router): a sender stores the *)
(* hash of a swap, waits for a later ledger, and reveals the swap, which is *)
(* then executed.  The commits share a bounded number of slots and expire.  *)
(*                                                                          *)
(* SHA-256 is modelled as injective: a hash is the record of what was       *)
(* hashed, the sender included.  A call that returns an error is rolled     *)
(* back by the host, also when the code wrote something before returning    *)
(* it; so a reveal that comes too early, reuses a nonce, does not match or  *)
(* whose swap fails is a stuttering step.  The reveal of an expired commit, *)
(* which writes and then returns an error, leaves only a trace in `refused`.*)
(***************************************************************************)
EXTENDS Integers, FiniteSets

CONSTANTS
    Sender,           \* accounts that commit swaps
    Swaps,            \* what else a hash covers: tokens, amounts, salt
    Nonces,           \* nonces a sender chooses from
    DefaultMax,       \* DEFAULT_MAX_COMMITS
    DefaultExpiry,    \* DEFAULT_COMMIT_EXPIRY_LEDGERS
    MaxCommitsCap,    \* MAX_COMMITS_HARD_CAP
    ExpiryCap,        \* COMMIT_EXPIRY_HARD_CAP
    NoSender,         \* not a sender
    LastLedger        \* model bound on the ledger sequence

ASSUME RouterAssumption ==
    /\ NoSender \notin Sender
    /\ DefaultMax \in 1..MaxCommitsCap /\ DefaultExpiry \in 1..ExpiryCap
    /\ MaxCommitsCap \in Nat /\ ExpiryCap \in Nat /\ LastLedger \in Nat

VARIABLES
    commits,          \* Commit(sender)
    count,            \* CommitCount
    nonceUsed,        \* NonceUsed(sender, nonce)
    config,           \* CommitConfig
    ledger,           \* the ledger sequence
    placedAt,         \* the ledger in which the stored hash was put there (history)
    executed,         \* how often a sender's nonce was executed (history)
    refused           \* the sender whose reveal was just refused as expired (history)

vars == <<commits, count, nonceUsed, config, ledger, placedAt, executed, refused>>

Hash == [sender: Sender, swap: Swaps, nonce: Nonces]
NoCommit == [set |-> FALSE]
Entry(hash, n) == [set |-> TRUE, hash |-> hash, ledger |-> n]

Init ==
    /\ commits = [s \in Sender |-> NoCommit] /\ count = 0
    /\ nonceUsed = {}
    /\ config = [max_commits |-> DefaultMax, expiry_ledgers |-> DefaultExpiry]
    /\ ledger = 0
    /\ placedAt = [s \in Sender |-> 0]
    /\ executed = [p \in Sender \X Nonces |-> 0]
    /\ refused = NoSender

-----------------------------------------------------------------------------

\* The stored commit of s can no longer be revealed.
Expired(s) == commits[s].set /\ ledger > commits[s].ledger + config.expiry_ledgers

Live(s) == commits[s].set /\ ~Expired(s)

\* A live commit may be overwritten; anything else needs a free slot.
CommitAdmitted(s) == Live(s) \/ count < config.max_commits

\* Mutant: overwriting a commit keeps the ledger of the first one.
CommitKeepsLedger(s, hash) ==
    /\ CommitAdmitted(s)
    /\ count' = IF commits[s].set THEN count ELSE count + 1
    /\ commits' = [commits EXCEPT
           ![s] = Entry(hash, IF Live(s) THEN commits[s].ledger ELSE ledger)]
    /\ placedAt' = [placedAt EXCEPT
           ![s] = IF commits[s].set /\ commits[s].hash = hash THEN @ ELSE ledger]
    /\ refused' = NoSender
    /\ UNCHANGED <<nonceUsed, config, ledger, executed>>

commit_swap(s, hash) ==
    /\ CommitAdmitted(s)
    /\ count' = IF commits[s].set THEN count ELSE count + 1
    /\ commits' = [commits EXCEPT ![s] = Entry(hash, ledger)]
    /\ placedAt' = [placedAt EXCEPT
           ![s] = IF commits[s].set /\ commits[s].hash = hash THEN @ ELSE ledger]
    /\ refused' = NoSender
    /\ UNCHANGED <<nonceUsed, config, ledger, executed>>

FreeSlot(s) ==
    /\ commits' = [commits EXCEPT ![s] = NoCommit]
    /\ count' = IF count > 0 THEN count - 1 ELSE 0

\* Mutant: the nonce is not marked.
RevealForgetsNonce(s, swap, nonce) ==
    /\ Live(s) /\ ledger > commits[s].ledger
    /\ <<s, nonce>> \notin nonceUsed
    /\ commits[s].hash = [sender |-> s, swap |-> swap, nonce |-> nonce]
    /\ FreeSlot(s)
    /\ executed' = [executed EXCEPT ![<<s, nonce>>] = @ + 1]
    /\ refused' = NoSender
    /\ UNCHANGED <<nonceUsed, config, ledger, placedAt>>

\* A reveal whose swap is routed and succeeds.
reveal_swap(s, swap, nonce) ==
    /\ Live(s) /\ ledger > commits[s].ledger
    /\ <<s, nonce>> \notin nonceUsed
    /\ commits[s].hash = [sender |-> s, swap |-> swap, nonce |-> nonce]
    /\ FreeSlot(s)
    /\ nonceUsed' = nonceUsed \cup {<<s, nonce>>}
    /\ executed' = [executed EXCEPT ![<<s, nonce>>] = @ + 1]
    /\ refused' = NoSender
    /\ UNCHANGED <<config, ledger, placedAt>>

\* reveal_swap on an expired commit: what it writes is lost with its CommitExpired.
reveal_expired(s) ==
    /\ Expired(s)
    /\ refused' = s
    /\ UNCHANGED <<commits, count, nonceUsed, config, ledger, placedAt, executed>>

\* Mutant: an evicted commit still counts.
PruneKeepsCount(s) ==
    /\ Expired(s)
    /\ commits' = [commits EXCEPT ![s] = NoCommit]
    /\ refused' = NoSender
    /\ UNCHANGED <<count, nonceUsed, config, ledger, placedAt, executed>>

prune_expired_commit(s) ==
    /\ Expired(s)
    /\ FreeSlot(s)
    /\ refused' = NoSender
    /\ UNCHANGED <<nonceUsed, config, ledger, placedAt, executed>>

\* Signed by the factory's fee_to_setter.
set_commit_config(max_commits, expiry_ledgers) ==
    /\ max_commits \in 1..MaxCommitsCap /\ expiry_ledgers \in 1..ExpiryCap
    /\ config' = [max_commits |-> max_commits, expiry_ledgers |-> expiry_ledgers]
    /\ refused' = NoSender
    /\ UNCHANGED <<commits, count, nonceUsed, ledger, placedAt, executed>>

CloseLedger ==
    /\ ledger < LastLedger
    /\ ledger' = ledger + 1
    /\ refused' = NoSender
    /\ UNCHANGED <<commits, count, nonceUsed, config, placedAt, executed>>

Next ==
    \/ \E s \in Sender :
          \/ \E hash \in Hash : commit_swap(s, hash)
          \/ \E swap \in Swaps, nonce \in Nonces : reveal_swap(s, swap, nonce)
          \/ reveal_expired(s)
          \/ prune_expired_commit(s)
    \/ \E n \in 0..(MaxCommitsCap + 1), e \in 0..(ExpiryCap + 1) : set_commit_config(n, e)
    \/ CloseLedger

Spec == Init /\ [][Next]_vars

-----------------------------------------------------------------------------
(***************************************************************************)
(* Properties.                                                              *)
(***************************************************************************)

\* CommitCount, a number kept beside the entries and changed by four entry
\* points, is the number of entries: no order of commits, overwrites, reveals,
\* prunes and reconfigurations makes a slot leak or be counted twice.
CountIsOccupied == count = Cardinality({s \in Sender : commits[s].set})

\* A nonce is executed at most once, whatever its sender commits again later,
\* with the same swap or with another one (reveal_swap, step 3).
NonceExecutedOnce == \A p \in Sender \X Nonces : executed[p] <= 1

\* A swap is executed only if exactly its hash has been on chain since an earlier
\* ledger (reveal_swap, step 2): replacing one's commit restarts the delay.
DelayBeforeReveal ==
    [][\A s \in Sender :
          (\E n \in Nonces : executed'[<<s, n>>] > executed[<<s, n>>]) => placedAt[s] < ledger]_vars

\* "Free the slot so the global bound does not leak" (reveal_swap): after a reveal
\* was refused as expired, its sender occupies no slot.
ExpiredRevealFreesSlot == refused # NoSender => ~commits[refused].set

=============================================================================
