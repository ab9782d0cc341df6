-------------------------- MODULE ObservationQueue --------------------------
(***************************************************************************)
(* What the oracle's observation ring promises (contracts/pair, oracle): a  *)
(* queue of observations, oldest first, that forgets what is older than the *)
(* longest window and, beyond its capacity, the oldest.                     *)
(***************************************************************************)
EXTENDS Naturals, Sequences

CONSTANTS
    Capacity,         \* observations kept
    Window            \* ledgers an observation is kept

VARIABLES
    queue,            \* observations, each with the ledger it was made in
    ledger            \* the current ledger

Fresh(s) == s.ledger + Window >= ledger

\* The last Capacity elements of q.
Kept(q) == IF Len(q) <= Capacity THEN q ELSE SubSeq(q, Len(q) - Capacity + 1, Len(q))

Init == queue = <<>> /\ ledger \in Nat

\* An observation s of the current ledger follows those that are still fresh,
\* which are all but the first k.
Record ==
    /\ queue' # <<>>
    /\ \E k \in 0..Len(queue) :
          LET s == queue'[Len(queue')]
          IN  /\ \A i \in 1..Len(queue) : Fresh(queue[i]) <=> i > k
              /\ s.ledger = ledger
              /\ queue' = Kept(Append(SubSeq(queue, k + 1, Len(queue)), s))
    /\ UNCHANGED ledger

CloseLedger == ledger' > ledger /\ UNCHANGED queue

Next == Record \/ CloseLedger

Spec == Init /\ [][Next]_<<queue, ledger>>
=============================================================================
