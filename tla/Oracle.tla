------------------------------- MODULE Oracle -------------------------------
(***************************************************************************)
(* The pair's time-weighted average price (contracts/pair, oracle): two     *)
(* wrapping accumulators of price times elapsed ledgers, a ring of their    *)
(* recent values, and the average over a window that consult_twap takes     *)
(* from the ring.                                                           *)
(*                                                                          *)
(* consult_twap is an entry point of the pair.  update_cumulative_prices is *)
(* not called by one yet: its caller is modelled as its tests call it, with *)
(* the ledgers passed since the last call.                                  *)
(***************************************************************************)
EXTENDS Integers, Sequences, FiniteSetsExt

CONSTANTS
    MAX_OBSERVATIONS, \* slots of the ring, 24
    MAX_TWAP_WINDOW,  \* longest window, 86400 ledgers
    HalfRange,        \* an i128 is in -HalfRange..(HalfRange - 1)
    ReservePairs,     \* model bound: reserves an update may see
    MaxLedger         \* model bound on the ledger sequence

ASSUME OracleAssumption ==
    /\ MAX_OBSERVATIONS \in Nat \ {0} /\ MAX_TWAP_WINDOW \in Nat \ {0}
    /\ HalfRange \in Nat \ {0} /\ MaxLedger \in Nat
    /\ ReservePairs \subseteq [{"A", "B"} -> Nat]

VARIABLES
    cumulative,       \* the two accumulators
    ring,             \* slots, head and count of OracleState
    ledger,           \* the ledger sequence
    last,             \* ledger of the last call of update_cumulative_prices
    recent            \* history: the price in the ledger so many ledgers ago

vars == <<cumulative, ring, ledger, last, recent>>

Token == {"A", "B"}
Other(t) == IF t = "A" THEN "B" ELSE "A"

Wrap(n) == ((n + HalfRange) % (2 * HalfRange)) - HalfRange

\* Division of integers in Rust: towards zero.
Quotient(a, b) == IF a >= 0 THEN a \div b ELSE -((-a) \div b)

\* No price is known, and none is answered: a value without prices.
NoPrice == [t \in {} |-> 0]

Init ==
    /\ cumulative = [t \in Token |-> 0]
    /\ ring = [slots |-> <<>>, head |-> 0, count |-> 0]
    /\ ledger = 1 /\ last = 0
    /\ recent = [k \in 0..(MAX_TWAP_WINDOW - 1) |-> NoPrice]

-----------------------------------------------------------------------------
(***************************************************************************)
(* The ring.                                                                *)
(***************************************************************************)

\* The index-th live sample of ring r, oldest first.
sample(r, index) == r.slots[((r.head + index) % MAX_OBSERVATIONS) + 1]

oldest(r) == sample(r, 0)
newest(r) == sample(r, r.count - 1)

\* Mutant: dead slots left by pruning are not reused, the sample goes to the end.
PushAppends(r, s) ==
    IF r.count < MAX_OBSERVATIONS /\ Len(r.slots) < MAX_OBSERVATIONS
    THEN [r EXCEPT !.slots = Append(@, s), !.count = @ + 1]
    ELSE [r EXCEPT !.slots[r.head + 1] = s, !.head = (@ + 1) % MAX_OBSERVATIONS]

push(r, s) ==
    LET index == (r.head + r.count) % MAX_OBSERVATIONS
    IN  IF r.count < MAX_OBSERVATIONS
        THEN [r EXCEPT !.slots = IF index < Len(@) THEN [@ EXCEPT ![index + 1] = s]
                                                   ELSE Append(@, s),
                       !.count = @ + 1]
        ELSE [r EXCEPT !.slots[r.head + 1] = s, !.head = (@ + 1) % MAX_OBSERVATIONS]

\* The loop stops at the first sample that a window can still reach.
prune_expired(r, now) ==
    LET k == Min({i \in 0..r.count :
                     i < r.count => sample(r, i).ledger + MAX_TWAP_WINDOW >= now})
    IN  [r EXCEPT !.head = (@ + k) % MAX_OBSERVATIONS, !.count = @ - k]

-----------------------------------------------------------------------------

\* The price of t in units of the other token, as it is accumulated.
Price(reserves) == [t \in Token |-> reserves[Other(t)] \div reserves[t]]

update_cumulative_prices(reserves) ==
    LET elapsed == ledger - last
        priced  == \A t \in Token : reserves[t] # 0
        next    == [t \in Token |->
                       Wrap(cumulative[t] + Wrap(Price(reserves)[t] * elapsed))]
        observed == [ledger |-> ledger, cumulative |-> next]
    IN  /\ elapsed > 0
        /\ IF priced
           THEN /\ cumulative' = next
                /\ ring' = push(prune_expired(ring, ledger), observed)
           ELSE UNCHANGED <<cumulative, ring>>
        /\ last' = ledger
        /\ recent' = [k \in DOMAIN recent |->
                         IF k >= elapsed THEN recent[k]
                         ELSE IF priced THEN Price(reserves) ELSE NoPrice]
        /\ UNCHANGED ledger

CloseLedger ==
    /\ ledger < MaxLedger /\ ledger' = ledger + 1
    /\ recent' = [k \in DOMAIN recent |-> IF k = 0 THEN NoPrice ELSE recent[k - 1]]
    /\ UNCHANGED <<cumulative, ring, last>>

Refused == NoPrice

\* The newest sample at or before a ledger, and the oldest at or after it.
StartSample(target) ==
    sample(ring, Max({i \in 0..(ring.count - 1) : sample(ring, i).ledger <= target}))
EndSample(target) ==
    sample(ring, Min({i \in 0..(ring.count - 1) : sample(ring, i).ledger >= target}))

\* Mutant: the accumulators are compared as if they never wrapped.
DeltaUnwrapped(from, to) == to - from

\* The accumulated difference between two values of an accumulator.
Delta(from, to) == Wrap(to - from)

\* The product that the interpolation forms, which the build checks for overflow.
Interpolant(start, end, target, t) ==
    Delta(start.cumulative[t], end.cumulative[t]) * (target - start.ledger)

Interpolated(start, end, target, t) ==
    IF end.ledger = start.ledger THEN start.cumulative[t]
    ELSE Wrap(start.cumulative[t]
                + Quotient(Interpolant(start, end, target, t), end.ledger - start.ledger))

consult_twap(window) ==
    LET target == IF ledger > window THEN ledger - window ELSE 0
        start  == StartSample(target)
        end    == EndSample(target)
        latest == newest(ring)
    IN  IF /\ window \in 1..MAX_TWAP_WINDOW
           /\ ring.count > 0
           /\ oldest(ring).ledger <= target
           /\ latest.ledger >= target + window
           /\ \A t \in Token : Interpolant(start, end, target, t) \in (-HalfRange)..(HalfRange - 1)
        THEN [t \in Token |->
                 Quotient(Delta(Interpolated(start, end, target, t), latest.cumulative[t]),
                          latest.ledger - target)]
        ELSE Refused

Next ==
    \/ \E reserves \in ReservePairs : update_cumulative_prices(reserves)
    \/ CloseLedger

Spec == Init /\ [][Next]_vars

-----------------------------------------------------------------------------
(***************************************************************************)
(* Properties.                                                              *)
(***************************************************************************)

\* The live samples, as the queue that the ring stands for.
LiveSamples == [i \in 1..ring.count |-> sample(ring, i - 1)]

Queue == INSTANCE ObservationQueue
             WITH queue <- LiveSamples, Capacity <- MAX_OBSERVATIONS, Window <- MAX_TWAP_WINDOW

\* Through wraps, evictions and expiries in any order the ring is the queue of
\* module ObservationQueue: the live samples are the newest unexpired ones, in order.
RingIsQueue == Queue!Spec

\* The prices of t in the last n ledgers, added up.
PriceSum(t, n) ==
    LET sum[k \in 0..n] == IF k = 0 THEN 0 ELSE sum[k - 1] + recent[k - 1][t]
    IN  sum[n]

\* An average that consult_twap answers is the mean of the prices of the ledgers in
\* the window, rounded once, though the accumulators wrap, the window starts between
\* two samples and the ring has turned over.  Where some of the time since the
\* starting sample had no price, that time counts as a price of zero: the average
\* never exceeds the highest price seen, but it may lie below every one of them.
TwapIsMean ==
    \A window \in 1..MAX_TWAP_WINDOW :
        consult_twap(window) # Refused =>
            LET seen   == 0..(ledger - StartSample(ledger - window).ledger - 1)
                prices(t) == {recent[k][t] : k \in {j \in seen : recent[j] # NoPrice}}
            IN  \A t \in Token :
                    IF \A k \in seen : recent[k] # NoPrice
                    THEN consult_twap(window)[t] = PriceSum(t, window) \div window
                    ELSE consult_twap(window)[t] \in 0..Max(prices(t))

=============================================================================
