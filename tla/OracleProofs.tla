---------------------------- MODULE OracleProofs ----------------------------
(***************************************************************************)
(* For every capacity, window, range and price history: the observation     *)
(* ring implements the bounded, expiring queue of ObservationQueue, and an  *)
(* average that consult_twap answers is the mean of the prices in its       *)
(* window.                                                                  *)
(***************************************************************************)
EXTENDS Oracle, LedgerArithmetic, SequenceTheorems

(***************************************************************************)
(* The ring's indices.                                                      *)
(***************************************************************************)

\* Reducing an index modulo the capacity subtracts it at most once.
LEMMA WrapIndex ==
    ASSUME NEW h \in 0..(MAX_OBSERVATIONS - 1), NEW i \in 0..MAX_OBSERVATIONS
    PROVE  (h + i) % MAX_OBSERVATIONS
             = IF h + i < MAX_OBSERVATIONS THEN h + i ELSE h + i - MAX_OBSERVATIONS
<1> USE OracleAssumption
<1> DEFINE m == MAX_OBSERVATIONS
           x == h + i
           q == x \div m
<1>1. m \in Nat \ {0} /\ x \in Nat /\ x < 2 * m
  OBVIOUS
<1> HIDE DEF m, x
<1>2. q \in Nat /\ m * q <= x /\ x < m * q + m /\ x % m = x - m * q
  BY <1>1, SMT
<1> HIDE DEF q
<1>3. q = 0 \/ q = 1
  <2>1. SUFFICES ASSUME q >= 2 PROVE FALSE
    BY <1>2
  <2>2. 2 * m <= q * m
    BY <1>1, <1>2, <2>1, MulMono
  <2> QED
    BY <1>1, <1>2, <2>2, SMT
<1>4. (q = 0 => m * q = 0) /\ (q = 1 => m * q = m)
  BY <1>1
<1> QED
  BY <1>1, <1>2, <1>3, <1>4 DEF m, x

\* The slot of the i-th sample of a ring that starts at h.
Slot(h, i) == (h + i) % MAX_OBSERVATIONS

\* It is h + i, wrapped around once.
LEMMA SlotValue ==
    ASSUME NEW h \in 0..(MAX_OBSERVATIONS - 1), NEW i \in 0..MAX_OBSERVATIONS
    PROVE  /\ Slot(h, i) = IF h + i < MAX_OBSERVATIONS THEN h + i ELSE h + i - MAX_OBSERVATIONS
           /\ Slot(h, i) \in 0..(MAX_OBSERVATIONS - 1)
<1> DEFINE x == (h + i) % MAX_OBSERVATIONS
<1>1. x = IF h + i < MAX_OBSERVATIONS THEN h + i ELSE h + i - MAX_OBSERVATIONS
  BY WrapIndex
<1> HIDE DEF x
<1>2. x \in 0..(MAX_OBSERVATIONS - 1)
  BY <1>1, OracleAssumption
<1> QED
  BY <1>1, <1>2 DEF x, Slot

(***************************************************************************)
(* The ring: as long as it has not filled up once, the slots in use end     *)
(* with the last one; after that every slot exists.                         *)
(***************************************************************************)

Sample == [ledger : Nat, cumulative : [Token -> Int]]

RingOK(r) ==
    /\ r \in [slots : Seq(Sample), head : 0..(MAX_OBSERVATIONS - 1), count : 0..MAX_OBSERVATIONS]
    /\ Len(r.slots) <= MAX_OBSERVATIONS
    /\ Len(r.slots) < MAX_OBSERVATIONS => r.head + r.count = Len(r.slots)

\* The live samples of a ring are in the order of their ledgers, none after now.
Ordered(r, now) ==
    \A i \in 0..(r.count - 1) :
        /\ sample(r, i).ledger <= now
        /\ \A j \in i..(r.count - 1) : sample(r, i).ledger <= sample(r, j).ledger


\* What RingOK says of the fields, as numbers.
LEMMA RingFields ==
    ASSUME NEW r, RingOK(r)
    PROVE  /\ MAX_OBSERVATIONS \in Nat \ {0}
           /\ r.head \in 0..(MAX_OBSERVATIONS - 1) /\ r.count \in 0..MAX_OBSERVATIONS
           /\ r.slots \in Seq(Sample) /\ Len(r.slots) \in 0..MAX_OBSERVATIONS
           /\ Len(r.slots) < MAX_OBSERVATIONS => r.head + r.count = Len(r.slots)
           /\ r = [slots |-> r.slots, head |-> r.head, count |-> r.count]
<1>1. MAX_OBSERVATIONS \in Nat \ {0}
  BY OracleAssumption
<1>2. r.slots \in Seq(Sample) /\ Len(r.slots) \in Nat
  BY DEF RingOK
<1> QED
  BY <1>1, <1>2 DEF RingOK

\* A live sample is in a slot that exists.
LEMMA LiveSlot ==
    ASSUME NEW r, RingOK(r), NEW i \in 0..(r.count - 1)
    PROVE  /\ Slot(r.head, i) \in 0..(Len(r.slots) - 1)
           /\ sample(r, i) = r.slots[Slot(r.head, i) + 1]
           /\ sample(r, i) \in Sample
<1> DEFINE m == MAX_OBSERVATIONS
           h == r.head
           c == r.count
           n == Len(r.slots)
<1>1. /\ m \in Nat \ {0} /\ h \in 0..(m - 1) /\ c \in 0..m /\ n \in 0..m
      /\ n < m => h + c = n
      /\ r.slots \in Seq(Sample)
  BY RingFields
<1>2. i \in 0..(c - 1)
  OBVIOUS
<1> HIDE DEF h, c, n
<1>3. Slot(h, i) = IF h + i < m THEN h + i ELSE h + i - m
  BY <1>1, <1>2, SlotValue
<1> HIDE DEF m
<1>4. Slot(h, i) \in 0..(n - 1)
  BY <1>1, <1>2, <1>3
<1>5. Slot(h, i) + 1 \in 1..n
  BY <1>1, <1>4
<1>6. r.slots[Slot(h, i) + 1] \in Sample
  BY <1>1, <1>5, LenProperties DEF n
<1> QED
  BY <1>4, <1>6 DEF sample, Slot, h, n

\* Pruning drops the k expired samples, which are the first, and no other.
LEMMA PruneRing ==
    ASSUME NEW r, RingOK(r), NEW now \in Nat, Ordered(r, now), NEW p, p = prune_expired(r, now)
    PROVE  /\ RingOK(p)
           /\ \E k \in 0..r.count :
                 /\ p.count = r.count - k
                 /\ \A i \in 0..(p.count - 1) : sample(p, i) = sample(r, k + i)
                 /\ \A i \in 0..(r.count - 1) :
                       sample(r, i).ledger + MAX_TWAP_WINDOW >= now <=> i >= k
<1> DEFINE m == MAX_OBSERVATIONS
           h == r.head
           c == r.count
           n == Len(r.slots)
           Reached(i) == sample(r, i).ledger + MAX_TWAP_WINDOW >= now
           T == {i \in 0..c : i < c => Reached(i)}
           k == Min(T)
<1>1. /\ m \in Nat \ {0} /\ h \in 0..(m - 1) /\ c \in 0..m /\ n \in 0..m
      /\ n < m => h + c = n
  BY RingFields
<1>2. r.slots \in Seq(Sample) /\ r = [slots |-> r.slots, head |-> h, count |-> c]
  BY RingFields
<1>3. p = [r EXCEPT !.head = Slot(@, k), !.count = @ - k]
  BY DEF prune_expired, Slot
<1> HIDE DEF m, h, c, n, Reached
<1>4. k \in T /\ \A i \in T : k <= i
  <2>1. T \subseteq Nat /\ c \in T
    BY <1>1
  <2> HIDE DEF T
  <2>2. \E x \in T : \A y \in T : x <= y
    BY <2>1, LeastNat
  <2> QED
    BY <2>2 DEF Min
<1> HIDE DEF k
<1>5. k \in 0..c /\ (k < c => Reached(k)) /\ \A i \in 0..(k - 1) : ~Reached(i)
  <2>1. k \in 0..c /\ (k < c => Reached(k))
    BY <1>4
  <2>2. ASSUME NEW i \in 0..(k - 1), Reached(i) PROVE FALSE
    <3>1. i \in T
      BY <1>1, <2>1, <2>2
    <3> HIDE DEF T
    <3>2. k <= i
      BY <1>4, <3>1
    <3> QED
      BY <1>1, <2>1, <2>2, <3>2
  <2> QED
    BY <2>1, <2>2
<1> HIDE DEF T
<1>6. p = [slots |-> p.slots, head |-> p.head, count |-> p.count]
  BY <1>2, <1>3
<1>7. p.slots = r.slots /\ p.head = Slot(h, k) /\ p.count = c - k
  BY <1>2, <1>3 DEF h, c
<1>8. Slot(h, k) = (IF h + k < m THEN h + k ELSE h + k - m) /\ Slot(h, k) \in 0..(m - 1)
  BY <1>1, <1>5, SlotValue DEF m
<1>9. c - k \in 0..m /\ (n < m => Slot(h, k) + (c - k) = n)
  BY <1>1, <1>5, <1>8
<1>10. RingOK(p)
  <2>1. n <= m
    BY <1>1
  <2> QED
    BY <1>2, <1>6, <1>7, <1>8, <1>9, <2>1 DEF RingOK, m, n
<1>11. ASSUME NEW i \in 0..(c - k - 1) PROVE sample(p, i) = sample(r, k + i)
  <2>1. k + i \in 0..m /\ i \in 0..m
    BY <1>1, <1>5
  <2>2. Slot(Slot(h, k), i) = IF Slot(h, k) + i < m THEN Slot(h, k) + i ELSE Slot(h, k) + i - m
    BY <1>8, <2>1, SlotValue DEF m
  <2>3. Slot(h, k + i) = IF h + (k + i) < m THEN h + (k + i) ELSE h + (k + i) - m
    BY <1>1, <2>1, SlotValue DEF m
  <2>4. Slot(Slot(h, k), i) = Slot(h, k + i)
    BY <1>1, <1>5, <1>8, <2>1, <2>2, <2>3
  <2>5. /\ sample(p, i) = p.slots[Slot(p.head, i) + 1]
        /\ sample(r, k + i) = r.slots[Slot(r.head, k + i) + 1]
    BY DEF sample, Slot
  <2> QED
    BY <1>7, <2>4, <2>5 DEF h
<1>12. ASSUME NEW i \in 0..(c - 1)
       PROVE  Reached(i) <=> i >= k
  <2>1. CASE i < k
    BY <1>1, <1>5, <2>1
  <2>2. CASE i >= k
    <3>1. k \in 0..(c - 1) /\ i \in k..(c - 1)
      BY <1>1, <1>5, <2>2
    <3>2. sample(r, k).ledger <= sample(r, i).ledger
      BY <3>1 DEF Ordered, c
    <3>3. sample(r, k).ledger \in Nat /\ sample(r, i).ledger \in Nat
      BY <3>1, LiveSlot DEF Sample, c
    <3>4. Reached(k)
      BY <1>1, <1>5, <3>1
    <3> QED
      BY <2>2, <3>2, <3>3, <3>4, OracleAssumption DEF Reached
  <2> QED
    BY <1>1, <1>5, <2>1, <2>2
<1>13. k \in 0..r.count /\ p.count = r.count - k
  BY <1>5, <1>7 DEF c
<1>14. \A i \in 0..(p.count - 1) : sample(p, i) = sample(r, k + i)
  BY <1>7, <1>11
<1>15. \A i \in 0..(r.count - 1) : sample(r, i).ledger + MAX_TWAP_WINDOW >= now <=> i >= k
  BY <1>12 DEF Reached, c
<1> QED
  BY <1>10, <1>13, <1>14, <1>15

\* A ring after a push: one sample more, or the oldest one less, and s the newest.
Pushed(r, s, p) ==
    /\ RingOK(p)
    /\ p.count = IF r.count < MAX_OBSERVATIONS THEN r.count + 1 ELSE MAX_OBSERVATIONS
    /\ sample(p, p.count - 1) = s
    /\ \A i \in 0..(p.count - 2) : sample(p, i) = sample(r, i + (r.count + 1 - p.count))

\* A ring with room: the slot after the newest sample is reused, or is a new one.
LEMMA PushWithRoom ==
    ASSUME NEW r, RingOK(r), NEW s \in Sample, r.count < MAX_OBSERVATIONS, NEW p, p = push(r, s)
    PROVE  Pushed(r, s, p)
<1> DEFINE m == MAX_OBSERVATIONS
           h == r.head
           c == r.count
           n == Len(r.slots)
           index == Slot(h, c)
<1>1. /\ m \in Nat \ {0} /\ h \in 0..(m - 1) /\ c \in 0..(m - 1) /\ n \in 0..m
      /\ n < m => h + c = n
  BY RingFields
<1>2. r.slots \in Seq(Sample) /\ r = [slots |-> r.slots, head |-> r.head, count |-> r.count]
  BY RingFields
<1>3. p = [r EXCEPT !.slots = IF index < Len(@) THEN [@ EXCEPT ![index + 1] = s] ELSE Append(@, s),
                    !.count = @ + 1]
  BY DEF push, Slot
<1> HIDE DEF index
<1>4. p = [slots |-> p.slots, head |-> p.head, count |-> p.count]
  BY <1>2, <1>3
<1>5. /\ p.slots = IF index < n THEN [r.slots EXCEPT ![index + 1] = s] ELSE Append(r.slots, s)
      /\ p.head = h /\ p.count = c + 1
  BY <1>2, <1>3
<1> HIDE DEF m, h, c, n
<1>6. \A i \in 0..c : Slot(h, i) = (IF h + i < m THEN h + i ELSE h + i - m)
                      /\ Slot(h, i) \in 0..(m - 1)
  <2>1. \A i \in 0..c : i \in 0..m
    BY <1>1
  <2> QED
    BY <1>1, <2>1, SlotValue DEF m
<1>7. index = (IF h + c < m THEN h + c ELSE h + c - m) /\ index \in 0..(m - 1)
  BY <1>1, <1>6 DEF index
<1>8. index < n => n = m
  BY <1>1, <1>7
<1>9. ~(index < n) => index = n /\ n < m /\ h + c = n
  BY <1>1, <1>7
<1>10. \A i \in 0..(c - 1) : Slot(h, i) # index
  BY <1>1, <1>6, <1>7
<1>11. /\ p.slots \in Seq(Sample) /\ p.slots[index + 1] = s
       /\ Len(p.slots) = IF index < n THEN n ELSE n + 1
       /\ \A j \in 1..n : j # index + 1 => p.slots[j] = r.slots[j]
  <2>1. n = Len(r.slots)
    BY DEF n
  <2>2. CASE index < n
    <3>1. index + 1 \in 1..Len(r.slots)
      BY <1>1, <1>7, <2>1, <2>2
    <3>2. p.slots = [r.slots EXCEPT ![index + 1] = s]
      BY <1>5, <2>2
    <3> QED
      BY <1>2, <2>1, <2>2, <3>1, <3>2, ExceptSeq, LenProperties
  <2>3. CASE ~(index < n)
    <3>1. p.slots = Append(r.slots, s) /\ index + 1 = Len(r.slots) + 1
      BY <1>5, <1>9, <2>1, <2>3
    <3> QED
      BY <1>2, <2>1, <2>3, <3>1, AppendProperties
  <2> QED
    BY <2>2, <2>3
<1>12. RingOK(p)
  <2>1. /\ p.head \in 0..(m - 1) /\ p.count \in 0..m /\ Len(p.slots) <= m
        /\ Len(p.slots) < m => p.head + p.count = Len(p.slots)
    BY <1>1, <1>5, <1>8, <1>9, <1>11
  <2> QED
    BY <1>4, <1>11, <2>1 DEF RingOK, m
<1>13. \A i : sample(p, i) = p.slots[Slot(h, i) + 1] /\ sample(r, i) = r.slots[Slot(h, i) + 1]
  BY <1>5 DEF sample, Slot, h
<1>14. p.count - 1 = c /\ sample(p, p.count - 1) = s
  <2>1. p.count - 1 = c
    BY <1>1, <1>5
  <2>2. sample(p, c) = p.slots[Slot(h, c) + 1]
    BY <1>13
  <2> QED
    BY <1>11, <2>1, <2>2 DEF index
<1>15. ASSUME NEW i \in 0..(p.count - 2) PROVE sample(p, i) = sample(r, i + (c + 1 - p.count))
  <2>1. i \in 0..(c - 1) /\ i + (c + 1 - p.count) = i
    BY <1>1, <1>5
  <2>2. Slot(r.head, i) \in 0..(Len(r.slots) - 1)
    BY <2>1, LiveSlot DEF c
  <2>3. Slot(h, i) + 1 \in 1..n /\ Slot(h, i) + 1 # index + 1
    <3>1. Slot(h, i) \in 0..(n - 1)
      BY <2>2 DEF h, n
    <3> QED
      BY <1>1, <1>7, <1>10, <2>1, <3>1
  <2>4. p.slots[Slot(h, i) + 1] = r.slots[Slot(h, i) + 1]
    BY <1>11, <2>3
  <2> QED
    BY <1>13, <2>1, <2>4
<1>16. p.count = IF r.count < MAX_OBSERVATIONS THEN r.count + 1 ELSE MAX_OBSERVATIONS
  BY <1>5 DEF c
<1> QED
  BY <1>12, <1>14, <1>15, <1>16 DEF Pushed, c

\* A full ring: the oldest sample's slot is reused and the next one is the oldest.
LEMMA PushWhenFull ==
    ASSUME NEW r, RingOK(r), NEW s \in Sample, ~(r.count < MAX_OBSERVATIONS), NEW p, p = push(r, s)
    PROVE  Pushed(r, s, p)
<1> DEFINE m == MAX_OBSERVATIONS
           h == r.head
           n == Len(r.slots)
<1>1. /\ m \in Nat \ {0} /\ h \in 0..(m - 1) /\ r.count \in 0..m /\ n \in 0..m
      /\ n < m => h + r.count = n
  BY RingFields
<1>2. r.slots \in Seq(Sample) /\ r = [slots |-> r.slots, head |-> r.head, count |-> r.count]
  BY RingFields
<1>3. p = [r EXCEPT !.slots[r.head + 1] = s, !.head = Slot(@, 1)]
  BY DEF push, Slot
<1>4. p = [slots |-> p.slots, head |-> p.head, count |-> p.count]
  BY <1>2, <1>3
<1>5. /\ p.slots = [r.slots EXCEPT ![h + 1] = s]
      /\ p.head = Slot(h, 1) /\ p.count = r.count
  BY <1>2, <1>3
<1>6. r.count = m /\ n = m
  BY <1>1
<1> HIDE DEF m, h, n
<1>7. Slot(h, 1) = (IF h + 1 < m THEN h + 1 ELSE h + 1 - m) /\ Slot(h, 1) \in 0..(m - 1)
  <2>1. 1 \in 0..m
    BY <1>1
  <2> QED
    BY <1>1, <2>1, SlotValue DEF m
<1>8. /\ p.slots \in Seq(Sample) /\ Len(p.slots) = m /\ p.slots[h + 1] = s
      /\ \A j \in 1..m : j # h + 1 => p.slots[j] = r.slots[j]
  <2>1. h + 1 \in 1..Len(r.slots) /\ Len(r.slots) = m
    BY <1>1, <1>6 DEF n
  <2> QED
    BY <1>2, <1>5, <2>1, ExceptSeq, LenProperties
<1>9. RingOK(p)
  <2>1. /\ p.head \in 0..(m - 1) /\ p.count \in 0..m /\ Len(p.slots) <= m
        /\ ~(Len(p.slots) < m)
    BY <1>1, <1>5, <1>6, <1>7, <1>8
  <2> QED
    BY <1>4, <1>8, <2>1 DEF RingOK, m
<1>10. \A i : /\ sample(p, i) = p.slots[Slot(Slot(h, 1), i) + 1]
              /\ sample(r, i) = r.slots[Slot(h, i) + 1]
  BY <1>5 DEF sample, Slot, h
<1>11. ASSUME NEW i \in 0..(m - 1)
       PROVE  /\ i = m - 1 => Slot(Slot(h, 1), i) = h
              /\ i < m - 1 => Slot(Slot(h, 1), i) = Slot(h, i + 1)
              /\ i < m - 1 => Slot(h, i + 1) \in 0..(m - 1) /\ Slot(h, i + 1) # h
  <2>1. i \in 0..m /\ i + 1 \in 0..m
    BY <1>1
  <2>2. Slot(Slot(h, 1), i) = IF Slot(h, 1) + i < m THEN Slot(h, 1) + i ELSE Slot(h, 1) + i - m
    BY <1>7, <2>1, SlotValue DEF m
  <2>3. Slot(h, i + 1) = IF h + (i + 1) < m THEN h + (i + 1) ELSE h + (i + 1) - m
    BY <1>1, <2>1, SlotValue DEF m
  <2> QED
    BY <1>1, <1>7, <2>1, <2>2, <2>3
<1>12. sample(p, p.count - 1) = s
  <2>1. p.count - 1 = m - 1 /\ m - 1 \in 0..(m - 1)
    BY <1>1, <1>5, <1>6
  <2> QED
    BY <1>8, <1>10, <1>11, <2>1
<1>13. ASSUME NEW i \in 0..(p.count - 2) PROVE sample(p, i) = sample(r, i + (r.count + 1 - p.count))
  <2>1. i \in 0..(m - 1) /\ i < m - 1 /\ i + (r.count + 1 - p.count) = i + 1
    BY <1>1, <1>5, <1>6
  <2>2. Slot(h, i + 1) + 1 \in 1..m /\ Slot(h, i + 1) + 1 # h + 1
    BY <1>1, <1>11, <2>1
  <2>3. p.slots[Slot(h, i + 1) + 1] = r.slots[Slot(h, i + 1) + 1]
    BY <1>8, <2>2
  <2> QED
    BY <1>10, <1>11, <2>1, <2>3
<1>14. p.count = IF r.count < MAX_OBSERVATIONS THEN r.count + 1 ELSE MAX_OBSERVATIONS
  BY <1>5, <1>6 DEF m
<1> QED
  BY <1>9, <1>12, <1>13, <1>14 DEF Pushed

-----------------------------------------------------------------------------
(***************************************************************************)
(* The queue that a ring stands for.                                        *)
(***************************************************************************)

Live(r) == [i \in 1..r.count |-> sample(r, i - 1)]

\* It is a sequence of samples.
LEMMA LiveIsSeq ==
    ASSUME NEW r, RingOK(r)
    PROVE  /\ Live(r) \in Seq(Sample) /\ Len(Live(r)) = r.count /\ r.count \in Nat
           /\ \A i \in 1..r.count : Live(r)[i] = sample(r, i - 1) /\ i - 1 \in 0..(r.count - 1)
<1>1. r.count \in Nat
  BY RingFields
<1>2. \A i \in 1..r.count : i - 1 \in 0..(r.count - 1) /\ sample(r, i - 1) \in Sample
  <2>1. \A i \in 1..r.count : i - 1 \in 0..(r.count - 1)
    BY <1>1
  <2> QED
    BY <2>1, LiveSlot
<1>3. Live(r) \in [1..r.count -> Sample]
  BY <1>2 DEF Live
<1>4. Live(r) \in Seq(Sample) /\ Len(Live(r)) = r.count
  BY <1>1, <1>3
<1> QED
  BY <1>1, <1>2, <1>4 DEF Live

\* An update keeps all but the first d samples, d being the number k of expired ones
\* or, when that leaves a full ring, one more, and adds s.
LEMMA UpdateRing ==
    ASSUME NEW r, RingOK(r), NEW now \in Nat, Ordered(r, now), NEW s \in Sample,
           NEW p, p = push(prune_expired(r, now), s)
    PROVE  /\ RingOK(p)
           /\ \E k \in 0..r.count, d \in 0..r.count :
                 /\ d = IF r.count - k < MAX_OBSERVATIONS THEN k ELSE k + 1
                 /\ p.count = r.count - d + 1
                 /\ sample(p, p.count - 1) = s
                 /\ \A i \in 0..(p.count - 2) : sample(p, i) = sample(r, i + d)
                 /\ \A i \in 0..(r.count - 1) :
                       sample(r, i).ledger + MAX_TWAP_WINDOW >= now <=> i >= k
<1> DEFINE q == prune_expired(r, now)
<1>1. RingOK(q)
  BY PruneRing
<1>2. PICK k \in 0..r.count :
          /\ q.count = r.count - k
          /\ \A i \in 0..(q.count - 1) : sample(q, i) = sample(r, k + i)
          /\ \A i \in 0..(r.count - 1) :
                sample(r, i).ledger + MAX_TWAP_WINDOW >= now <=> i >= k
  BY PruneRing
<1>3. p = push(q, s)
  OBVIOUS
<1> HIDE DEF q
<1>4. Pushed(q, s, p)
  BY <1>1, <1>3, PushWithRoom, PushWhenFull
<1>5. /\ MAX_OBSERVATIONS \in Nat \ {0}
      /\ r.count \in 0..MAX_OBSERVATIONS /\ q.count \in 0..MAX_OBSERVATIONS
  BY <1>1, RingFields
<1>6. p.count = IF q.count < MAX_OBSERVATIONS THEN q.count + 1 ELSE MAX_OBSERVATIONS
  BY <1>4 DEF Pushed
<1> DEFINE d == IF r.count - k < MAX_OBSERVATIONS THEN k ELSE k + 1
<1>7. d \in 0..r.count /\ p.count = r.count - d + 1 /\ d = k + (q.count + 1 - p.count)
  BY <1>2, <1>5, <1>6
<1>8. d = IF r.count - k < MAX_OBSERVATIONS THEN k ELSE k + 1
  OBVIOUS
<1> HIDE DEF d
<1>9. ASSUME NEW i \in 0..(p.count - 2) PROVE sample(p, i) = sample(r, i + d)
  <2> DEFINE j == i + (q.count + 1 - p.count)
  <2>0. q.count = r.count - k /\ i \in 0..(p.count - 2) /\ p.count \in Nat
    BY <1>2, <1>5, <1>6
  <2>1. j \in 0..(q.count - 1) /\ k + j = i + d
    <3> DEFINE a == q.count
               e == p.count
    <3>1. /\ a \in Nat /\ e \in Nat /\ k \in Nat /\ e <= a + 1
          /\ i \in 0..(e - 2) /\ d = k + (a + 1 - e)
      BY <1>5, <1>6, <1>7, <2>0
    <3> HIDE DEF a, e
    <3>2. /\ i + (a + 1 - e) \in 0..(a - 1)
          /\ k + (i + (a + 1 - e)) = i + d
      BY <3>1
    <3> QED
      BY <3>2 DEF a, e
  <2>2. sample(p, i) = sample(q, j)
    BY <1>4 DEF Pushed
  <2> HIDE DEF j
  <2>3. sample(q, j) = sample(r, k + j)
    BY <1>2, <2>1
  <2> QED
    BY <2>1, <2>2, <2>3
<1>10. RingOK(p) /\ sample(p, p.count - 1) = s
  BY <1>4 DEF Pushed
<1> QED
  BY <1>2, <1>7, <1>8, <1>9, <1>10

\* It leaves the samples in order.
LEMMA UpdateOrdered ==
    ASSUME NEW r, RingOK(r), NEW now \in Nat, Ordered(r, now), NEW s \in Sample, s.ledger = now,
           NEW p, p = push(prune_expired(r, now), s)
    PROVE  Ordered(p, now)
<1>1. PICK k \in 0..r.count, d \in 0..r.count :
          /\ p.count = r.count - d + 1
          /\ sample(p, p.count - 1) = s
          /\ \A i \in 0..(p.count - 2) : sample(p, i) = sample(r, i + d)
  BY UpdateRing
<1>2. r.count \in Nat
  BY RingFields
<1>3. SUFFICES ASSUME NEW i \in 0..(p.count - 1)
               PROVE  /\ sample(p, i).ledger <= now
                      /\ \A j \in i..(p.count - 1) : sample(p, i).ledger <= sample(p, j).ledger
  BY DEF Ordered
<1>4. CASE i = p.count - 1
  <2>1. sample(p, i).ledger = now
    BY <1>1, <1>4
  <2>2. \A j \in i..(p.count - 1) : j = i
    BY <1>1, <1>2, <1>4
  <2> QED
    BY <2>1, <2>2
<1>5. CASE i # p.count - 1
  <2>1. i \in 0..(p.count - 2) /\ i + d \in 0..(r.count - 1)
    BY <1>1, <1>2, <1>5
  <2>2. sample(p, i) = sample(r, i + d)
    BY <1>1, <2>1
  <2>3. /\ sample(r, i + d).ledger <= now
        /\ \A j \in (i + d)..(r.count - 1) : sample(r, i + d).ledger <= sample(r, j).ledger
    BY <2>1 DEF Ordered
  <2>4. ASSUME NEW j \in i..(p.count - 1) PROVE sample(p, i).ledger <= sample(p, j).ledger
    <3>1. CASE j = p.count - 1
      BY <1>1, <2>2, <2>3, <3>1
    <3>2. CASE j # p.count - 1
      <4>1. j \in 0..(p.count - 2) /\ j + d \in (i + d)..(r.count - 1)
        BY <1>1, <1>2, <2>1, <3>2
      <4>2. sample(p, j) = sample(r, j + d)
        BY <1>1, <4>1
      <4> QED
        BY <2>2, <2>3, <4>1, <4>2
    <3> QED
      BY <3>1, <3>2
  <2> QED
    BY <2>2, <2>3, <2>4
<1> QED
  BY <1>4, <1>5

\* On the queue, an update is a Record: the expired observations go, the new one
\* comes last, and beyond the capacity the oldest goes too.
LEMMA UpdateIsRecord ==
    ASSUME NEW r, RingOK(r), NEW now \in Nat, Ordered(r, now), NEW s \in Sample,
           NEW p, p = push(prune_expired(r, now), s)
    PROVE  /\ Live(p) # <<>> /\ Live(p)[Len(Live(p))] = s
           /\ \E k \in 0..Len(Live(r)) :
                 /\ \A i \in 1..Len(Live(r)) :
                       Live(r)[i].ledger + MAX_TWAP_WINDOW >= now <=> i > k
                 /\ Live(p) = Queue!Kept(Append(SubSeq(Live(r), k + 1, Len(Live(r))), s))
<1> DEFINE m == MAX_OBSERVATIONS
           c == r.count
           e == p.count
           q == Live(r)
           u == Live(p)
<1>1. PICK k \in 0..c, d \in 0..c :
          /\ d = IF c - k < m THEN k ELSE k + 1
          /\ e = c - d + 1
          /\ sample(p, e - 1) = s
          /\ \A i \in 0..(e - 2) : sample(p, i) = sample(r, i + d)
          /\ \A i \in 0..(c - 1) : sample(r, i).ledger + MAX_TWAP_WINDOW >= now <=> i >= k
  BY UpdateRing
<1>2. RingOK(p) /\ m \in Nat \ {0} /\ c \in 0..m
  BY UpdateRing, RingFields
<1>3. /\ q \in Seq(Sample) /\ Len(q) = c /\ c \in Nat
      /\ \A i \in 1..c : q[i] = sample(r, i - 1) /\ i - 1 \in 0..(c - 1)
  BY LiveIsSeq
<1>4. /\ u \in Seq(Sample) /\ Len(u) = e /\ e \in Nat
      /\ \A i \in 1..e : u[i] = sample(p, i - 1) /\ i - 1 \in 0..(e - 1)
  BY <1>2, LiveIsSeq
<1> HIDE DEF m, c, e, q, u
<1>5. e \in 1..(c + 1) /\ u # <<>> /\ u[Len(u)] = s
  <2>1. e \in 1..(c + 1)
    BY <1>1, <1>3
  <2>2. u # <<>>
    BY <1>4, <2>1
  <2> QED
    BY <1>1, <1>4, <2>1, <2>2
<1>6. \A i \in 1..(e - 1) : u[i] = q[i + d]
  <2> SUFFICES ASSUME NEW i \in 1..(e - 1) PROVE u[i] = q[i + d]
    OBVIOUS
  <2>1. i \in 1..e /\ i - 1 \in 0..(e - 2) /\ i + d \in 1..c /\ (i - 1) + d = (i + d) - 1
    BY <1>1, <1>3, <1>5
  <2>2. u[i] = sample(p, i - 1) /\ q[i + d] = sample(r, (i + d) - 1)
    BY <1>3, <1>4, <2>1
  <2> QED
    BY <1>1, <2>1, <2>2
<1>7. \A i \in 1..c : q[i].ledger + MAX_TWAP_WINDOW >= now <=> i > k
  <2> SUFFICES ASSUME NEW i \in 1..c PROVE q[i].ledger + MAX_TWAP_WINDOW >= now <=> i > k
    OBVIOUS
  <2>1. q[i] = sample(r, i - 1) /\ i - 1 \in 0..(c - 1)
    BY <1>3
  <2>2. sample(r, i - 1).ledger + MAX_TWAP_WINDOW >= now <=> i - 1 >= k
    BY <1>1, <2>1
  <2>3. i - 1 >= k <=> i > k
    BY <1>1, <1>3
  <2> QED
    BY <2>1, <2>2, <2>3
<1> DEFINE fresh == SubSeq(q, k + 1, c)
           w == Append(fresh, s)
<1>8. /\ fresh \in Seq(Sample) /\ Len(fresh) = c - k
      /\ \A i \in 1..(c - k) : fresh[i] = q[i + k]
  <2>1. \A i \in (k + 1)..c : q[i] \in Sample
    BY <1>1, <1>3, LenProperties
  <2>2. k + 1 \in Int /\ c \in Int /\ c - (k + 1) + 1 = c - k /\ (k + 1 > c => c - k = 0)
    BY <1>1, <1>3
  <2>3. /\ fresh \in Seq(Sample)
        /\ Len(fresh) = IF k + 1 <= c THEN c - (k + 1) + 1 ELSE 0
        /\ \A i \in 1..(c - (k + 1) + 1) : fresh[i] = q[(k + 1) + i - 1]
    BY <2>1, <2>2, SubSeqProperties
  <2> HIDE DEF fresh
  <2>4. \A i \in 1..(c - k) : (k + 1) + i - 1 = i + k
    BY <1>1, <1>3
  <2> QED
    BY <1>1, <1>3, <2>2, <2>3, <2>4
<1> HIDE DEF fresh
<1>9. /\ w \in Seq(Sample) /\ Len(w) = c - k + 1
      /\ \A i \in 1..(c - k) : w[i] = q[i + k]
      /\ w[c - k + 1] = s
  BY <1>8, AppendProperties
<1> HIDE DEF w
<1>10. u = Queue!Kept(w)
  <2>1. Queue!Kept(w) = IF Len(w) <= m THEN w ELSE SubSeq(w, Len(w) - m + 1, Len(w))
    BY DEF Queue!Kept, m
  <2>2. CASE c - k < m
    <3>1. d = k /\ Len(u) = Len(w) /\ Len(w) <= m /\ e - 1 = c - k
      BY <1>1, <1>2, <1>3, <1>4, <1>9, <2>2
    <3>2. ASSUME NEW i \in 1..Len(u) PROVE u[i] = w[i]
      <4>1. CASE i = e
        BY <1>1, <1>3, <1>4, <1>5, <1>9, <3>1, <4>1
      <4>2. CASE i # e
        <5>1. i \in 1..(e - 1)
          BY <1>4, <4>2
        <5> QED
          BY <1>6, <1>9, <3>1, <5>1
      <4> QED
        BY <4>1, <4>2
    <3>3. u = w
      BY <1>4, <1>9, <3>1, <3>2, SeqEqual
    <3> QED
      BY <2>1, <3>1, <3>3
  <2>3. CASE ~(c - k < m)
    <3>1. k = 0 /\ c = m /\ d = 1 /\ e = m
      BY <1>1, <1>2, <1>3, <2>3
    <3> DEFINE v == SubSeq(w, 2, m + 1)
    <3>2. Len(w) = m + 1 /\ ~(Len(w) <= m) /\ Len(w) - m + 1 = 2
      BY <1>2, <1>9, <3>1
    <3>3. Queue!Kept(w) = v
      BY <2>1, <3>2
    <3>4. v \in Seq(Sample) /\ Len(v) = m /\ \A i \in 1..m : v[i] = w[i + 1]
      <4>1. \A i \in 2..(m + 1) : w[i] \in Sample
        BY <1>2, <1>9, <3>2, LenProperties
      <4>2. /\ v \in Seq(Sample)
            /\ Len(v) = IF 2 <= m + 1 THEN (m + 1) - 2 + 1 ELSE 0
            /\ \A i \in 1..((m + 1) - 2 + 1) : v[i] = w[2 + i - 1]
        BY <1>2, <4>1, SubSeqProperties
      <4> HIDE DEF v
      <4>3. \A i \in 1..m : 2 + i - 1 = i + 1
        BY <1>2
      <4> QED
        BY <1>2, <4>2, <4>3
    <3> HIDE DEF v
    <3>5. ASSUME NEW i \in 1..Len(u) PROVE u[i] = v[i]
      <4>1. i \in 1..m
        BY <1>4, <3>1
      <4>2. CASE i = m
        <5>1. u[i] = s
          BY <1>4, <1>5, <3>1, <4>2
        <5>2. v[i] = w[m + 1] /\ m + 1 = c - k + 1
          BY <1>2, <3>1, <3>4, <4>1, <4>2
        <5> QED
          BY <1>9, <5>1, <5>2
      <4>3. CASE i # m
        <5>1. i \in 1..(e - 1) /\ i + 1 \in 1..(c - k) /\ i + 1 + k = i + d
          BY <1>2, <3>1, <4>1, <4>3
        <5>2. u[i] = q[i + d] /\ w[i + 1] = q[i + 1 + k]
          BY <1>6, <1>9, <5>1
        <5> QED
          BY <3>4, <4>1, <5>1, <5>2
      <4> QED
        BY <4>2, <4>3
    <3>6. Len(u) = Len(v)
      BY <1>4, <3>1, <3>4
    <3>7. u = v
      BY <1>4, <3>4, <3>5, <3>6, SeqEqual
    <3> QED
      BY <3>3, <3>7
  <2> QED
    BY <2>2, <2>3
<1>11. k \in 0..Len(q) /\ u = Queue!Kept(Append(SubSeq(q, k + 1, Len(q)), s))
  BY <1>1, <1>3, <1>10 DEF w, fresh
<1> QED
  BY <1>3, <1>5, <1>7, <1>11 DEF q, u

-----------------------------------------------------------------------------
(***************************************************************************)
(* The refinement.                                                          *)
(***************************************************************************)

\* The ring is well formed, its samples are in order, and none is of a ledger that
\* has not been reached.
OracleInv ==
    /\ RingOK(ring) /\ Ordered(ring, ledger)
    /\ cumulative \in [Token -> Int]
    /\ ledger \in Nat

\* The accumulators' arithmetic stays within the integers.
LEMMA WrapInt ==
    ASSUME NEW n \in Int
    PROVE  Wrap(n) \in Int
<1>1. 2 * HalfRange \in Nat \ {0}
  BY OracleAssumption
<1> QED
  BY <1>1, OracleAssumption DEF Wrap

\* The observation that an update with reserves on both sides makes.
Observed(reserves) ==
    [ledger |-> ledger,
     cumulative |-> [t \in Token |->
         Wrap(cumulative[t] + Wrap(Price(reserves)[t] * (ledger - last)))]]

\* It is a sample.
LEMMA ObservedSample ==
    ASSUME OracleInv, last \in Int, NEW reserves \in ReservePairs,
           \A t \in Token : reserves[t] # 0
    PROVE  Observed(reserves) \in Sample
<1>1. reserves \in [Token -> Nat]
  BY OracleAssumption DEF Token
<1>2. ASSUME NEW t \in Token
      PROVE  Wrap(cumulative[t] + Wrap(Price(reserves)[t] * (ledger - last))) \in Int
  <2>1. Other(t) \in Token /\ Price(reserves)[t] = reserves[Other(t)] \div reserves[t]
    BY DEF Token, Other, Price
  <2>2. Price(reserves)[t] \in Int
    BY <1>1, <2>1, DivFloor
  <2>3. ledger - last \in Int /\ cumulative[t] \in Int
    BY DEF OracleInv
  <2> DEFINE x == Price(reserves)[t]
             y == ledger - last
  <2> HIDE DEF x, y
  <2>4. x * y \in Int
    BY <2>2, <2>3 DEF x, y
  <2>5. Wrap(x * y) \in Int
    BY <2>4, WrapInt
  <2>6. Wrap(cumulative[t] + Wrap(x * y)) \in Int
    BY <2>3, <2>5, WrapInt
  <2> QED
    BY <2>6 DEF x, y
<1>3. [t \in Token |-> Wrap(cumulative[t] + Wrap(Price(reserves)[t] * (ledger - last)))]
        \in [Token -> Int]
  BY <1>2
<1> QED
  BY <1>3 DEF Observed, Sample, OracleInv

\* An oracle without observations.
LEMMA OracleInit == Init => OracleInv /\ last \in Int /\ Queue!Init
<1> SUFFICES ASSUME Init PROVE OracleInv /\ last \in Int /\ Queue!Init
  OBVIOUS
<1>1. /\ ring = [slots |-> <<>>, head |-> 0, count |-> 0] /\ ledger = 1 /\ last = 0
      /\ cumulative = [t \in Token |-> 0]
  BY DEF Init
<1>2. RingOK(ring)
  <2>1. <<>> \in Seq(Sample) /\ Len(<<>>) = 0
    BY EmptySeq
  <2>2. 0 \in 0..(MAX_OBSERVATIONS - 1) /\ 0 \in 0..MAX_OBSERVATIONS /\ MAX_OBSERVATIONS \in Nat
    BY OracleAssumption
  <2>3. ring.slots = <<>> /\ ring.head = 0 /\ ring.count = 0
    BY <1>1
  <2>4. ring \in [slots : Seq(Sample), head : 0..(MAX_OBSERVATIONS - 1),
                  count : 0..MAX_OBSERVATIONS]
    BY <1>1, <2>1, <2>2
  <2> QED
    BY <2>1, <2>2, <2>3, <2>4 DEF RingOK
<1>3. ring.count = 0
  BY <1>1
<1>4. Ordered(ring, ledger)
  BY <1>3 DEF Ordered
<1>5. LiveSamples = <<>>
  <2>1. Live(ring) \in Seq(Sample) /\ Len(Live(ring)) = 0
    BY <1>2, <1>3, LiveIsSeq
  <2>2. Live(ring) = <<>>
    BY <2>1, EmptySeq
  <2> QED
    BY <2>2 DEF Live, LiveSamples
<1> QED
  BY <1>1, <1>2, <1>4, <1>5 DEF OracleInv, Queue!Init

\* Every step of the oracle keeps the invariant and is a step of the queue: an
\* update with a price records, one without a price leaves the queue alone, and a
\* ledger closes for both.
LEMMA OracleStep ==
    ASSUME OracleInv, last \in Int, [Next]_vars
    PROVE  /\ OracleInv' /\ last' \in Int
           /\ [Queue!Next]_<<LiveSamples, ledger>>
<1>0. LiveSamples = Live(ring) /\ LiveSamples' = Live(ring')
  BY DEF LiveSamples, Live
<1>1. ASSUME UNCHANGED <<cumulative, ring, ledger>>, last' \in Int
      PROVE  /\ OracleInv' /\ last' \in Int
             /\ [Queue!Next]_<<LiveSamples, ledger>>
  <2>1. OracleInv'
    BY <1>1 DEF OracleInv
  <2>2. UNCHANGED <<LiveSamples, ledger>>
    BY <1>0, <1>1
  <2> QED
    BY <1>1, <2>1, <2>2
<1>2. ASSUME NEW reserves \in ReservePairs, update_cumulative_prices(reserves)
      PROVE  /\ OracleInv' /\ last' \in Int
             /\ [Queue!Next]_<<LiveSamples, ledger>>
  <2>1. last' = ledger /\ ledger' = ledger /\ ledger \in Nat
    BY <1>2 DEF update_cumulative_prices, OracleInv
  <2>2. CASE ~\A t \in Token : reserves[t] # 0
    <3>1. UNCHANGED <<cumulative, ring, ledger>> /\ last' \in Int
      BY <1>2, <2>1, <2>2 DEF update_cumulative_prices
    <3> QED
      BY <1>1, <3>1
  <2>3. CASE \A t \in Token : reserves[t] # 0
    <3> DEFINE s == Observed(reserves)
    <3>1. cumulative' = s.cumulative /\ ring' = push(prune_expired(ring, ledger), s)
      BY <1>2, <2>3 DEF update_cumulative_prices, Observed
    <3>2. s \in Sample /\ s.ledger = ledger
      BY <2>3, ObservedSample DEF Observed
    <3> HIDE DEF s
    <3>3. RingOK(ring) /\ Ordered(ring, ledger)
      BY DEF OracleInv
    <3>4. RingOK(ring')
      BY <2>1, <3>1, <3>2, <3>3, UpdateRing
    <3>5. Ordered(ring', ledger)
      BY <2>1, <3>1, <3>2, <3>3, UpdateOrdered
    <3>6. OracleInv'
      BY <2>1, <3>1, <3>2, <3>4, <3>5 DEF OracleInv, RingOK, Ordered, sample, Sample
    <3>7. /\ Live(ring') # <<>> /\ Live(ring')[Len(Live(ring'))] = s
          /\ \E k \in 0..Len(Live(ring)) :
                /\ \A i \in 1..Len(Live(ring)) :
                      Live(ring)[i].ledger + MAX_TWAP_WINDOW >= ledger <=> i > k
                /\ Live(ring') = Queue!Kept(Append(SubSeq(Live(ring), k + 1, Len(Live(ring))), s))
      BY <2>1, <3>1, <3>2, <3>3, UpdateIsRecord
    <3>8. Queue!Record
      BY <1>0, <2>1, <3>2, <3>7 DEF Queue!Record, Queue!Fresh
    <3> QED
      BY <2>1, <3>6, <3>8 DEF Queue!Next
  <2> QED
    BY <2>2, <2>3
<1>3. ASSUME CloseLedger
      PROVE  /\ OracleInv' /\ last' \in Int
             /\ [Queue!Next]_<<LiveSamples, ledger>>
  <2>1. UNCHANGED <<cumulative, ring, last>> /\ ledger' = ledger + 1 /\ ledger \in Nat
    BY <1>3 DEF CloseLedger, OracleInv
  <2>2. Ordered(ring, ledger')
    <3>1. \A i \in 0..(ring.count - 1) : sample(ring, i).ledger \in Nat
      BY LiveSlot DEF OracleInv, Sample
    <3> QED
      BY <2>1, <3>1 DEF OracleInv, Ordered
  <2>3. OracleInv'
    BY <2>1, <2>2 DEF OracleInv
  <2>4. Queue!CloseLedger
    BY <1>0, <2>1 DEF Queue!CloseLedger
  <2> QED
    BY <2>1, <2>3, <2>4 DEF Queue!Next
<1>4. CASE UNCHANGED vars
  BY <1>1, <1>4 DEF vars
<1> QED
  BY <1>2, <1>3, <1>4 DEF Next

\* Through turnovers of the ring, evictions and expiries in any order, for every
\* capacity and window, the live samples are the newest unexpired observations in
\* the order they were made.
THEOREM RingAlwaysQueue == Spec => RingIsQueue
<1> DEFINE I == OracleInv /\ last \in Int
<1>1. Init => I /\ Queue!Init
  BY OracleInit
<1>2. I /\ [Next]_vars => I' /\ [Queue!Next]_<<LiveSamples, ledger>>
  BY OracleStep
<1> HIDE DEF I
<1> QED
  BY <1>1, <1>2, PTL DEF Spec, RingIsQueue, Queue!Spec

-----------------------------------------------------------------------------
(***************************************************************************)
(* The average.  The accumulators wrap, so two of their values say by how   *)
(* much prices were accumulated between them only up to multiples of the    *)
(* range of an i128.                                                        *)
(***************************************************************************)

Cong(x, y) == \E q \in Int : x = y + q * (2 * HalfRange)

\* Wrapping keeps a number's class and brings it into the range.
LEMMA WrapRange ==
    ASSUME NEW n \in Int
    PROVE  Wrap(n) \in (-HalfRange)..(HalfRange - 1) /\ Cong(Wrap(n), n)
<1> DEFINE h == HalfRange
           m == 2 * h
           x == n + h
           q == x \div m
           r == x % m
<1>1. h \in Nat \ {0} /\ m \in Nat \ {0} /\ x \in Int
  BY OracleAssumption
<1> HIDE DEF m, x
<1>2. q \in Int /\ r \in 0..(m - 1) /\ x = m * q + r
  BY <1>1, SMT
<1> HIDE DEF q, r
<1>3. Wrap(n) = r - h
  BY DEF Wrap, r, m, x
<1>4. r - h \in (-h)..(h - 1)
  BY <1>1, <1>2 DEF m
<1>5. -q \in Int /\ r - h = n + (-q) * m
  <2>1. (-q) * m = - (m * q)
    BY <1>1, <1>2
  <2> DEFINE y == m * q
  <2>2. y \in Int
    BY <1>1, <1>2
  <2> HIDE DEF y
  <2>3. x = y + r /\ (-q) * m = -y
    BY <1>2, <2>1 DEF y
  <2>4. r = n + h - y
    BY <1>1, <1>2, <2>2, <2>3 DEF x
  <2> QED
    BY <1>1, <1>2, <2>2, <2>3, <2>4
<1> QED
  BY <1>3, <1>4, <1>5 DEF Cong, m

\* Two numbers of the range in the same class are equal.
LEMMA CongClose ==
    ASSUME NEW x \in (-HalfRange)..(HalfRange - 1), NEW y \in (-HalfRange)..(HalfRange - 1),
           Cong(x, y)
    PROVE  x = y
<1> DEFINE h == HalfRange
           m == 2 * h
<1>1. h \in Nat \ {0} /\ m \in Nat \ {0} /\ x \in (-h)..(h - 1) /\ y \in (-h)..(h - 1)
  BY OracleAssumption
<1>2. PICK q \in Int : x = y + q * m
  BY DEF Cong
<1>3. x - y < m /\ y - x < m
  BY <1>1
<1> HIDE DEF m
<1>4. ~(q >= 1)
  <2>1. SUFFICES ASSUME q >= 1 PROVE FALSE
    OBVIOUS
  <2>2. 1 * m <= q * m
    BY <1>1, <2>1, MulMono
  <2> QED
    BY <1>1, <1>2, <1>3, <2>2
<1>5. ~(q <= -1)
  <2>1. SUFFICES ASSUME q <= -1 PROVE FALSE
    OBVIOUS
  <2>2. q * m <= (-1) * m
    BY <1>1, <2>1, MulMono
  <2> QED
    BY <1>1, <1>2, <1>3, <2>2
<1>6. q = 0
  BY <1>4, <1>5
<1> QED
  BY <1>1, <1>2, <1>6

\* The classes of sums and differences.
LEMMA CongSum ==
    ASSUME NEW x \in Int, NEW y \in Int, NEW u \in Int, NEW v \in Int, Cong(x, y), Cong(u, v)
    PROVE  Cong(x + u, y + v) /\ Cong(x - u, y - v)
<1> DEFINE m == 2 * HalfRange
<1>1. m \in Int
  BY OracleAssumption
<1> HIDE DEF m
<1>2. PICK p \in Int : x = y + p * m
  BY DEF Cong, m
<1>3. PICK q \in Int : u = v + q * m
  BY DEF Cong, m
<1>4. (p + q) * m = p * m + q * m /\ (p - q) * m = p * m - q * m
  BY <1>1, SMT
<1>5. p * m \in Int /\ q * m \in Int
  BY <1>1
<1>6. x + u = y + v + (p + q) * m /\ x - u = y - v + (p - q) * m
  BY <1>2, <1>3, <1>4, <1>5
<1>7. p + q \in Int /\ p - q \in Int
  OBVIOUS
<1> QED
  BY <1>6, <1>7 DEF Cong, m

\* It is an equivalence.
LEMMA CongSame ==
    ASSUME NEW x \in Int
    PROVE  Cong(x, x)
<1>1. x = x + 0 * (2 * HalfRange)
  BY OracleAssumption
<1> QED
  BY <1>1 DEF Cong

\* A step of a chain.
LEMMA CongTrans ==
    ASSUME NEW x \in Int, NEW y \in Int, NEW z \in Int, Cong(x, y), Cong(y, z)
    PROVE  Cong(x, z)
<1>1. Cong(x + y, y + z)
  BY CongSum
<1>2. Cong(y, y)
  BY CongSame
<1>3. Cong((x + y) - y, (y + z) - y)
  <2>1. x + y \in Int /\ y + z \in Int
    OBVIOUS
  <2> QED
    BY <1>1, <1>2, <2>1, CongSum
<1>4. (x + y) - y = x /\ (y + z) - y = z
  OBVIOUS
<1> QED
  BY <1>3, <1>4

\* Wrapping a number gives the number of its class that is in the range.
LEMMA WrapIs ==
    ASSUME NEW x \in Int, NEW y \in (-HalfRange)..(HalfRange - 1), Cong(x, y)
    PROVE  Wrap(x) = y
<1>1. Wrap(x) \in (-HalfRange)..(HalfRange - 1) /\ Cong(Wrap(x), x)
  BY WrapRange
<1>2. Wrap(x) \in Int /\ y \in Int
  BY <1>1, OracleAssumption
<1>3. Cong(Wrap(x), y)
  BY <1>1, <1>2, CongTrans
<1> QED
  BY <1>1, <1>3, CongClose

(***************************************************************************)
(* Sums of prices.  f[k] is the sum of the first k values v[0], v[1], ...   *)
(***************************************************************************)

Running(f, v, n) ==
    f \in [0..n -> Nat] /\ f[0] = 0 /\ \A k \in 1..n : f[k] = f[k - 1] + v[k - 1]

\* Every list of values has such sums.
LEMMA RunningDefined ==
    ASSUME NEW n \in Nat, NEW v \in [0..(n - 1) -> Nat]
    PROVE  \E f : Running(f, v, n)
<1> DEFINE g == [k \in 1..n |-> [x \in Nat |-> x + v[k - 1]]]
           T == Nat
           z == 0
<1>1. \A k \in 1..n : k - 1 \in 0..(n - 1) /\ v[k - 1] \in Nat
  <2>1. \A k \in 1..n : k - 1 \in 0..(n - 1)
    OBVIOUS
  <2> QED
    BY <2>1
<1>2. z \in T /\ g \in [1..n -> [T -> T]]
  BY <1>1
<1> HIDE DEF g, T, z
<1>3. PICK f : IsLoop(f, T, z, n, g)
  BY <1>2, LoopDefined
<1>4. f \in [0..n -> Nat] /\ f[0] = 0 /\ \A k \in 1..n : f[k] = g[k][f[k - 1]]
  BY <1>3 DEF IsLoop, T, z
<1>5. ASSUME NEW k \in 1..n PROVE f[k] = f[k - 1] + v[k - 1]
  <2>1. k - 1 \in 0..n /\ f[k - 1] \in Nat
    <3>1. k - 1 \in 0..n
      OBVIOUS
    <3> QED
      BY <1>4, <3>1
  <2> QED
    BY <1>4, <2>1 DEF g
<1> QED
  BY <1>4, <1>5 DEF Running

Grown(f, v, x, y, p) ==
    /\ (\A k \in x..(y - 1) : v[k] <= p) => f[y] <= f[x] + p * (y - x)
    /\ (\A k \in x..(y - 1) : v[k] = p) => f[y] = f[x] + p * (y - x)
    /\ f[x] <= f[y]

\* What is added between two places, when the values are p, or at most p.
LEMMA Segment ==
    ASSUME NEW n \in Nat, NEW v \in [0..(n - 1) -> Nat], NEW f, Running(f, v, n),
           NEW x \in 0..n, NEW y \in x..n, NEW p \in Nat
    PROVE  Grown(f, v, x, y, p)
<1> DEFINE d == y - x
           Below == \A k \in x..(y - 1) : v[k] <= p
           Equal == \A k \in x..(y - 1) : v[k] = p
           P == {i \in 0..d : /\ Below => f[x + i] <= f[x] + p * i
                              /\ Equal => f[x + i] = f[x] + p * i
                              /\ f[x] <= f[x + i]}
<1>1. d \in Nat /\ x + d = y /\ f[x] \in Nat
  BY DEF Running
<1>2. 0 \in P
  <2>1. x + 0 = x /\ p * 0 = 0 /\ 0 \in 0..d
    BY <1>1
  <2> QED
    BY <1>1, <2>1
<1>3. ASSUME NEW i \in 1..d, i - 1 \in P PROVE i \in P
  <2>1. /\ x + i \in 1..n /\ x + i - 1 \in 0..(n - 1) /\ x + i - 1 \in x..(y - 1)
        /\ x + (i - 1) = x + i - 1 /\ x + i - 1 \in 0..n /\ i \in 0..d
    BY <1>1
  <2> DEFINE a == f[x + i - 1]
             b == v[x + i - 1]
             e == p * (i - 1)
  <2>2. f[x + i] = a + b /\ a \in Nat /\ b \in Nat
    BY <2>1 DEF Running
  <2>3. /\ Below => a <= f[x] + e
        /\ Equal => a = f[x] + e
        /\ f[x] <= a
    BY <1>3, <2>1
  <2>4. (Below => b <= p) /\ (Equal => b = p)
    BY <2>1
  <2>5. e \in Nat /\ p * i = e + p
    <3>1. i - 1 \in Nat /\ i \in Nat
      BY <1>1
    <3> QED
      BY <3>1, MulNat
  <2> HIDE DEF a, b, e, Below, Equal
  <2>6. /\ Below => a + b <= f[x] + p * i
        /\ Equal => a + b = f[x] + p * i
        /\ f[x] <= a + b
    <3> DEFINE c == f[x]
               z == p * i
    <3>1. c \in Nat /\ z = e + p
      BY <1>1, <2>5
    <3> HIDE DEF c, z
    <3>2. ASSUME b <= p, a <= c + e PROVE a + b <= c + z
      BY <2>2, <2>5, <3>1, <3>2
    <3>3. ASSUME b = p, a = c + e PROVE a + b = c + z
      BY <2>2, <2>5, <3>1, <3>3
    <3>4. ASSUME c <= a PROVE c <= a + b
      BY <2>2, <3>1, <3>4
    <3> QED
      BY <2>3, <2>4, <3>2, <3>3, <3>4 DEF c, z
  <2> QED
    BY <2>1, <2>2, <2>6
<1> HIDE DEF P
<1>4. \A i \in 0..d : i \in P
  <2> HIDE DEF d
  <2> QED
    BY <1>1, <1>2, <1>3, UpTo
<1>5. d \in P
  <2>1. d \in 0..d
    BY <1>1
  <2> QED
    BY <1>4, <2>1
<1> QED
  BY <1>1, <1>5 DEF P, d, Grown

(***************************************************************************)
(* The ring and the history of prices.  Between two samples a and b the     *)
(* price was not known up to some ledger m, and was p after it: what the    *)
(* later sample has accumulated is p for every ledger after m.              *)
(***************************************************************************)

Prices == {Price(reserves) : reserves \in {r \in ReservePairs : \A t \in Token : r[t] # 0}}

Between(a, b, m, p, now, rec) ==
    /\ a.ledger <= m /\ m < b.ledger
    /\ \A t \in Token : Cong(b.cumulative[t], a.cumulative[t] + p[t] * (b.ledger - m))
    /\ \A l \in (a.ledger + 1)..b.ledger :
          now - l < MAX_TWAP_WINDOW => rec[now - l] = IF l > m THEN p ELSE NoPrice

Spaced(a, b, now, rec) == \E m \in Nat, p \in Prices : Between(a, b, m, p, now, rec)

\* No price is known of the ledgers after from.
Silent(from, now, rec) ==
    \A l \in (from + 1)..now : now - l < MAX_TWAP_WINDOW => rec[now - l] = NoPrice

TwapOK(r, now, at, cum, rec) ==
    /\ at \in 0..now
    /\ rec \in [0..(MAX_TWAP_WINDOW - 1) -> Prices \cup {NoPrice}]
    /\ \A i \in 0..(r.count - 1) :
          /\ sample(r, i).ledger \in 1..now
          /\ sample(r, r.count - 1).ledger - sample(r, i).ledger <= MAX_TWAP_WINDOW
    /\ \A i \in 1..(r.count - 1) : Spaced(sample(r, i - 1), sample(r, i), now, rec)
    /\ r.count > 0 => /\ sample(r, r.count - 1).cumulative = cum
                      /\ sample(r, r.count - 1).ledger <= at
                      /\ Silent(sample(r, r.count - 1).ledger, now, rec)

\* Two histories say the same of the ledgers up to c.
Agree(now, rec, then, before, c) ==
    \A l \in 0..c : now - l < MAX_TWAP_WINDOW =>
                        then - l < MAX_TWAP_WINDOW /\ rec[now - l] = before[then - l]

\* A pair of samples of those ledgers is spaced in both.
LEMMA SpacedKept ==
    ASSUME NEW a \in Sample, NEW b \in Sample, NEW now, NEW rec, NEW then, NEW before,
           NEW c \in Nat, Agree(now, rec, then, before, c), b.ledger <= c,
           Spaced(a, b, then, before)
    PROVE  Spaced(a, b, now, rec)
<1>1. PICK m \in Nat, p \in Prices : Between(a, b, m, p, then, before)
  BY DEF Spaced
<1>2. ASSUME NEW l \in (a.ledger + 1)..b.ledger, now - l < MAX_TWAP_WINDOW
      PROVE  rec[now - l] = IF l > m THEN p ELSE NoPrice
  <2>1. l \in 0..c
    BY DEF Sample
  <2>2. then - l < MAX_TWAP_WINDOW /\ rec[now - l] = before[then - l]
    BY <1>2, <2>1 DEF Agree
  <2> QED
    BY <1>1, <2>2 DEF Between
<1>3. Between(a, b, m, p, now, rec)
  BY <1>1, <1>2 DEF Between
<1> QED
  BY <1>3 DEF Spaced

\* So are all pairs of a ring whose samples are of those ledgers.
LEMMA AllSpacedKept ==
    ASSUME NEW r, RingOK(r), NEW now, NEW rec, NEW then, NEW before,
           NEW c \in Nat, Agree(now, rec, then, before, c),
           \A i \in 0..(r.count - 1) : sample(r, i).ledger <= c,
           \A i \in 1..(r.count - 1) : Spaced(sample(r, i - 1), sample(r, i), then, before)
    PROVE  \A i \in 1..(r.count - 1) : Spaced(sample(r, i - 1), sample(r, i), now, rec)
<1> SUFFICES ASSUME NEW i \in 1..(r.count - 1)
             PROVE  Spaced(sample(r, i - 1), sample(r, i), now, rec)
  OBVIOUS
<1>1. r.count \in Nat
  BY RingFields
<1>2. i \in 0..(r.count - 1) /\ i - 1 \in 0..(r.count - 1)
  BY <1>1
<1>3. sample(r, i) \in Sample /\ sample(r, i - 1) \in Sample
  BY <1>2, LiveSlot
<1>4. sample(r, i).ledger <= c /\ Spaced(sample(r, i - 1), sample(r, i), then, before)
  BY <1>2
<1> QED
  BY <1>3, <1>4, SpacedKept

\* The newest sample is of the latest ledger.
LEMMA SamplesRise ==
    ASSUME NEW r, RingOK(r), NEW now \in Nat, Ordered(r, now)
    PROVE  \A i \in 0..(r.count - 1) : /\ r.count - 1 \in 0..(r.count - 1)
                                       /\ sample(r, i).ledger \in Nat
                                       /\ sample(r, i).ledger <= sample(r, r.count - 1).ledger
<1> SUFFICES ASSUME NEW i \in 0..(r.count - 1)
             PROVE  /\ r.count - 1 \in 0..(r.count - 1) /\ sample(r, i).ledger \in Nat
                    /\ sample(r, i).ledger <= sample(r, r.count - 1).ledger
  OBVIOUS
<1>1. r.count \in Nat
  BY RingFields
<1>2. r.count - 1 \in i..(r.count - 1) /\ r.count - 1 \in 0..(r.count - 1)
  BY <1>1
<1>3. sample(r, i) \in Sample
  BY LiveSlot
<1> QED
  BY <1>2, <1>3 DEF Ordered, Sample

\* A ledger closes: nothing is known of the new one.
LEMMA CloseTwap ==
    ASSUME NEW r, RingOK(r), NEW now \in Nat, Ordered(r, now), NEW at, NEW cum, NEW before,
           TwapOK(r, now, at, cum, before),
           NEW rec, rec = [k \in DOMAIN before |-> IF k = 0 THEN NoPrice ELSE before[k - 1]]
    PROVE  TwapOK(r, now + 1, at, cum, rec)
<1> DEFINE W == MAX_TWAP_WINDOW
<1>1. W \in Nat \ {0} /\ before \in [0..(W - 1) -> Prices \cup {NoPrice}] /\ at \in 0..now
  BY OracleAssumption DEF TwapOK
<1> HIDE DEF W
<1>2. rec \in [0..(W - 1) -> Prices \cup {NoPrice}]
  <2>1. DOMAIN before = 0..(W - 1)
    BY <1>1
  <2>2. ASSUME NEW k \in 0..(W - 1), k # 0 PROVE before[k - 1] \in Prices \cup {NoPrice}
    <3>1. k - 1 \in 0..(W - 1)
      BY <1>1, <2>2
    <3> QED
      BY <1>1, <3>1
  <2> QED
    BY <2>1, <2>2
<1>3. ASSUME NEW l \in 0..now, (now + 1) - l < W
      PROVE  now - l < W /\ rec[(now + 1) - l] = before[now - l]
  <2>1. (now + 1) - l \in 0..(W - 1) /\ (now + 1) - l # 0 /\ ((now + 1) - l) - 1 = now - l
    BY <1>1, <1>3
  <2>2. now - l < W
    BY <1>1, <1>3
  <2> QED
    BY <1>1, <2>1, <2>2
<1>4. Agree(now + 1, rec, now, before, now)
  BY <1>3 DEF Agree, W
<1>5. \A i \in 0..(r.count - 1) : sample(r, i).ledger <= now /\ sample(r, i).ledger \in 1..now
  BY DEF TwapOK
<1>6. \A i \in 1..(r.count - 1) : Spaced(sample(r, i - 1), sample(r, i), now + 1, rec)
  BY <1>4, <1>5, AllSpacedKept DEF TwapOK
<1>7. ASSUME r.count > 0 PROVE Silent(sample(r, r.count - 1).ledger, now + 1, rec)
  <2> DEFINE n == sample(r, r.count - 1).ledger
  <2>1. n \in 1..now /\ Silent(n, now, before)
    <3>1. r.count - 1 \in 0..(r.count - 1)
      BY <1>7, RingFields
    <3> QED
      BY <1>5, <1>7, <3>1 DEF TwapOK
  <2> HIDE DEF n
  <2>2. SUFFICES ASSUME NEW l \in (n + 1)..(now + 1), (now + 1) - l < W
                 PROVE  rec[(now + 1) - l] = NoPrice
    BY DEF Silent, n, W
  <2>3. CASE l = now + 1
    <3>1. (now + 1) - l = 0 /\ 0 \in 0..(W - 1)
      BY <1>1, <2>3
    <3> QED
      BY <1>1, <3>1
  <2>4. CASE l # now + 1
    <3>1. l \in 0..now /\ l \in (n + 1)..now
      BY <2>1, <2>4
    <3>2. now - l < W /\ rec[(now + 1) - l] = before[now - l]
      BY <1>3, <2>2, <3>1
    <3> QED
      BY <2>1, <3>1, <3>2 DEF Silent, W
  <2> QED
    BY <2>3, <2>4
<1>8. /\ at \in 0..(now + 1)
      /\ \A i \in 0..(r.count - 1) : sample(r, i).ledger \in 1..(now + 1)
  BY <1>1, <1>5
<1> QED
  BY <1>2, <1>6, <1>7, <1>8 DEF TwapOK, W

\* A history that differs from an earlier one in that the price since ledger at is p.
PricedSince(now, rec, before, at, p) ==
    /\ rec \in [0..(MAX_TWAP_WINDOW - 1) -> Prices \cup {NoPrice}]
    /\ Agree(now, rec, now, before, at)
    /\ \A l \in (at + 1)..now : now - l < MAX_TWAP_WINDOW => rec[now - l] = p

\* The history after an update at ledger now: p since the last one, at ledger at.
LEMMA HistoryAfter ==
    ASSUME NEW now \in Nat, NEW at \in 0..now, NEW p \in Prices \cup {NoPrice},
           NEW before \in [0..(MAX_TWAP_WINDOW - 1) -> Prices \cup {NoPrice}],
           NEW rec, rec = [k \in DOMAIN before |-> IF k >= now - at THEN before[k] ELSE p]
    PROVE  PricedSince(now, rec, before, at, p)
<1> DEFINE W == MAX_TWAP_WINDOW
<1>1. W \in Nat \ {0} /\ DOMAIN before = 0..(W - 1)
  BY OracleAssumption
<1>2. rec \in [0..(W - 1) -> Prices \cup {NoPrice}]
  BY <1>1
<1>3. ASSUME NEW l \in 0..at, now - l < W PROVE rec[now - l] = before[now - l]
  <2>1. now - l \in 0..(W - 1) /\ now - l >= now - at
    BY <1>1, <1>3
  <2> QED
    BY <1>1, <2>1
<1>4. ASSUME NEW l \in (at + 1)..now, now - l < W PROVE rec[now - l] = p
  <2>1. now - l \in 0..(W - 1) /\ ~(now - l >= now - at)
    BY <1>1, <1>4
  <2> QED
    BY <1>1, <2>1
<1> QED
  BY <1>2, <1>3, <1>4 DEF Agree, PricedSince

\* An update without a price: nothing is known of the ledgers since the last one.
LEMMA QuietTwap ==
    ASSUME NEW r, RingOK(r), NEW now \in Nat, Ordered(r, now), NEW at, NEW cum, NEW before,
           TwapOK(r, now, at, cum, before),
           NEW rec, rec = [k \in DOMAIN before |-> IF k >= now - at THEN before[k] ELSE NoPrice]
    PROVE  TwapOK(r, now, now, cum, rec)
<1> DEFINE W == MAX_TWAP_WINDOW
<1>1. before \in [0..(W - 1) -> Prices \cup {NoPrice}] /\ at \in 0..now
  BY DEF TwapOK
<1>2. /\ rec \in [0..(W - 1) -> Prices \cup {NoPrice}]
      /\ Agree(now, rec, now, before, at)
      /\ \A l \in (at + 1)..now : now - l < W => rec[now - l] = NoPrice
  <2>1. NoPrice \in Prices \cup {NoPrice}
    OBVIOUS
  <2>2. PricedSince(now, rec, before, at, NoPrice)
    BY <1>1, <2>1, HistoryAfter
  <2> QED
    BY <2>2 DEF PricedSince
<1>3. \A i \in 0..(r.count - 1) : sample(r, i).ledger <= at
  <2> SUFFICES ASSUME NEW i \in 0..(r.count - 1) PROVE sample(r, i).ledger <= at
    OBVIOUS
  <2>1. /\ r.count - 1 \in 0..(r.count - 1) /\ r.count \in Nat
        /\ sample(r, i).ledger \in Nat
        /\ sample(r, i).ledger <= sample(r, r.count - 1).ledger
    BY SamplesRise, RingFields
  <2>2. sample(r, r.count - 1).ledger \in Nat
    BY <2>1, SamplesRise
  <2>3. r.count > 0
    BY <2>1
  <2>4. sample(r, r.count - 1).ledger <= at
    BY <2>3 DEF TwapOK
  <2> QED
    BY <1>1, <2>1, <2>2, <2>4
<1>4. \A i \in 1..(r.count - 1) : Spaced(sample(r, i - 1), sample(r, i), now, rec)
  BY <1>1, <1>2, <1>3, AllSpacedKept DEF TwapOK
<1>5. ASSUME r.count > 0
      PROVE  /\ Silent(sample(r, r.count - 1).ledger, now, rec)
             /\ sample(r, r.count - 1).ledger <= now
  <2> DEFINE n == sample(r, r.count - 1).ledger
  <2>1. n \in Nat /\ n <= at /\ Silent(n, now, before)
    <3>1. r.count - 1 \in 0..(r.count - 1)
      BY <1>5, RingFields
    <3> QED
      BY <1>5, <3>1, SamplesRise DEF TwapOK
  <2> HIDE DEF n
  <2>2. ASSUME NEW l \in (n + 1)..now, now - l < W PROVE rec[now - l] = NoPrice
    <3>1. CASE l > at
      BY <1>1, <1>2, <2>1, <2>2, <3>1
    <3>2. CASE ~(l > at)
      <4>1. l \in 0..at
        BY <1>1, <2>1, <3>2
      <4>2. rec[now - l] = before[now - l]
        BY <1>2, <2>2, <4>1 DEF Agree
      <4> QED
        BY <2>1, <2>2, <4>2 DEF Silent
    <3> QED
      BY <3>1, <3>2
  <2>3. Silent(n, now, rec)
    BY <2>2 DEF Silent
  <2>4. n <= now
    BY <1>1, <2>1
  <2> QED
    BY <2>3, <2>4 DEF n
<1>6. now \in 0..now
  OBVIOUS
<1> QED
  BY <1>2, <1>4, <1>5, <1>6 DEF TwapOK

\* An update with a price: the new sample follows the newest of those that are kept.
LEMMA PricedTwap ==
    ASSUME NEW r, RingOK(r), NEW now \in Nat, Ordered(r, now), NEW at, NEW cum, NEW before,
           TwapOK(r, now, at, cum, before), at < now, NEW price \in Prices,
           NEW rec, rec = [k \in DOMAIN before |-> IF k >= now - at THEN before[k] ELSE price],
           NEW s \in Sample, s.ledger = now,
           \A t \in Token : Cong(s.cumulative[t], cum[t] + price[t] * (now - at)),
           NEW p, p = push(prune_expired(r, now), s)
    PROVE  TwapOK(p, now, now, s.cumulative, rec)
<1> DEFINE W == MAX_TWAP_WINDOW
<1>1. before \in [0..(W - 1) -> Prices \cup {NoPrice}] /\ at \in 0..now /\ W \in Nat
  BY OracleAssumption DEF TwapOK
<1>2. /\ rec \in [0..(W - 1) -> Prices \cup {NoPrice}]
      /\ Agree(now, rec, now, before, at)
      /\ \A l \in (at + 1)..now : now - l < W => rec[now - l] = price
  <2>1. price \in Prices \cup {NoPrice}
    OBVIOUS
  <2>2. PricedSince(now, rec, before, at, price)
    BY <1>1, <2>1, HistoryAfter
  <2> QED
    BY <2>2 DEF PricedSince
<1>3. PICK k \in 0..r.count, d \in 0..r.count :
          /\ d = IF r.count - k < MAX_OBSERVATIONS THEN k ELSE k + 1
          /\ p.count = r.count - d + 1
          /\ sample(p, p.count - 1) = s
          /\ \A i \in 0..(p.count - 2) : sample(p, i) = sample(r, i + d)
          /\ \A i \in 0..(r.count - 1) : sample(r, i).ledger + W >= now <=> i >= k
  BY UpdateRing
<1>4. r.count \in Nat /\ p.count \in Nat /\ p.count >= 1 /\ d >= k
  BY <1>3, RingFields
<1>5. \A i \in 0..(r.count - 1) :
          /\ sample(r, i) \in Sample /\ sample(r, i).ledger \in 1..now
          /\ sample(r, i).ledger <= at
  <2> SUFFICES ASSUME NEW i \in 0..(r.count - 1)
               PROVE  /\ sample(r, i) \in Sample /\ sample(r, i).ledger \in 1..now
                      /\ sample(r, i).ledger <= at
    OBVIOUS
  <2>1. /\ r.count - 1 \in 0..(r.count - 1)
        /\ sample(r, i).ledger <= sample(r, r.count - 1).ledger
    BY SamplesRise
  <2>2. sample(r, i).ledger \in 1..now /\ sample(r, r.count - 1).ledger \in 1..now
    BY <2>1 DEF TwapOK
  <2>3. r.count > 0
    BY <1>4, <2>1
  <2>4. sample(r, r.count - 1).ledger <= at
    BY <2>3 DEF TwapOK
  <2>5. sample(r, i) \in Sample
    BY LiveSlot
  <2> QED
    BY <1>1, <2>1, <2>2, <2>4, <2>5
<1>6. ASSUME NEW i \in 0..(p.count - 1)
      PROVE  sample(p, i).ledger \in 1..now /\ now - sample(p, i).ledger <= W
  <2>1. CASE i = p.count - 1
    BY <1>1, <1>3, <2>1
  <2>2. CASE i # p.count - 1
    <3>1. i \in 0..(p.count - 2) /\ i + d \in 0..(r.count - 1) /\ i + d >= k
      BY <1>3, <1>4, <2>2
    <3>2. sample(p, i) = sample(r, i + d) /\ sample(r, i + d).ledger + W >= now
      BY <1>3, <3>1
    <3> QED
      BY <1>1, <1>5, <3>1, <3>2
  <2> QED
    BY <2>1, <2>2
<1>7. ASSUME NEW i \in 1..(p.count - 1)
      PROVE  Spaced(sample(p, i - 1), sample(p, i), now, rec)
  <2>1. i - 1 \in 0..(p.count - 2) /\ (i - 1) + d \in 0..(r.count - 1)
    BY <1>3, <1>4
  <2>2. sample(p, i - 1) = sample(r, (i - 1) + d)
    BY <1>3, <2>1
  <2>3. CASE i = p.count - 1
    <3> DEFINE a == sample(r, r.count - 1)
    <3>1. (i - 1) + d = r.count - 1 /\ r.count > 0 /\ r.count - 1 \in 0..(r.count - 1)
      BY <1>3, <1>4, <2>3
    <3>2. /\ a.cumulative = cum /\ a.ledger <= at /\ Silent(a.ledger, now, before)
          /\ a \in Sample /\ a.ledger \in 1..now
      BY <1>5, <3>1 DEF TwapOK
    <3>3. sample(p, i - 1) = a /\ sample(p, i) = s
      BY <1>3, <2>2, <2>3, <3>1
    <3> HIDE DEF a
    <3>4. ASSUME NEW l \in (a.ledger + 1)..now, now - l < W
          PROVE  rec[now - l] = IF l > at THEN price ELSE NoPrice
      <4>1. CASE l > at
        BY <1>1, <1>2, <3>2, <3>4, <4>1
      <4>2. CASE ~(l > at)
        <5>1. l \in 0..at
          BY <1>1, <3>2, <4>2
        <5>2. rec[now - l] = before[now - l]
          BY <1>2, <3>4, <5>1 DEF Agree
        <5> QED
          BY <3>2, <3>4, <4>2, <5>2 DEF Silent
      <4> QED
        BY <4>1, <4>2
    <3>5. Between(a, s, at, price, now, rec)
      BY <3>2, <3>4 DEF Between
    <3>6. at \in Nat
      BY <1>1
    <3>7. Spaced(a, s, now, rec)
      BY <3>5, <3>6 DEF Spaced
    <3> QED
      BY <3>3, <3>7
  <2>4. CASE i # p.count - 1
    <3>1. i \in 0..(p.count - 2) /\ i + d \in 1..(r.count - 1) /\ (i - 1) + d = (i + d) - 1
      BY <1>3, <1>4, <2>4
    <3>2. sample(p, i) = sample(r, i + d)
      BY <1>3, <3>1
    <3>3. Spaced(sample(r, (i + d) - 1), sample(r, i + d), now, before)
      BY <3>1 DEF TwapOK
    <3>4. i + d \in 0..(r.count - 1) /\ (i + d) - 1 \in 0..(r.count - 1)
      BY <1>4, <3>1
    <3>5. Spaced(sample(r, (i + d) - 1), sample(r, i + d), now, rec)
      BY <1>1, <1>2, <1>5, <3>3, <3>4, SpacedKept
    <3> QED
      BY <2>2, <3>1, <3>2, <3>5
  <2> QED
    BY <2>3, <2>4
<1>8. Silent(now, now, rec)
  BY DEF Silent
<1>9. now \in 0..now /\ now <= now
  OBVIOUS
<1> QED
  BY <1>2, <1>3, <1>6, <1>7, <1>8, <1>9 DEF TwapOK

TwapInv == OracleInv /\ TwapOK(ring, ledger, last, cumulative, recent)

\* What an observation has accumulated, up to wrapping.
LEMMA ObservedCong ==
    ASSUME OracleInv, last \in Int, NEW reserves \in ReservePairs,
           \A u \in Token : reserves[u] # 0, NEW t \in Token
    PROVE  Cong(Observed(reserves).cumulative[t],
                cumulative[t] + Price(reserves)[t] * (ledger - last))
<1> DEFINE c == cumulative[t]
           p == Price(reserves)[t]
           x == p * (ledger - last)
<1>1. Observed(reserves).cumulative[t] = Wrap(c + Wrap(x))
  BY DEF Observed
<1>2. c \in Int /\ ledger - last \in Int
  BY DEF OracleInv
<1>3. p \in Int
  <2>1. reserves \in [Token -> Nat]
    BY OracleAssumption DEF Token
  <2>2. Other(t) \in Token /\ p = reserves[Other(t)] \div reserves[t]
    BY DEF Token, Other, Price
  <2> QED
    BY <2>1, <2>2, DivFloor
<1> HIDE DEF p, c
<1>4. x \in Int
  BY <1>2, <1>3
<1> HIDE DEF x
<1>5. Wrap(x) \in Int /\ Cong(Wrap(x), x) /\ Cong(c, c)
  BY <1>2, <1>4, WrapRange, WrapInt, CongSame
<1>6. Cong(c + Wrap(x), c + x) /\ c + Wrap(x) \in Int /\ c + x \in Int
  <2>1. Cong(c + Wrap(x), c + x)
    BY <1>2, <1>4, <1>5, CongSum
  <2> QED
    BY <1>2, <1>4, <1>5, <2>1
<1>7. Wrap(c + Wrap(x)) \in Int /\ Cong(Wrap(c + Wrap(x)), c + Wrap(x))
  BY <1>6, WrapRange, WrapInt
<1>8. Cong(Wrap(c + Wrap(x)), c + x)
  BY <1>6, <1>7, CongTrans
<1> QED
  BY <1>1, <1>8 DEF c, p, x

\* Nothing is known at the start.
LEMMA TwapInit == Init => TwapInv
<1> SUFFICES ASSUME Init PROVE TwapInv
  OBVIOUS
<1>1. OracleInv
  BY OracleInit
<1>2. ring.count = 0 /\ ledger = 1 /\ last = 0
  BY DEF Init
<1>3. recent \in [0..(MAX_TWAP_WINDOW - 1) -> Prices \cup {NoPrice}]
  BY DEF Init
<1>4. TwapOK(ring, ledger, last, cumulative, recent)
  BY <1>2, <1>3 DEF TwapOK
<1> QED
  BY <1>1, <1>4 DEF TwapInv

\* Every step keeps the samples and the history in agreement.
LEMMA TwapStep ==
    ASSUME TwapInv, [Next]_vars
    PROVE  TwapInv'
<1>1. /\ OracleInv /\ RingOK(ring) /\ Ordered(ring, ledger) /\ ledger \in Nat
      /\ TwapOK(ring, ledger, last, cumulative, recent)
  BY DEF TwapInv, OracleInv
<1>2. last \in 0..ledger /\ last \in Int
  <2>1. last \in 0..ledger
    BY <1>1 DEF TwapOK
  <2> QED
    BY <1>1, <2>1
<1>3. OracleInv'
  BY <1>1, <1>2, OracleStep
<1>4. SUFFICES TwapOK(ring', ledger', last', cumulative', recent')
  BY <1>3 DEF TwapInv
<1>5. CASE UNCHANGED vars
  BY <1>1, <1>5 DEF vars
<1>6. CASE CloseLedger
  <2>1. /\ ledger' = ledger + 1 /\ UNCHANGED <<cumulative, ring, last>>
        /\ recent' = [k \in DOMAIN recent |-> IF k = 0 THEN NoPrice ELSE recent[k - 1]]
    BY <1>6 DEF CloseLedger
  <2>2. TwapOK(ring, ledger + 1, last, cumulative, recent')
    BY <1>1, <2>1, CloseTwap
  <2> QED
    BY <2>1, <2>2
<1>7. ASSUME NEW reserves \in ReservePairs, update_cumulative_prices(reserves)
      PROVE  TwapOK(ring', ledger', last', cumulative', recent')
  <2>1. ledger' = ledger /\ last' = ledger /\ last < ledger
    BY <1>1, <1>2, <1>7 DEF update_cumulative_prices
  <2>2. CASE ~\A t \in Token : reserves[t] # 0
    <3>1. /\ UNCHANGED <<cumulative, ring>>
          /\ recent' = [k \in DOMAIN recent |-> IF k >= ledger - last THEN recent[k] ELSE NoPrice]
      BY <1>7, <2>2 DEF update_cumulative_prices
    <3>2. TwapOK(ring, ledger, ledger, cumulative, recent')
      BY <1>1, <3>1, QuietTwap
    <3> QED
      BY <2>1, <3>1, <3>2
  <2>3. CASE \A t \in Token : reserves[t] # 0
    <3> DEFINE s == Observed(reserves)
               price == Price(reserves)
    <3>1. /\ cumulative' = s.cumulative /\ ring' = push(prune_expired(ring, ledger), s)
          /\ recent' = [k \in DOMAIN recent |-> IF k >= ledger - last THEN recent[k] ELSE price]
      BY <1>7, <2>3 DEF update_cumulative_prices, Observed
    <3>2. s \in Sample /\ s.ledger = ledger /\ price \in Prices
      BY <1>1, <1>2, <2>3, ObservedSample DEF Observed, Prices
    <3>3. \A t \in Token : Cong(s.cumulative[t], cumulative[t] + price[t] * (ledger - last))
      BY <1>1, <1>2, <2>3, ObservedCong
    <3> HIDE DEF s, price
    <3>4. TwapOK(ring', ledger, ledger, s.cumulative, recent')
      BY <1>1, <2>1, <3>1, <3>2, <3>3, PricedTwap
    <3> QED
      BY <2>1, <3>1, <3>4
  <2> QED
    BY <2>2, <2>3
<1> QED
  BY <1>5, <1>6, <1>7 DEF Next

-----------------------------------------------------------------------------
(***************************************************************************)
(* The average of a window.                                                 *)
(***************************************************************************)

\* What a price accumulates over the longest window does not fill half the range.
PricesFit == \A p \in Prices, t \in Token : p[t] * MAX_TWAP_WINDOW < HalfRange

\* The prices of t, zero where none is known.
Value(t) ==
    [k \in 0..(MAX_TWAP_WINDOW - 1) |-> IF recent[k] = NoPrice THEN 0 ELSE recent[k][t]]

\* The prices are numbers, and none of them is the absence of a price.
LEMMA PriceNat ==
    ASSUME NEW p \in Prices
    PROVE  p \in [Token -> Nat] /\ p # NoPrice
<1>1. PICK reserves \in ReservePairs :
          p = Price(reserves) /\ \A t \in Token : reserves[t] # 0
  BY DEF Prices
<1>2. reserves \in [Token -> Nat]
  BY OracleAssumption DEF Token
<1>3. ASSUME NEW t \in Token PROVE reserves[Other(t)] \div reserves[t] \in Nat
  <2>1. Other(t) \in Token
    BY DEF Other, Token
  <2> QED
    BY <1>1, <1>2, <2>1, DivFloor
<1>4. p \in [Token -> Nat]
  BY <1>1, <1>3 DEF Price
<1>5. DOMAIN p # DOMAIN NoPrice
  <2>1. DOMAIN p = Token /\ DOMAIN NoPrice = {} /\ "A" \in Token
    BY <1>4 DEF NoPrice, Token
  <2> QED
    BY <2>1
<1> QED
  BY <1>4, <1>5

\* So are the values of the history.
LEMMA ValueNat ==
    ASSUME TwapInv, NEW t \in Token
    PROVE  /\ MAX_TWAP_WINDOW \in Nat \ {0}
           /\ Value(t) \in [0..(MAX_TWAP_WINDOW - 1) -> Nat]
           /\ \A k \in 0..(MAX_TWAP_WINDOW - 1) :
                 /\ recent[k] = NoPrice => Value(t)[k] = 0
                 /\ recent[k] # NoPrice => recent[k] \in Prices /\ Value(t)[k] = recent[k][t]
<1>1. recent \in [0..(MAX_TWAP_WINDOW - 1) -> Prices \cup {NoPrice}]
  BY DEF TwapInv, TwapOK
<1>2. \A k \in 0..(MAX_TWAP_WINDOW - 1) : recent[k] # NoPrice => recent[k] \in Prices
  BY <1>1
<1>3. \A k \in 0..(MAX_TWAP_WINDOW - 1) : recent[k] # NoPrice => recent[k][t] \in Nat
  BY <1>2, PriceNat
<1> QED
  BY <1>2, <1>3, OracleAssumption DEF Value

\* Between two samples the sum grows by what the later one has accumulated.
LEMMA BetweenSum ==
    ASSUME TwapInv, NEW t \in Token, NEW f, Running(f, Value(t), MAX_TWAP_WINDOW),
           NEW a \in Sample, NEW b \in Sample, NEW m \in Nat, NEW p \in Prices,
           Between(a, b, m, p, ledger, recent),
           ledger - a.ledger <= MAX_TWAP_WINDOW, b.ledger <= ledger
    PROVE  /\ ledger - a.ledger \in 0..MAX_TWAP_WINDOW
           /\ ledger - b.ledger \in 0..MAX_TWAP_WINDOW
           /\ p[t] \in Nat
           /\ f[ledger - a.ledger] = f[ledger - b.ledger] + p[t] * (b.ledger - m)
           /\ \A z \in m..b.ledger : f[ledger - z] = f[ledger - b.ledger] + p[t] * (b.ledger - z)
<1> DEFINE W == MAX_TWAP_WINDOW
           n == ledger
           x == a.ledger
           y == b.ledger
           v == Value(t)
           q == p[t]
<1>1. n \in Nat /\ x \in Nat /\ y \in Nat /\ x <= m /\ m < y /\ y <= n /\ n - x <= W
  BY DEF TwapInv, OracleInv, Sample, Between
<1>2. /\ W \in Nat \ {0} /\ v \in [0..(W - 1) -> Nat] /\ q \in Nat /\ p # NoPrice
  BY ValueNat, PriceNat
<1>3. \A l \in (x + 1)..y : n - l < W => recent[n - l] = IF l > m THEN p ELSE NoPrice
  BY DEF Between
<1>4. \A k \in 0..(W - 1) : /\ recent[k] = NoPrice => v[k] = 0
                            /\ recent[k] # NoPrice => v[k] = recent[k][t]
  BY ValueNat
<1>5. Running(f, v, W) /\ W \in Nat
  BY <1>2
<1> HIDE DEF W, n, x, y, v
<1>6. ASSUME NEW z \in m..y PROVE f[n - z] = f[n - y] + q * (y - z)
  <2>1. n - y \in 0..W /\ n - z \in (n - y)..W /\ (n - z) - (n - y) = y - z
    BY <1>1, <1>2
  <2>2. ASSUME NEW k \in (n - y)..((n - z) - 1) PROVE v[k] = q
    <3>1. n - k \in (x + 1)..y /\ n - (n - k) = k /\ k < W /\ n - k > m /\ k \in 0..(W - 1)
      BY <1>1, <1>2
    <3>2. recent[k] = p
      BY <1>3, <3>1
    <3> QED
      BY <1>2, <1>4, <3>1, <3>2
  <2> HIDE DEF q
  <2>3. Grown(f, v, n - y, n - z, q)
    BY <1>2, <1>5, <2>1, Segment
  <2>4. f[n - z] = f[n - y] + q * ((n - z) - (n - y))
    BY <2>2, <2>3 DEF Grown
  <2> QED
    BY <2>1, <2>4
<1>7. f[n - x] = f[n - m]
  <2>1. n - m \in 0..W /\ n - x \in (n - m)..W
    BY <1>1, <1>2
  <2>2. ASSUME NEW k \in (n - m)..((n - x) - 1) PROVE v[k] = 0
    <3>1. n - k \in (x + 1)..y /\ n - (n - k) = k /\ k < W /\ ~(n - k > m) /\ k \in 0..(W - 1)
      BY <1>1, <1>2
    <3>2. recent[k] = NoPrice
      BY <1>3, <3>1
    <3> QED
      BY <1>4, <3>1, <3>2
  <2>3. Grown(f, v, n - m, n - x, 0)
    BY <1>2, <1>5, <2>1, Segment
  <2>4. f[n - x] = f[n - m] + 0 * ((n - x) - (n - m))
    BY <2>2, <2>3 DEF Grown
  <2>5. 0 * ((n - x) - (n - m)) = 0
    BY <1>1
  <2>6. f[n - m] \in Nat
    BY <1>5, <2>1 DEF Running
  <2> QED
    BY <2>4, <2>5, <2>6
<1>8. m \in m..y /\ n - x \in 0..W /\ n - y \in 0..W
  BY <1>1, <1>2
<1>9. f[n - x] = f[n - y] + q * (y - m)
  BY <1>6, <1>7, <1>8
<1> QED
  BY <1>2, <1>6, <1>8, <1>9 DEF W, n, x, y

\* The newest sample is of this ledger, as consult_twap requires.
Current == ring.count > 0 /\ sample(ring, ring.count - 1).ledger = ledger

\* What the invariant says of a live sample.
LEMMA LiveFacts ==
    ASSUME TwapInv, Current, NEW i \in 0..(ring.count - 1)
    PROVE  /\ ring.count \in Nat /\ ledger \in Nat /\ sample(ring, i) \in Sample
           /\ sample(ring, i).ledger \in 1..ledger
           /\ ledger - sample(ring, i).ledger \in 0..MAX_TWAP_WINDOW
           /\ \A t \in Token : sample(ring, i).cumulative[t] \in Int
<1>1. ring.count \in Nat /\ ledger \in Nat /\ MAX_TWAP_WINDOW \in Nat
  BY RingFields, OracleAssumption DEF TwapInv, OracleInv
<1>2. sample(ring, i) \in Sample
  BY LiveSlot DEF TwapInv, OracleInv
<1>3. /\ sample(ring, i).ledger \in 1..ledger
      /\ ledger - sample(ring, i).ledger <= MAX_TWAP_WINDOW
  BY DEF TwapInv, TwapOK, Current
<1>4. ledger - sample(ring, i).ledger \in 0..MAX_TWAP_WINDOW
  BY <1>1, <1>3
<1> QED
  BY <1>1, <1>2, <1>3, <1>4 DEF Sample

\* Sample j has accumulated the prices between the two beyond what sample i has.
Linked(f, t, i, j) ==
    Cong(sample(ring, j).cumulative[t],
         sample(ring, i).cumulative[t]
           + (f[ledger - sample(ring, i).ledger] - f[ledger - sample(ring, j).ledger]))

\* The next sample.
LEMMA LinkedNext ==
    ASSUME TwapInv, Current, NEW t \in Token,
           NEW f, Running(f, Value(t), MAX_TWAP_WINDOW),
           NEW i \in 0..(ring.count - 1), NEW j \in i..(ring.count - 1), j # i,
           Linked(f, t, i, j - 1)
    PROVE  Linked(f, t, i, j)
<1> DEFINE x == sample(ring, i)
           a == sample(ring, j - 1)
           b == sample(ring, j)
<1>1. j \in 1..(ring.count - 1) /\ j - 1 \in 0..(ring.count - 1) /\ j \in 0..(ring.count - 1)
  BY RingFields DEF TwapInv, OracleInv
<1>2. /\ a \in Sample /\ b \in Sample /\ b.ledger <= ledger
      /\ ledger - a.ledger \in 0..MAX_TWAP_WINDOW /\ ledger - b.ledger \in 0..MAX_TWAP_WINDOW
      /\ ledger - x.ledger \in 0..MAX_TWAP_WINDOW
      /\ x.cumulative[t] \in Int /\ a.cumulative[t] \in Int /\ b.cumulative[t] \in Int
  BY <1>1, LiveFacts
<1>3. PICK m \in Nat, p \in Prices : Between(a, b, m, p, ledger, recent)
  BY <1>1 DEF TwapInv, TwapOK, Spaced
<1> HIDE DEF a, b, x
<1>4. /\ p[t] \in Nat /\ m < b.ledger
      /\ f[ledger - a.ledger] = f[ledger - b.ledger] + p[t] * (b.ledger - m)
  <2>1. ledger - a.ledger <= MAX_TWAP_WINDOW
    BY <1>2, OracleAssumption
  <2> QED
    BY <1>2, <1>3, <2>1, BetweenSum DEF Between
<1>5. Cong(b.cumulative[t], a.cumulative[t] + p[t] * (b.ledger - m))
  BY <1>3 DEF Between
<1> DEFINE fa == f[ledger - a.ledger]
           fb == f[ledger - b.ledger]
           fx == f[ledger - x.ledger]
           ca == a.cumulative[t]
           cb == b.cumulative[t]
           cx == x.cumulative[t]
           d == p[t] * (b.ledger - m)
<1>6. fa \in Nat /\ fb \in Nat /\ fx \in Nat
  BY <1>2 DEF Running
<1>7. d \in Int /\ fa = fb + d /\ ca \in Int /\ cb \in Int /\ cx \in Int /\ Cong(cb, ca + d)
  <2>1. d \in Int
    BY <1>2, <1>4 DEF Sample
  <2> QED
    BY <1>2, <1>4, <1>5, <2>1
<1>8. Cong(ca, cx + (fx - fa))
  BY DEF Linked, x, a
<1> HIDE DEF fa, fb, fx, ca, cb, cx, d
<1>9. cx + (fx - fa) \in Int /\ ca + d \in Int /\ (cx + (fx - fa)) + d = cx + (fx - fb)
  BY <1>6, <1>7
<1>10. Cong(ca + d, cx + (fx - fb))
  <2>1. Cong(d, d)
    BY <1>7, CongSame
  <2>2. Cong(ca + d, (cx + (fx - fa)) + d)
    BY <1>7, <1>8, <1>9, <2>1, CongSum
  <2> QED
    BY <1>9, <2>2
<1>11. Cong(cb, cx + (fx - fb))
  <2>1. cx + (fx - fb) \in Int
    BY <1>6, <1>7
  <2> QED
    BY <1>7, <1>9, <1>10, <2>1, CongTrans
<1> QED
  BY <1>11 DEF Linked, fb, fx, cb, cx, x, b

\* All later ones.
LEMMA LinkedAll ==
    ASSUME TwapInv, Current, NEW t \in Token,
           NEW f, Running(f, Value(t), MAX_TWAP_WINDOW), NEW i \in 0..(ring.count - 1)
    PROVE  \A j \in i..(ring.count - 1) : Linked(f, t, i, j)
<1> DEFINE e == ring.count - 1 - i
           P == {d \in 0..e : Linked(f, t, i, i + d)}
<1>1. e \in Nat /\ i \in Nat /\ ring.count \in Nat
  BY LiveFacts
<1>2. 0 \in P
  <2> DEFINE c == sample(ring, i).cumulative[t]
             s == f[ledger - sample(ring, i).ledger]
  <2>1. c \in Int /\ s \in Nat
    BY LiveFacts DEF Running
  <2>2. Cong(c, c)
    BY <2>1, CongSame
  <2> HIDE DEF c, s
  <2>3. c + (s - s) = c
    BY <2>1
  <2>4. Cong(c, c + (s - s))
    BY <2>2, <2>3
  <2>5. Linked(f, t, i, i) /\ i + 0 = i /\ 0 \in 0..e
    BY <1>1, <2>4 DEF Linked, c, s
  <2> QED
    BY <2>5
<1>3. ASSUME NEW d \in 1..e, d - 1 \in P PROVE d \in P
  <2>1. /\ i + d \in i..(ring.count - 1) /\ i + d # i /\ d \in 0..e
        /\ i + (d - 1) = (i + d) - 1
    BY <1>1
  <2>2. Linked(f, t, i, (i + d) - 1)
    BY <1>3, <2>1
  <2>3. Linked(f, t, i, i + d)
    BY <2>1, <2>2, LinkedNext
  <2> QED
    BY <2>1, <2>3
<1> HIDE DEF P
<1>4. \A d \in 0..e : d \in P
  <2> HIDE DEF e
  <2> QED
    BY <1>1, <1>2, <1>3, UpTo
<1>5. ASSUME NEW j \in i..(ring.count - 1) PROVE Linked(f, t, i, j)
  <2>1. j - i \in 0..e /\ i + (j - i) = j
    BY <1>1
  <2>2. j - i \in P
    BY <1>4, <2>1
  <2> QED
    BY <2>1, <2>2 DEF P
<1> QED
  BY <1>5

\* With prices that fit, the sums are in the upper half of the range.
LEMMA SumFits ==
    ASSUME TwapInv, PricesFit, NEW t \in Token,
           NEW f, Running(f, Value(t), MAX_TWAP_WINDOW), NEW k \in 0..MAX_TWAP_WINDOW
    PROVE  f[k] \in 0..(HalfRange - 1)
<1> DEFINE W == MAX_TWAP_WINDOW
           v == Value(t)
           h == HalfRange - 1
           b == h \div W
<1>1. h \in Nat /\ W \in Nat \ {0} /\ v \in [0..(W - 1) -> Nat]
  BY ValueNat, OracleAssumption
<1>2. \A i \in 0..(W - 1) : v[i] * W <= h
  <2> SUFFICES ASSUME NEW i \in 0..(W - 1) PROVE v[i] * W <= h
    OBVIOUS
  <2>1. CASE recent[i] = NoPrice
    <3>1. v[i] = 0 /\ 0 * W = 0
      BY <1>1, <2>1, ValueNat
    <3> QED
      BY <1>1, <3>1
  <2>2. CASE recent[i] # NoPrice
    <3>1. recent[i] \in Prices /\ v[i] = recent[i][t]
      BY <2>2, ValueNat
    <3>2. v[i] * W < HalfRange
      BY <3>1 DEF PricesFit
    <3>3. v[i] \in Nat
      BY <1>1
    <3> DEFINE y == v[i] * W
    <3>4. y \in Nat
      BY <1>1, <3>3, MulNat
    <3> HIDE DEF y
    <3>5. y < HalfRange
      BY <3>2 DEF y
    <3>6. y <= h
      BY <3>4, <3>5, OracleAssumption
    <3> QED
      BY <3>6 DEF y
  <2> QED
    BY <2>1, <2>2
<1> HIDE DEF W, v, h
<1>3. b \in Nat /\ W * b <= h /\ h < W * b + W
  BY <1>1, DivFloor
<1> HIDE DEF b
<1>4. ASSUME NEW i \in 0..(W - 1) PROVE v[i] <= b
  <2> DEFINE x == v[i]
  <2>1. x \in Nat /\ x * W <= h
    BY <1>1, <1>2
  <2> HIDE DEF x
  <2>2. SUFFICES ASSUME x >= b + 1 PROVE FALSE
    BY <1>3, <2>1 DEF x
  <2>3. (b + 1) * W <= x * W
    BY <1>1, <1>3, <2>1, <2>2, MulMono
  <2>4. (b + 1) * W = W * b + W
    BY <1>1, <1>3
  <2> DEFINE y == x * W
             z == W * b
  <2>5. y \in Nat /\ z \in Nat
    BY <1>1, <1>3, <2>1, MulNat
  <2>6. z + W <= y /\ y <= h /\ h < z + W
    BY <1>3, <2>1, <2>3, <2>4
  <2> HIDE DEF y, z
  <2> QED
    BY <1>1, <2>5, <2>6
<1>5. k \in 0..W /\ k \in Nat /\ k <= W
  BY <1>1 DEF W
<1>6. Running(f, v, W) /\ f[0] = 0 /\ f[k] \in Nat
  BY <1>5 DEF Running, v, W
<1>7. f[k] <= b * k
  <2>1. 0 \in 0..W /\ W \in Nat
    BY <1>1
  <2>2. Grown(f, v, 0, k, b)
    BY <1>1, <1>3, <1>5, <1>6, <2>1, Segment
  <2>3. \A i \in 0..(k - 1) : v[i] <= b
    BY <1>1, <1>4, <1>5
  <2>4. f[k] <= 0 + b * (k - 0)
    BY <1>6, <2>2, <2>3 DEF Grown
  <2>5. k - 0 = k /\ b * k \in Nat
    BY <1>3, <1>5, MulNat
  <2> QED
    BY <2>4, <2>5
<1>8. b * k <= W * b
  <2>1. k * b <= W * b
    BY <1>1, <1>3, <1>5, MulMono
  <2>2. k * b = b * k
    BY <1>3, <1>5
  <2> QED
    BY <2>1, <2>2
<1>9. f[k] <= h
  <2> DEFINE x == b * k
             y == W * b
             z == f[k]
  <2>1. x \in Nat /\ y \in Nat /\ z \in Nat /\ z <= x /\ x <= y /\ y <= h
    BY <1>1, <1>3, <1>5, <1>6, <1>7, <1>8, MulNat
  <2> HIDE DEF x, y, z
  <2>2. z <= h
    BY <1>1, <2>1
  <2> QED
    BY <2>2 DEF z
<1> QED
  BY <1>1, <1>6, <1>9 DEF h

\* Where every price is known, the sum is PriceSum.
LEMMA SumIsPriceSum ==
    ASSUME TwapInv, NEW t \in Token, NEW f, Running(f, Value(t), MAX_TWAP_WINDOW),
           NEW n \in 0..MAX_TWAP_WINDOW, \A k \in 0..(n - 1) : recent[k] # NoPrice
    PROVE  PriceSum(t, n) = f[n]
<1> DEFINE Step(g) == [k \in 0..n |-> IF k = 0 THEN 0 ELSE g[k - 1] + recent[k - 1][t]]
           c == CHOOSE g : g = Step(g)
           h == [k \in 0..n |-> f[k]]
<1>1. n \in Nat /\ n <= MAX_TWAP_WINDOW /\ MAX_TWAP_WINDOW \in Nat
  BY OracleAssumption
<1>2. PriceSum(t, n) = c[n]
  BY DEF PriceSum
<1>3. f[0] = 0 /\ \A k \in 1..n : f[k] = f[k - 1] + recent[k - 1][t]
  <2>1. f[0] = 0
    BY DEF Running
  <2>2. ASSUME NEW k \in 1..n PROVE f[k] = f[k - 1] + recent[k - 1][t]
    <3>1. k \in 1..MAX_TWAP_WINDOW /\ k - 1 \in 0..(n - 1) /\ k - 1 \in 0..(MAX_TWAP_WINDOW - 1)
      BY <1>1
    <3>2. f[k] = f[k - 1] + Value(t)[k - 1]
      BY <3>1 DEF Running
    <3>3. recent[k - 1] # NoPrice
      BY <3>1
    <3>4. Value(t)[k - 1] = recent[k - 1][t]
      BY <3>1, <3>3, ValueNat
    <3> QED
      BY <3>2, <3>4
  <2> QED
    BY <2>1, <2>2
<1>4. h = Step(h)
  <2>1. ASSUME NEW k \in 0..n, k # 0 PROVE k \in 1..n /\ k - 1 \in 0..n
    BY <1>1, <2>1
  <2> QED
    BY <1>3, <2>1
<1>5. c = Step(c)
  <2> HIDE DEF Step
  <2> QED
    BY <1>4
<1> HIDE DEF c
<1> DEFINE P == {k \in 0..n : c[k] = f[k]}
<1>6. 0 \in P
  <2>1. 0 \in 0..n
    BY <1>1
  <2> QED
    BY <1>3, <1>5, <2>1
<1>7. ASSUME NEW k \in 1..n, k - 1 \in P PROVE k \in P
  <2>1. k \in 0..n /\ k # 0
    BY <1>1
  <2>2. c[k] = c[k - 1] + recent[k - 1][t]
    BY <1>5, <2>1
  <2> QED
    BY <1>3, <1>7, <2>1, <2>2
<1> HIDE DEF P
<1>8. \A k \in 0..n : k \in P
  BY <1>1, <1>6, <1>7, UpTo
<1>9. n \in 0..n
  BY <1>1
<1> QED
  BY <1>2, <1>8, <1>9 DEF P

\* A bounded set of naturals has a largest element.
LEMMA MaxOf ==
    ASSUME NEW n \in Nat, NEW T, T \subseteq 0..n, T # {}
    PROVE  Max(T) \in T /\ \A y \in T : Max(T) >= y
<1> DEFINE U == {n - y : y \in T}
<1>1. U \subseteq Nat /\ U # {}
  <2>1. \A y \in T : n - y \in Nat
    OBVIOUS
  <2>2. U \subseteq Nat
    BY <2>1
  <2>3. U # {}
    OBVIOUS
  <2> QED
    BY <2>2, <2>3
<1>2. PICK u \in U : \A w \in U : u <= w
  <2> HIDE DEF U
  <2> QED
    BY <1>1, LeastNat
<1>3. PICK x \in T : u = n - x
  OBVIOUS
<1>4. \A y \in T : x >= y
  <2> SUFFICES ASSUME NEW y \in T PROVE x >= y
    OBVIOUS
  <2>1. n - y \in U /\ x \in Int /\ y \in Int
    OBVIOUS
  <2>2. n - x <= n - y
    BY <1>2, <1>3, <2>1
  <2> QED
    BY <2>1, <2>2
<1> QED
  BY <1>4 DEF Max

\* The part of an accumulated difference d that falls to the first y of x ledgers: what
\* is left is at most p for each of the others, and is exactly that when d is p for all.
LEMMA Interpolation ==
    ASSUME NEW p \in Nat, NEW x \in Nat \ {0}, NEW y \in 0..x, NEW d \in Nat, d <= p * x
    PROVE  LET q == (d * y) \div x
           IN  /\ q \in Nat /\ q <= d
               /\ d - q <= p * (x - y)
               /\ d = p * x => q = p * y
<1> DEFINE e == d * y
           q == e \div x
           z == x - y
<1>1. y \in Nat /\ z \in Nat /\ e \in Nat /\ y <= x
  BY MulNat
<1> HIDE DEF e, z
<1>2. q \in Nat /\ x * q <= e /\ e < x * q + x
  BY <1>1, DivFloor
<1> HIDE DEF q
<1>3. q <= d
  <2>1. q * x <= d * x
    <3>1. y * d <= x * d
      BY <1>1, MulMono
    <3>2. e = y * d /\ d * x = x * d /\ q * x = x * q
      BY <1>1, <1>2 DEF e
    <3> DEFINE a == y * d
               b == x * d
               c == x * q
    <3>3. a \in Nat /\ b \in Nat /\ c \in Nat
      BY <1>1, <1>2, MulNat
    <3>4. c <= a /\ a <= b
      BY <1>2, <3>1, <3>2
    <3> HIDE DEF a, b, c
    <3>5. c <= b
      BY <3>3, <3>4
    <3> QED
      BY <3>2, <3>5 DEF b, c
  <2> QED
    BY <1>2, <2>1, MulCancel
<1>4. d - q <= p * z
  <2> DEFINE r == d - q
             s == p * z
  <2>1. s \in Nat /\ r \in Nat
    BY <1>1, <1>2, <1>3, MulNat
  <2>2. d * z <= (p * x) * z
    BY <1>1, MulNat, MulMono
  <2>3. d * z = d * x - e
    BY <1>1, SMT DEF e, z
  <2>4. (p * x) * z = s * x
    BY <1>1, SMT
  <2>5. r * x = d * x - x * q
    BY <1>2, <2>1, SMT
  <2> DEFINE a == d * x
             b == x * q
             c == s * x
             g == r * x
  <2>6. a \in Nat /\ b \in Nat /\ c \in Nat /\ g \in Nat
    BY <1>2, <2>1, MulNat
  <2>7. a - e <= c /\ g = a - b /\ e < b + x
    BY <1>2, <2>2, <2>3, <2>4, <2>5
  <2>8. SUFFICES ASSUME r >= s + 1 PROVE FALSE
    BY <2>1
  <2>9. (s + 1) * x <= r * x /\ (s + 1) * x = s * x + x
    BY <2>1, <2>8, MulMono
  <2>10. c + x <= g
    BY <2>9
  <2> HIDE DEF a, b, c, g, r, s
  <2> QED
    BY <1>1, <2>6, <2>7, <2>10
<1>5. ASSUME d = p * x PROVE q = p * y
  <2> DEFINE w == p * y
  <2>1. e = w * x
    BY <1>1, <1>5, SMT DEF e
  <2>2. w \in Nat
    BY <1>1, MulNat
  <2> HIDE DEF w
  <2>3. q * x <= w * x /\ w * x < (q + 1) * x
    <3>1. q * x = x * q /\ (q + 1) * x = x * q + x
      BY <1>2
    <3> QED
      BY <1>2, <2>1, <3>1
  <2>4. q <= w
    BY <1>2, <2>2, <2>3, MulCancel
  <2>5. SUFFICES ASSUME w >= q + 1 PROVE FALSE
    BY <1>2, <2>2, <2>4 DEF w
  <2>6. (q + 1) * x <= w * x
    BY <1>2, <2>2, <2>5, MulMono
  <2> DEFINE a == (q + 1) * x
             b == w * x
  <2>7. a \in Nat /\ b \in Nat /\ a <= b /\ b < a
    BY <1>2, <2>2, <2>3, <2>6, MulNat
  <2> HIDE DEF a, b
  <2> QED
    BY <2>7
<1> QED
  BY <1>2, <1>3, <1>4, <1>5 DEF q, e, z

\* An answer of consult_twap is about a window that ends in this ledger.
LEMMA Consulted ==
    ASSUME TwapInv, NEW window \in 1..MAX_TWAP_WINDOW, consult_twap(window) # Refused,
           NEW target, target = ledger - window
    PROVE  /\ Current /\ ledger \in Nat /\ window \in Nat \ {0} /\ window < ledger
           /\ sample(ring, 0).ledger <= target
           /\ consult_twap(window) =
                 [t \in Token |->
                     Quotient(Delta(Interpolated(StartSample(target), EndSample(target), target, t),
                                    sample(ring, ring.count - 1).cumulative[t]),
                              window)]
<1> DEFINE begin == IF ledger > window THEN ledger - window ELSE 0
           Fitting == \A t \in Token :
                          Interpolant(StartSample(begin), EndSample(begin), begin, t)
                              \in (-HalfRange)..(HalfRange - 1)
           Start == StartSample(begin)
           End == EndSample(begin)
           Answer == [t \in Token |->
                         Quotient(Delta(Interpolated(Start, End, begin, t),
                                        newest(ring).cumulative[t]),
                                  newest(ring).ledger - begin)]
           Answered == /\ window \in 1..MAX_TWAP_WINDOW
                       /\ ring.count > 0
                       /\ oldest(ring).ledger <= begin
                       /\ newest(ring).ledger >= begin + window
                       /\ Fitting
<1>1. consult_twap(window) = IF Answered THEN Answer ELSE Refused
  BY DEF consult_twap
<1> HIDE DEF Answer, Fitting
<1>2. Answered /\ consult_twap(window) = Answer
  BY <1>1
<1>3. /\ ring.count > 0 /\ sample(ring, 0).ledger <= begin
      /\ sample(ring, ring.count - 1).ledger >= begin + window
  BY <1>2 DEF oldest, newest
<1>4. ledger \in Nat /\ window \in Nat \ {0} /\ ring.count \in Nat
  BY RingFields, OracleAssumption DEF TwapInv, OracleInv
<1>5. 0 \in 0..(ring.count - 1) /\ ring.count - 1 \in 0..(ring.count - 1)
  BY <1>3, <1>4
<1>6. sample(ring, 0).ledger \in 1..ledger /\ sample(ring, ring.count - 1).ledger \in 1..ledger
  BY <1>5 DEF TwapInv, TwapOK
<1>7. window < ledger /\ begin = target
  BY <1>3, <1>4, <1>6
<1>8. sample(ring, ring.count - 1).ledger = ledger /\ ledger - target = window
  BY <1>3, <1>4, <1>6, <1>7
<1>9. sample(ring, 0).ledger <= target
  BY <1>3, <1>7
<1> HIDE DEF begin
<1>10. Answer =
          [t \in Token |->
              Quotient(Delta(Interpolated(StartSample(target), EndSample(target), target, t),
                             sample(ring, ring.count - 1).cumulative[t]),
                       window)]
  BY <1>7, <1>8 DEF Answer, newest
<1> QED
  BY <1>2, <1>3, <1>4, <1>7, <1>8, <1>9, <1>10 DEF Current

\* The window starts at sample s, or between sample s and the next one, e.
Starts(target, s, e) ==
    /\ StartSample(target) = sample(ring, s) /\ EndSample(target) = sample(ring, e)
    /\ s \in 0..(ring.count - 2) /\ e \in 0..(ring.count - 1)
    /\ sample(ring, s).ledger <= target
    /\ \/ sample(ring, s).ledger = target /\ sample(ring, e).ledger = target
       \/ sample(ring, s).ledger < target /\ e = s + 1 /\ target < sample(ring, e).ledger

\* consult_twap finds where it starts.
LEMMA StartFound ==
    ASSUME TwapInv, Current, NEW target \in Nat, target < ledger,
           sample(ring, 0).ledger <= target
    PROVE  \E s, e : Starts(target, s, e)
<1> DEFINE c == ring.count
           L(i) == sample(ring, i).ledger
           S == {i \in 0..(c - 1) : L(i) <= target}
           E == {i \in 0..(c - 1) : L(i) >= target}
           s == Max(S)
           e == Min(E)
<1>1. c \in Nat /\ c > 0 /\ L(c - 1) = ledger /\ ledger \in Nat
  BY RingFields DEF TwapInv, OracleInv, Current
<1>2. \A i \in 0..(c - 1) : L(i) \in Nat
  BY LiveFacts
<1>3. \A i \in 0..(c - 1) : \A j \in i..(c - 1) : L(i) <= L(j)
  BY DEF TwapInv, OracleInv, Ordered
<1>4. StartSample(target) = sample(ring, s) /\ EndSample(target) = sample(ring, e)
  BY DEF StartSample, EndSample
<1> HIDE DEF c, L
<1>5. s \in S /\ \A i \in S : s >= i
  <2>1. S \subseteq 0..(c - 1) /\ 0 \in S /\ c - 1 \in Nat
    BY <1>1 DEF L
  <2> HIDE DEF S
  <2>2. S # {}
    BY <2>1
  <2> QED
    BY <2>1, <2>2, MaxOf
<1>6. e \in E /\ \A i \in E : e <= i
  <2>1. E \subseteq Nat /\ c - 1 \in E
    BY <1>1
  <2> HIDE DEF E
  <2>2. \E x \in E : \A y \in E : x <= y
    BY <2>1, LeastNat
  <2> QED
    BY <2>2 DEF Min
<1> HIDE DEF s, e
<1>7. s \in 0..(c - 1) /\ L(s) <= target /\ s # c - 1
  BY <1>1, <1>5
<1>8. s \in 0..(c - 2)
  BY <1>1, <1>7
<1>9. e \in 0..(c - 1) /\ L(e) >= target /\ L(e) \in Nat /\ L(s) \in Nat
  BY <1>2, <1>6, <1>7
<1>10. CASE L(s) = target
  <2>1. s \in E
    BY <1>7, <1>10
  <2>2. e <= s
    BY <1>6, <2>1
  <2>3. s \in e..(c - 1)
    BY <1>1, <1>7, <1>9, <2>2
  <2>4. L(e) = target
    BY <1>3, <1>9, <1>10, <2>3
  <2> QED
    BY <1>4, <1>7, <1>8, <1>9, <1>10, <2>4 DEF Starts, c, L
<1>11. CASE L(s) # target
  <2>1. L(s) < target
    BY <1>7, <1>9, <1>11
  <2>2. s + 1 \in 0..(c - 1) /\ ~(s >= s + 1)
    BY <1>1, <1>8
  <2>3. L(s + 1) > target
    <3>1. s + 1 \notin S
      BY <1>5, <2>2
    <3> QED
      BY <1>2, <2>2, <3>1
  <2>4. e <= s + 1
    <3>1. s + 1 \in E
      BY <1>2, <2>2, <2>3
    <3> QED
      BY <1>6, <3>1
  <2>5. ~(e <= s)
    <3>1. SUFFICES ASSUME e <= s PROVE FALSE
      OBVIOUS
    <3>2. s \in e..(c - 1)
      BY <1>1, <1>7, <1>9, <3>1
    <3> QED
      BY <1>3, <1>9, <2>1, <3>2
  <2>6. e = s + 1
    BY <1>1, <1>8, <1>9, <2>4, <2>5
  <2> QED
    BY <1>4, <1>7, <1>8, <1>9, <2>1, <2>3, <2>6 DEF Starts, c, L
<1> QED
  BY <1>10, <1>11

\* What a window accumulates, given its start: the sum of its prices where all of them
\* since the starting sample are known, and never more than the highest for each ledger.
Averaged(t, f, s, window, total) ==
    LET seen == 0..(ledger - sample(ring, s).ledger - 1)
    IN  /\ total \in Nat
        /\ (\A k \in seen : recent[k] # NoPrice) => total = f[window]
        /\ \A p \in Nat : (\A k \in seen : Value(t)[k] <= p) => total <= p * window

\* An accumulator that had the value c and has accumulated u since.
Advanced(x, c, u) == Cong(x, c + u)

\* The difference between two accumulated values is the true one, d.
LEMMA DeltaIs ==
    ASSUME NEW x \in Int, NEW y \in Int, NEW u \in Int, NEW v \in Int, NEW c \in Int,
           Advanced(x, c, u), Advanced(y, c, v), NEW d \in 0..(HalfRange - 1), d = v - u
    PROVE  Delta(x, y) = d
<1>1. c + u \in Int /\ c + v \in Int /\ y - x \in Int
  OBVIOUS
<1>2. Cong(y - x, (c + v) - (c + u))
  BY <1>1, CongSum DEF Advanced
<1>3. (c + v) - (c + u) = d
  OBVIOUS
<1>4. d \in (-HalfRange)..(HalfRange - 1)
  BY OracleAssumption
<1>5. Wrap(y - x) = d
  BY <1>1, <1>2, <1>3, <1>4, WrapIs
<1> QED
  BY <1>5 DEF Delta

\* The sum at most the highest price for each ledger.
LEMMA SumBelow ==
    ASSUME TwapInv, NEW t \in Token, NEW f, Running(f, Value(t), MAX_TWAP_WINDOW),
           NEW k \in 0..MAX_TWAP_WINDOW, NEW p \in Nat, \A i \in 0..(k - 1) : Value(t)[i] <= p
    PROVE  f[k] \in Nat /\ f[k] <= p * k
<1> DEFINE W == MAX_TWAP_WINDOW
           v == Value(t)
<1>1. W \in Nat /\ 0 \in 0..W /\ k \in 0..W /\ k \in Nat /\ v \in [0..(W - 1) -> Nat]
  BY ValueNat
<1>2. Running(f, v, W) /\ f[0] = 0 /\ f[k] \in Nat
  BY <1>1 DEF Running
<1>3. \A i \in 0..(k - 1) : v[i] <= p
  OBVIOUS
<1> HIDE DEF v, W
<1>4. Grown(f, v, 0, k, p)
  BY <1>1, <1>2, Segment
<1>5. f[k] <= 0 + p * (k - 0)
  BY <1>2, <1>3, <1>4 DEF Grown
<1>6. k - 0 = k /\ p * k \in Nat
  BY <1>1, MulNat
<1> QED
  BY <1>2, <1>5, <1>6

\* A window that starts at a sample.
LEMMA AverageAt ==
    ASSUME TwapInv, Current, PricesFit, NEW t \in Token,
           NEW f, Running(f, Value(t), MAX_TWAP_WINDOW),
           NEW window \in 1..MAX_TWAP_WINDOW, NEW s \in 0..(ring.count - 1),
           sample(ring, s).ledger = ledger - window
    PROVE  Averaged(t, f, s, window,
                    Delta(sample(ring, s).cumulative[t],
                          sample(ring, ring.count - 1).cumulative[t]))
<1> DEFINE a == sample(ring, s)
           z == sample(ring, ring.count - 1)
           total == Delta(a.cumulative[t], z.cumulative[t])
<1>1. ring.count - 1 \in s..(ring.count - 1) /\ ring.count - 1 \in 0..(ring.count - 1)
  BY LiveFacts
<1>2. /\ ledger \in Nat /\ a.cumulative[t] \in Int /\ z.cumulative[t] \in Int
      /\ z.ledger = ledger /\ a.ledger \in Nat
  BY <1>1, LiveFacts DEF Current, Sample
<1>3. /\ ledger - a.ledger = window /\ ledger - z.ledger = 0
      /\ window \in 0..MAX_TWAP_WINDOW /\ 0 \in 0..MAX_TWAP_WINDOW
  BY <1>2, OracleAssumption
<1>4. Cong(z.cumulative[t], a.cumulative[t] + (f[window] - f[0]))
  <2>1. Linked(f, t, s, ring.count - 1)
    BY <1>1, LinkedAll
  <2> QED
    BY <1>3, <2>1 DEF Linked
<1>5. f[0] = 0 /\ f[window] \in 0..(HalfRange - 1)
  BY <1>3, SumFits DEF Running
<1>6. total = f[window]
  <2> DEFINE c == a.cumulative[t]
             x == a.cumulative[t]
             y == z.cumulative[t]
             u == 0
             v == f[window]
  <2>0. x \in Int /\ c \in Int /\ y \in Int /\ u \in Int /\ v \in Int
    BY <1>2, <1>5, OracleAssumption
  <2>1. v = v - u /\ v - 0 = v /\ c + u = x /\ v \in 0..(HalfRange - 1)
    BY <1>5, <2>0
  <2>2. Advanced(y, c, v)
    BY <1>4, <1>5, <2>1 DEF Advanced
  <2>3. Advanced(x, c, u)
    BY <2>0, <2>1, CongSame DEF Advanced
  <2> HIDE DEF c, x, y, u, v
  <2>4. Delta(x, y) = v
    BY <2>0, <2>1, <2>2, <2>3, DeltaIs
  <2> QED
    BY <2>4 DEF x, y, v
<1> HIDE DEF total
<1>7. ASSUME NEW p \in Nat, \A k \in 0..(ledger - a.ledger - 1) : Value(t)[k] <= p
      PROVE  total <= p * window
  <2>1. \A k \in 0..(window - 1) : Value(t)[k] <= p
    BY <1>3, <1>7
  <2> QED
    BY <1>3, <1>6, <2>1, SumBelow
<1>8. total \in Nat
  BY <1>5, <1>6
<1>9. Averaged(t, f, s, window, total)
  BY <1>6, <1>7, <1>8 DEF Averaged
<1> QED
  BY <1>9 DEF total

\* The arithmetic of a window that starts y of x ledgers after a sample: the first
\* sample has accumulated d, at most q for each of the x ledgers, in all of them.
Interpolates(d, x, y, q, part) ==
    /\ part \in Nat /\ part <= d
    /\ d - part <= q * (x - y)
    /\ d = q * x => part = q * y

\* The accumulator's value at a ledger between two samples.
LEMMA InterpolatedIs ==
    ASSUME NEW a \in Sample, NEW b \in Sample, NEW t \in Token, NEW target \in Nat,
           a.ledger < target, target < b.ledger,
           NEW d \in Nat, NEW q \in Nat, d <= q * (b.ledger - a.ledger),
           Delta(a.cumulative[t], b.cumulative[t]) = d
    PROVE  \E part \in Nat :
              /\ Interpolates(d, b.ledger - a.ledger, target - a.ledger, q, part)
              /\ Interpolated(a, b, target, t) \in Int
              /\ Advanced(Interpolated(a, b, target, t), a.cumulative[t], part)
<1> DEFINE x == b.ledger - a.ledger
           y == target - a.ledger
           part == (d * y) \div x
           c == a.cumulative[t]
<1>1. x \in Nat \ {0} /\ y \in 0..x /\ y \in Nat /\ c \in Int /\ b.ledger # a.ledger
  BY DEF Sample
<1>2. d * y \in Nat
  BY <1>1, MulNat
<1>3. Interpolated(a, b, target, t) = Wrap(c + part)
  <2>1. Interpolant(a, b, target, t) = d * y
    BY DEF Interpolant
  <2>2. Quotient(d * y, x) = part
    <3> DEFINE w == d * y
    <3>1. w >= 0
      BY <1>2
    <3> HIDE DEF w, x
    <3>2. Quotient(w, x) = w \div x
      BY <3>1 DEF Quotient
    <3> QED
      BY <3>2 DEF w
  <2> QED
    BY <1>1, <2>1, <2>2 DEF Interpolated
<1>4. d <= q * x
  OBVIOUS
<1> HIDE DEF x, y, c
<1>5. part \in Nat /\ Interpolates(d, x, y, q, part)
  BY <1>1, <1>4, Interpolation DEF Interpolates
<1> HIDE DEF part
<1>6. c + part \in Int
  BY <1>1, <1>5
<1>7. Wrap(c + part) \in Int /\ Cong(Wrap(c + part), c + part)
  BY <1>6, WrapRange, WrapInt
<1> QED
  BY <1>3, <1>5, <1>7 DEF Advanced, x, y, c

\* A window that starts between two samples.
LEMMA AverageBetween ==
    ASSUME TwapInv, Current, PricesFit, NEW t \in Token,
           NEW f, Running(f, Value(t), MAX_TWAP_WINDOW),
           NEW window \in 1..MAX_TWAP_WINDOW, NEW s \in 0..(ring.count - 2),
           NEW target \in Nat, target = ledger - window,
           sample(ring, s).ledger < target, target < sample(ring, s + 1).ledger
    PROVE  Averaged(t, f, s, window,
                    Delta(Interpolated(sample(ring, s), sample(ring, s + 1), target, t),
                          sample(ring, ring.count - 1).cumulative[t]))
<1> DEFINE W == MAX_TWAP_WINDOW
           n == ledger
           a == sample(ring, s)
           b == sample(ring, s + 1)
           z == sample(ring, ring.count - 1)
           x == a.ledger
           y == b.ledger
           total == Delta(Interpolated(a, b, target, t), z.cumulative[t])
<1>1. /\ s \in 0..(ring.count - 1) /\ s + 1 \in s..(ring.count - 1)
      /\ s + 1 \in 1..(ring.count - 1) /\ s + 1 \in 0..(ring.count - 1) /\ (s + 1) - 1 = s
      /\ ring.count - 1 \in s..(ring.count - 1) /\ ring.count - 1 \in 0..(ring.count - 1)
  <2> DEFINE c == ring.count
  <2>1. c \in Nat /\ s \in 0..(c - 2)
    BY RingFields DEF TwapInv, OracleInv
  <2> HIDE DEF c
  <2>2. /\ s \in 0..(c - 1) /\ s + 1 \in s..(c - 1)
        /\ s + 1 \in 1..(c - 1) /\ s + 1 \in 0..(c - 1) /\ (s + 1) - 1 = s
        /\ c - 1 \in s..(c - 1) /\ c - 1 \in 0..(c - 1)
    BY <2>1
  <2> QED
    BY <2>2 DEF c
<1>2. /\ a \in Sample /\ b \in Sample /\ n \in Nat /\ x \in 1..n /\ y \in 1..n
      /\ n - x \in 0..W /\ n - y \in 0..W
      /\ a.cumulative[t] \in Int /\ b.cumulative[t] \in Int /\ z.cumulative[t] \in Int
      /\ z.ledger = n
  BY <1>1, LiveFacts DEF Current
<1>3. PICK m \in Nat, p \in Prices : Between(a, b, m, p, n, recent)
  <2>1. Spaced(a, b, n, recent)
    BY <1>1 DEF TwapInv, TwapOK
  <2> QED
    BY <2>1 DEF Spaced
<1>4. Linked(f, t, s, s + 1) /\ Linked(f, t, s, ring.count - 1)
  BY <1>1, LinkedAll
<1>5. Advanced(b.cumulative[t], a.cumulative[t], f[n - x] - f[n - y])
  BY <1>4 DEF Linked, Advanced
<1>6. Advanced(z.cumulative[t], a.cumulative[t], f[n - x] - f[n - n])
  BY <1>2, <1>4 DEF Linked, Advanced
<1>7. x < target /\ target < y /\ target = n - window
  OBVIOUS
<1> HIDE DEF a, b, z
<1>8. /\ p[t] \in Nat
      /\ f[n - x] = f[n - y] + p[t] * (y - m)
      /\ \A l \in m..y : f[n - l] = f[n - y] + p[t] * (y - l)
  <2>1. n - x <= W /\ y <= n
    BY <1>2, OracleAssumption
  <2> QED
    BY <1>2, <1>3, <2>1, BetweenSum
<1>9. /\ x <= m /\ m < y
      /\ \A l \in (x + 1)..y : n - l < W => recent[n - l] = IF l > m THEN p ELSE NoPrice
  BY <1>3 DEF Between
<1>10. /\ f[n - x] \in 0..(HalfRange - 1) /\ f[n - y] \in 0..(HalfRange - 1) /\ f[n - n] = 0
       /\ f[n - x] \in Nat /\ f[n - y] \in Nat
  <2>1. n - n = 0
    BY <1>2
  <2> QED
    BY <1>2, <2>1, SumFits, OracleAssumption DEF Running
<1> HIDE DEF W, n, x, y
<1> DEFINE q == p[t]
           d == q * (y - m)
           fx == f[n - x]
           fy == f[n - y]
<1>11. /\ q \in Nat /\ d \in Nat /\ fx = fy + d /\ fx \in 0..(HalfRange - 1) /\ fy \in Nat
       /\ fx \in Nat /\ HalfRange \in Nat
  <2>1. y - m \in Nat
    BY <1>2, <1>9
  <2>2. d \in Nat
    BY <1>8, <2>1, MulNat
  <2> QED
    BY <1>8, <1>10, <2>2, OracleAssumption
<1>12. d <= q * (y - x)
  <2>1. y - m \in Nat /\ y - x \in Nat /\ y - m <= y - x
    BY <1>2, <1>9
  <2>2. (y - m) * q <= (y - x) * q
    BY <1>11, <2>1, MulMono
  <2>3. (y - m) * q = q * (y - m) /\ (y - x) * q = q * (y - x)
    BY <1>11, <2>1
  <2> QED
    BY <2>2, <2>3
<1> HIDE DEF q, d, fx, fy
<1>13. Delta(a.cumulative[t], b.cumulative[t]) = d
  <2> DEFINE c == a.cumulative[t]
             e == a.cumulative[t]
             g == b.cumulative[t]
             u == 0
             v == fx - fy
  <2>1. c \in Int /\ e \in Int /\ g \in Int /\ u \in Int /\ v \in Int /\ c + u = e
    BY <1>2, <1>11
  <2>2. d \in 0..(HalfRange - 1) /\ d = v - u
    BY <1>11
  <2>3. Advanced(g, c, v)
    BY <1>5 DEF fx, fy
  <2>4. Advanced(e, c, u)
    BY <2>1, CongSame DEF Advanced
  <2> HIDE DEF c, e, g, u, v
  <2>5. Delta(e, g) = d
    BY <2>1, <2>2, <2>3, <2>4, DeltaIs
  <2> QED
    BY <2>5 DEF e, g
<1>14. PICK part \in Nat :
          /\ Interpolates(d, y - x, target - x, q, part)
          /\ Interpolated(a, b, target, t) \in Int
          /\ Advanced(Interpolated(a, b, target, t), a.cumulative[t], part)
  <2>1. /\ a.ledger < target /\ target < b.ledger /\ d <= q * (b.ledger - a.ledger)
    BY <1>7, <1>12 DEF x, y
  <2> QED
    BY <1>2, <1>11, <1>13, <2>1, InterpolatedIs DEF x, y
<1>15. /\ part <= d
       /\ d - part <= q * ((y - x) - (target - x))
       /\ d = q * (y - x) => part = q * (target - x)
  BY <1>14 DEF Interpolates
<1>16. total = fx - part /\ fx - part \in 0..(HalfRange - 1)
  <2> DEFINE c == a.cumulative[t]
             e == Interpolated(a, b, target, t)
             g == z.cumulative[t]
  <2>1. c \in Int /\ e \in Int /\ g \in Int /\ part \in Int /\ fx \in Int
    BY <1>2, <1>11, <1>14
  <2>2. fx - part \in 0..(HalfRange - 1)
    BY <1>11, <1>15
  <2>3. Advanced(g, c, fx)
    <3>1. fx - 0 = fx
      BY <1>11
    <3> QED
      BY <1>6, <1>10, <3>1 DEF fx
  <2>4. Advanced(e, c, part)
    BY <1>14
  <2> HIDE DEF c, e, g
  <2>5. Delta(e, g) = fx - part
    BY <2>1, <2>2, <2>3, <2>4, DeltaIs
  <2> QED
    BY <2>2, <2>5 DEF e, g
<1> HIDE DEF total
<1>17. total \in Nat
  BY <1>11, <1>16
<1>18. ASSUME \A k \in 0..(n - x - 1) : recent[k] # NoPrice
       PROVE  total = f[window]
  <2>1. m = x
    <3>1. SUFFICES ASSUME m # x PROVE FALSE
      OBVIOUS
    <3>2. /\ x + 1 \in (x + 1)..y /\ ~(x + 1 > m) /\ n - (x + 1) < W
          /\ n - (x + 1) \in 0..(n - x - 1)
      BY <1>2, <1>9, <3>1, OracleAssumption DEF W
    <3> QED
      BY <1>9, <1>18, <3>2
  <2>2. part = q * (target - x) /\ d = q * (y - x)
    BY <1>15, <2>1 DEF d
  <2>3. f[n - target] = fy + q * (y - target)
    <3>1. target \in m..y
      BY <1>2, <1>7, <2>1
    <3> QED
      BY <1>8, <3>1 DEF fy, q
  <2>4. q * (y - x) - q * (target - x) = q * (y - target)
    <3>1. x \in Int /\ y \in Int /\ q \in Int
      BY <1>2, <1>11
    <3> QED
      BY <3>1, SMT
  <2>5. n - target = window
    BY <1>2, <1>7
  <2> DEFINE g == q * (y - target)
  <2>6. g \in Int /\ d - part = g
    BY <1>2, <1>11, <2>2, <2>4
  <2> HIDE DEF g
  <2>7. fx - part = fy + g
    BY <1>11, <2>6
  <2> QED
    BY <1>16, <2>3, <2>5, <2>7 DEF g
<1>19. ASSUME NEW top \in Nat, \A k \in 0..(n - x - 1) : Value(t)[k] <= top
       PROVE  total <= top * window
  <2>1. /\ n - y \in 0..(n - x - 1) /\ n - y < W /\ n - y \in 0..(W - 1)
        /\ y \in (x + 1)..y /\ y > m
    BY <1>2, <1>7, <1>9, OracleAssumption DEF W
  <2>2. recent[n - y] = p /\ p # NoPrice
    BY <1>9, <2>1, PriceNat
  <2>3. Value(t)[n - y] = q
    BY <2>1, <2>2, ValueNat DEF q, W
  <2>4. q <= top
    BY <1>19, <2>1, <2>3
  <2>5. fy <= top * (n - y)
    <3>1. \A k \in 0..((n - y) - 1) : k \in 0..(n - x - 1)
      BY <1>2, <1>7
    <3>2. \A k \in 0..((n - y) - 1) : Value(t)[k] <= top
      BY <1>19, <3>1
    <3>3. n - y \in 0..MAX_TWAP_WINDOW
      BY <1>2 DEF W
    <3> QED
      BY <3>2, <3>3, SumBelow DEF fy
  <2>6. (y - x) - (target - x) = y - target /\ y - target \in Nat /\ n - y \in Nat
        /\ (n - y) + (y - target) = window
    BY <1>2, <1>7
  <2>7. q * (y - target) <= top * (y - target)
    BY <1>11, <2>4, <2>6, MulMono
  <2>8. top * (n - y) + top * (y - target) = top * window
    <3>1. n \in Int /\ y \in Int /\ top \in Int /\ window = n - target /\ target \in Int
      BY <1>2, <1>7
    <3> QED
      BY <3>1, SMT
  <2> DEFINE g == q * (y - target)
             h == top * (y - target)
             i == top * (n - y)
             j == top * window
  <2>9. g \in Nat /\ h \in Nat /\ i \in Nat /\ j \in Nat
    BY <1>11, <2>6, MulNat
  <2>10. d - part <= g /\ fy <= i /\ g <= h /\ i + h = j
    BY <1>15, <2>5, <2>6, <2>7, <2>8
  <2> HIDE DEF g, h, i, j
  <2>11. fx - part <= j
    BY <1>11, <2>9, <2>10
  <2> QED
    BY <1>16, <2>11 DEF j
<1>20. Averaged(t, f, s, window, total)
  BY <1>17, <1>18, <1>19 DEF Averaged, n, x, a
<1> QED
  BY <1>20 DEF total, a, b, z

\* What consult_twap divides by the window is what the window accumulates.
LEMMA TotalAveraged ==
    ASSUME TwapInv, Current, PricesFit, NEW t \in Token,
           NEW f, Running(f, Value(t), MAX_TWAP_WINDOW),
           NEW window \in 1..MAX_TWAP_WINDOW, NEW target \in Nat, target = ledger - window,
           NEW s, NEW e, Starts(target, s, e)
    PROVE  Averaged(t, f, s, window,
                    Delta(Interpolated(StartSample(target), EndSample(target), target, t),
                          sample(ring, ring.count - 1).cumulative[t]))
<1>1. /\ StartSample(target) = sample(ring, s) /\ EndSample(target) = sample(ring, e)
      /\ s \in 0..(ring.count - 2)
  BY DEF Starts
<1>2. CASE sample(ring, s).ledger = target /\ sample(ring, e).ledger = target
  <2>1. Interpolated(sample(ring, s), sample(ring, e), target, t) = sample(ring, s).cumulative[t]
    BY <1>2 DEF Interpolated
  <2>2. s \in 0..(ring.count - 1)
    <3>1. ring.count \in Nat
      BY RingFields DEF TwapInv, OracleInv
    <3> QED
      BY <1>1, <3>1
  <2>3. sample(ring, s).ledger = ledger - window
    BY <1>2
  <2>4. Averaged(t, f, s, window,
                 Delta(sample(ring, s).cumulative[t],
                       sample(ring, ring.count - 1).cumulative[t]))
    BY <2>2, <2>3, AverageAt
  <2> QED
    BY <1>1, <2>1, <2>4
<1>3. CASE /\ sample(ring, s).ledger < target /\ e = s + 1
           /\ target < sample(ring, e).ledger
  <2>1. Averaged(t, f, s, window,
                 Delta(Interpolated(sample(ring, s), sample(ring, s + 1), target, t),
                       sample(ring, ring.count - 1).cumulative[t]))
    BY <1>1, <1>3, AverageBetween
  <2> QED
    BY <1>1, <1>3, <2>1
<1> QED
  BY <1>2, <1>3 DEF Starts

\* The price of the ledger of the newest sample is known, if it is not the only one.
LEMMA NewestPriced ==
    ASSUME TwapInv, Current, NEW s \in 0..(ring.count - 2)
    PROVE  recent[0] \in Prices
<1> DEFINE c == ring.count
<1>1. c \in Nat /\ ledger \in Nat /\ MAX_TWAP_WINDOW \in Nat \ {0}
  BY RingFields, OracleAssumption DEF TwapInv, OracleInv
<1>2. c - 1 \in 1..(c - 1) /\ s \in 0..(c - 2)
  BY <1>1
<1>3. Spaced(sample(ring, c - 1 - 1), sample(ring, c - 1), ledger, recent)
  BY <1>2 DEF TwapInv, TwapOK
<1>4. sample(ring, c - 1).ledger = ledger
  BY DEF Current
<1> HIDE DEF c
<1>5. PICK m \in Nat, p \in Prices :
          Between(sample(ring, c - 1 - 1), sample(ring, c - 1), m, p, ledger, recent)
  BY <1>3 DEF Spaced
<1> DEFINE a == sample(ring, c - 1 - 1).ledger
<1>6. a <= m /\ m < ledger
      /\ \A l \in (a + 1)..ledger :
            ledger - l < MAX_TWAP_WINDOW => recent[ledger - l] = IF l > m THEN p ELSE NoPrice
  BY <1>4, <1>5 DEF Between
<1>7. a \in Nat
  <2>1. c - 1 - 1 \in 0..(c - 1)
    BY <1>1, <1>2
  <2> QED
    BY <2>1, LiveFacts DEF c
<1> HIDE DEF a
<1>8. ledger \in (a + 1)..ledger /\ ledger - ledger = 0 /\ 0 < MAX_TWAP_WINDOW
  BY <1>1, <1>6, <1>7
<1>9. recent[0] = p
  BY <1>6, <1>8
<1> QED
  BY <1>9

\* The prices of t in some ledgers of the history.
SeenPrices(t, seen) == {recent[k][t] : k \in {j \in seen : recent[j] # NoPrice}}

\* The highest of them is at least every value of the history there.
LEMMA HighestPrice ==
    ASSUME TwapInv, PricesFit, NEW t \in Token,
           NEW seen, seen \subseteq 0..(MAX_TWAP_WINDOW - 1), 0 \in seen, recent[0] \in Prices
    PROVE  /\ Max(SeenPrices(t, seen)) \in Nat
           /\ \A k \in seen : Value(t)[k] <= Max(SeenPrices(t, seen))
<1> DEFINE T == SeenPrices(t, seen)
           W == MAX_TWAP_WINDOW
<1>1. W \in Nat \ {0} /\ HalfRange \in Nat \ {0} /\ HalfRange - 1 \in Nat
  BY OracleAssumption
<1>2. ASSUME NEW p \in Prices PROVE p[t] \in 0..(HalfRange - 1)
  <2>1. p[t] \in Nat
    BY PriceNat
  <2>2. p[t] * W < HalfRange
    BY DEF PricesFit
  <2> DEFINE x == p[t]
  <2>3. x * 1 <= x * W
    BY <1>1, <2>1, MulMonoTwo
  <2>4. x * 1 = x /\ x * W \in Nat
    BY <1>1, <2>1, MulNat
  <2> HIDE DEF W
  <2>5. x <= x * W /\ x * W < HalfRange
    BY <2>2, <2>3, <2>4
  <2> DEFINE y == x * W
  <2> HIDE DEF x, y
  <2>6. x \in 0..(HalfRange - 1)
    BY <1>1, <2>1, <2>4, <2>5 DEF x, y
  <2> QED
    BY <2>6 DEF x
<1>3. \A k \in seen : recent[k] # NoPrice => recent[k] \in Prices
  BY ValueNat
<1>4. T \subseteq 0..(HalfRange - 1)
  BY <1>2, <1>3 DEF SeenPrices
<1>5. T # {}
  <2>1. recent[0] # NoPrice
    BY PriceNat
  <2>2. recent[0][t] \in T
    BY <2>1 DEF SeenPrices
  <2> QED
    BY <2>2
<1>6. ASSUME NEW k \in seen, recent[k] # NoPrice PROVE Value(t)[k] \in T
  <2>1. Value(t)[k] = recent[k][t]
    BY <1>6, ValueNat
  <2> QED
    BY <1>6, <2>1 DEF SeenPrices
<1> DEFINE M == Max(T)
<1> HIDE DEF T
<1>7. M \in T /\ \A y \in T : M >= y
  BY <1>1, <1>4, <1>5, MaxOf
<1> HIDE DEF M
<1>8. M \in Nat
  BY <1>1, <1>4, <1>7
<1>9. ASSUME NEW k \in seen PROVE Value(t)[k] <= M
  <2>1. CASE recent[k] = NoPrice
    <3>1. Value(t)[k] = 0
      BY <2>1, ValueNat
    <3> QED
      BY <1>8, <3>1
  <2>2. CASE recent[k] # NoPrice
    <3>1. Value(t)[k] \in T
      BY <1>6, <2>2
    <3>2. Value(t)[k] \in Nat
      BY ValueNat
    <3> QED
      BY <1>7, <1>8, <3>1, <3>2
  <2> QED
    BY <2>1, <2>2
<1> QED
  BY <1>8, <1>9 DEF M, T

\* So the answer for t is the mean of the window's prices, or within the prices seen.
LEMMA MeanOf ==
    ASSUME TwapInv, Current, PricesFit, NEW t \in Token,
           NEW f, Running(f, Value(t), MAX_TWAP_WINDOW),
           NEW window \in 1..MAX_TWAP_WINDOW, NEW s \in 0..(ring.count - 2),
           sample(ring, s).ledger <= ledger - window,
           NEW seen, seen = 0..(ledger - sample(ring, s).ledger - 1),
           NEW total, Averaged(t, f, s, window, total)
    PROVE  IF \A k \in seen : recent[k] # NoPrice
           THEN Quotient(total, window) = PriceSum(t, window) \div window
           ELSE Quotient(total, window) \in 0..Max(SeenPrices(t, seen))
<1>1. window \in Nat \ {0} /\ window \in 0..MAX_TWAP_WINDOW /\ MAX_TWAP_WINDOW \in Nat
  BY OracleAssumption
<1>2. /\ total \in Nat
      /\ (\A k \in seen : recent[k] # NoPrice) => total = f[window]
      /\ \A p \in Nat : (\A k \in seen : Value(t)[k] <= p) => total <= p * window
  BY DEF Averaged
<1>3. Quotient(total, window) = total \div window
  <2>1. total >= 0
    BY <1>2
  <2> QED
    BY <2>1 DEF Quotient
<1>4. /\ ledger - sample(ring, s).ledger \in 0..MAX_TWAP_WINDOW
      /\ sample(ring, s).ledger \in Nat /\ ledger \in Nat
  <2>1. s \in 0..(ring.count - 1)
    <3>1. ring.count \in Nat
      BY RingFields DEF TwapInv, OracleInv
    <3> QED
      BY <3>1
  <2> QED
    BY <2>1, LiveFacts
<1>5. /\ seen \subseteq 0..(MAX_TWAP_WINDOW - 1) /\ 0 \in seen
      /\ \A k \in 0..(window - 1) : k \in seen
  <2> DEFINE x == sample(ring, s).ledger
  <2>1. x <= ledger - window /\ seen = 0..(ledger - x - 1)
    OBVIOUS
  <2> HIDE DEF x
  <2> QED
    BY <1>1, <1>4, <2>1 DEF x
<1>6. CASE \A k \in seen : recent[k] # NoPrice
  <2>1. PriceSum(t, window) = f[window]
    BY <1>1, <1>5, <1>6, SumIsPriceSum
  <2> QED
    BY <1>2, <1>3, <1>6, <2>1
<1>7. CASE ~ \A k \in seen : recent[k] # NoPrice
  <2> DEFINE M == Max(SeenPrices(t, seen))
             q == total \div window
  <2>1. recent[0] \in Prices
    BY NewestPriced
  <2>2. M \in Nat /\ \A k \in seen : Value(t)[k] <= M
    BY <1>5, <2>1, HighestPrice
  <2> HIDE DEF M
  <2>3. total <= M * window
    BY <1>2, <2>2
  <2>4. M * window = window * M
    BY <1>1, <2>2
  <2>5. q \in Nat /\ q <= M
    BY <1>1, <1>2, <2>2, <2>3, <2>4, DivFloor, DivBound
  <2> HIDE DEF q
  <2>6. q \in 0..M
    BY <2>2, <2>5
  <2> QED
    BY <1>3, <1>7, <2>6 DEF M, q
<1> QED
  BY <1>6, <1>7

\* The invariant makes every answer of consult_twap a mean.
LEMMA TwapMean ==
    ASSUME TwapInv, PricesFit
    PROVE  TwapIsMean
<1> SUFFICES ASSUME NEW window \in 1..MAX_TWAP_WINDOW, consult_twap(window) # Refused,
                    NEW t \in Token,
                    NEW seen, seen = 0..(ledger - StartSample(ledger - window).ledger - 1)
             PROVE  IF \A k \in seen : recent[k] # NoPrice
                    THEN consult_twap(window)[t] = PriceSum(t, window) \div window
                    ELSE consult_twap(window)[t] \in 0..Max(SeenPrices(t, seen))
  BY DEF TwapIsMean, SeenPrices
<1>1. PICK target : target = ledger - window
  OBVIOUS
<1>2. /\ Current /\ ledger \in Nat /\ window \in Nat \ {0} /\ window < ledger
      /\ sample(ring, 0).ledger <= target
      /\ consult_twap(window) =
            [u \in Token |->
                Quotient(Delta(Interpolated(StartSample(target), EndSample(target), target, u),
                               sample(ring, ring.count - 1).cumulative[u]),
                         window)]
  BY <1>1, Consulted
<1>3. target \in Nat /\ target < ledger
  BY <1>1, <1>2
<1>4. PICK s, e : Starts(target, s, e)
  BY <1>2, <1>3, StartFound
<1>5. PICK f : Running(f, Value(t), MAX_TWAP_WINDOW)
  BY ValueNat, RunningDefined
<1> DEFINE total == Delta(Interpolated(StartSample(target), EndSample(target), target, t),
                          sample(ring, ring.count - 1).cumulative[t])
<1>6. Averaged(t, f, s, window, total)
  BY <1>1, <1>2, <1>3, <1>4, <1>5, TotalAveraged
<1>7. consult_twap(window)[t] = Quotient(total, window)
  BY <1>2
<1>8. /\ s \in 0..(ring.count - 2) /\ sample(ring, s).ledger <= ledger - window
      /\ seen = 0..(ledger - sample(ring, s).ledger - 1)
  BY <1>1, <1>4 DEF Starts
<1> HIDE DEF total
<1>9. IF \A k \in seen : recent[k] # NoPrice
      THEN Quotient(total, window) = PriceSum(t, window) \div window
      ELSE Quotient(total, window) \in 0..Max(SeenPrices(t, seen))
  BY <1>2, <1>5, <1>6, <1>8, MeanOf
<1> QED
  BY <1>7, <1>9

-----------------------------------------------------------------------------

\* Every state keeps the ring and the history of prices together: consecutive samples
\* of update_cumulative_prices differ by the price between them times its ledgers,
\* modulo the range, and the ring reaches back no further than a window.
THEOREM TwapInvariance == Spec => []TwapInv
<1>1. TwapInv /\ [Next]_vars => TwapInv'
  BY TwapStep
<1> QED
  BY <1>1, TwapInit, PTL DEF Spec

\* While no price, held for the longest window, fills half the accumulators' range,
\* an average that consult_twap answers is the mean of the prices in its window if
\* every ledger since the starting sample had a price, whatever wraps, evictions,
\* expiries and interpolations it went through.  If some had none, it lies between
\* zero and the highest price seen, which may be below every price seen.
THEOREM TwapAlwaysMean ==
    ASSUME PricesFit
    PROVE  Spec => []TwapIsMean
<1>1. TwapInv => TwapIsMean
  BY TwapMean
<1> QED
  BY <1>1, TwapInvariance, PTL

=============================================================================
