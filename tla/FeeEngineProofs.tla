-------------------------- MODULE FeeEngineProofs --------------------------
(***************************************************************************)
(* What holds of the dynamic fee for every fee configuration, every price   *)
(* move, trade size and idle threshold.                                     *)
(***************************************************************************)
EXTENDS FeeEngine, LedgerArithmetic

(***************************************************************************)
(* The decay loop.                                                          *)
(***************************************************************************)

DecayStep(v, periods, g) ==
    [n \in 0..periods |-> IF n = 0 THEN v ELSE g[n - 1] \div Divisor]

\* The loop divides by at least 2.
LEMMA DivisorAtLeastTwo == Divisor \in Nat /\ Divisor >= 2
BY FeeAssumption DEF Divisor

\* For every number of periods there is a list of what is left after each.
LEMMA DecayDefined ==
    ASSUME NEW v \in Nat, NEW periods \in Nat
    PROVE  \E g : g = DecayStep(v, periods, g)
<1> DEFINE Runs(n, g) == /\ g \in [0..n -> Nat] /\ g[0] = v
                         /\ \A i \in 1..n : g[i] = g[i - 1] \div Divisor
           Bad == {n \in Nat : ~ \E g : Runs(n, g)}
<1>1. \E g : Runs(periods, g)
  <2>1. SUFFICES ASSUME Bad # {} PROVE FALSE
    OBVIOUS
  <2>2. PICK n \in Bad : \A m \in Bad : n <= m
    <3>1. Bad \subseteq Nat
      OBVIOUS
    <3> HIDE DEF Bad
    <3> QED
      BY <2>1, <3>1, LeastNat
  <2>3. CASE n = 0
    <3> DEFINE g == [i \in 0..0 |-> v]
    <3>1. Runs(0, g)
      OBVIOUS
    <3> QED
      BY <2>2, <2>3, <3>1
  <2>4. CASE n # 0
    <3>1. n \in Nat /\ n - 1 \in Nat
      BY <2>2, <2>4
    <3>2. n - 1 \notin Bad
      <4> HIDE DEF Bad
      <4>1. ~ (n <= n - 1)
        BY <3>1
      <4> QED
        BY <2>2, <4>1
    <3>3. PICK g : Runs(n - 1, g)
      BY <3>1, <3>2
    <3> DEFINE h == [i \in 0..n |-> IF i = n THEN g[n - 1] \div Divisor ELSE g[i]]
    <3>4. g[n - 1] \in Nat /\ g[n - 1] \div Divisor \in Nat
      BY <3>1, <3>3, DivisorAtLeastTwo, DivShrinks
    <3>5. \A i \in 0..n : i = n \/ i \in 0..(n - 1)
      BY <3>1
    <3>6. h \in [0..n -> Nat]
      BY <3>3, <3>4, <3>5
    <3>7. h[0] = v /\ \A i \in 0..(n - 1) : h[i] = g[i]
      BY <3>1, <3>3
    <3>8. \A i \in 1..n : h[i] = h[i - 1] \div Divisor
      <4>1. SUFFICES ASSUME NEW i \in 1..n PROVE h[i] = h[i - 1] \div Divisor
        OBVIOUS
      <4>2. i - 1 \in 0..(n - 1) /\ (i = n \/ i \in 1..(n - 1))
        BY <3>1
      <4>3. CASE i = n
        <5>1. h[n] = g[n - 1] \div Divisor
          BY <3>1
        <5> HIDE DEF h
        <5> QED
          BY <3>7, <4>2, <4>3, <5>1
      <4>4. CASE i \in 1..(n - 1)
        <5>1. i \in 0..(n - 1)
          BY <4>4
        <5> HIDE DEF h
        <5> QED
          BY <3>3, <3>7, <4>2, <4>4, <5>1
      <4> QED
        BY <4>2, <4>3, <4>4
    <3> HIDE DEF h
    <3>9. Runs(n, h)
      BY <3>6, <3>7, <3>8
    <3> QED
      BY <2>2, <3>9
  <2> QED
    BY <2>3, <2>4
<1>2. PICK g : Runs(periods, g)
  BY <1>1
<1>3. \A n \in 0..periods : g[n] = IF n = 0 THEN v ELSE g[n - 1] \div Divisor
  <2>1. \A n \in 0..periods : n = 0 \/ n \in 1..periods
    OBVIOUS
  <2> QED
    BY <1>2, <2>1
<1>4. g = DecayStep(v, periods, g)
  BY <1>2, <1>3 DEF DecayStep
<1> QED
  BY <1>4

\* The decay never raises the accumulator, and lowers one that is not 0 as soon as
\* one period has passed.
LEMMA DecayLowers ==
    ASSUME NEW v \in Nat, NEW periods \in Nat
    PROVE  /\ Decayed(v, periods) \in Nat /\ Decayed(v, periods) <= v
           /\ v > 0 /\ periods > 0 => Decayed(v, periods) < v
           /\ periods = 0 => Decayed(v, periods) = v
<1> DEFINE left == CHOOSE g : g = DecayStep(v, periods, g)
           Good(n) == /\ left[n] \in Nat /\ left[n] <= v
                      /\ v > 0 /\ n > 0 => left[n] < v
           Bad == {n \in 0..periods : ~ Good(n)}
<1>1. Decayed(v, periods) = left[periods]
  BY DEF Decayed, DecayStep
<1>2. left = DecayStep(v, periods, left)
  BY DecayDefined
<1> HIDE DEF left
<1>3. \A n \in 0..periods : left[n] = IF n = 0 THEN v ELSE left[n - 1] \div Divisor
  BY <1>2 DEF DecayStep
<1>4. Bad = {}
  <2>1. SUFFICES ASSUME Bad # {} PROVE FALSE
    OBVIOUS
  <2>2. PICK n \in Bad : \A m \in Bad : n <= m
    <3>1. Bad \subseteq Nat
      OBVIOUS
    <3> HIDE DEF Bad
    <3> QED
      BY <2>1, <3>1, LeastNat
  <2>3. CASE n = 0
    BY <1>3, <2>2, <2>3
  <2>4. CASE n # 0
    <3>1. n \in 0..periods /\ n - 1 \in 0..periods
      BY <2>2, <2>4
    <3>2. Good(n - 1)
      BY <2>2, <3>1
    <3>3. left[n] = left[n - 1] \div Divisor
      BY <1>3, <2>4, <3>1
    <3>4. left[n] \in Nat /\ left[n] <= left[n - 1] /\ (left[n - 1] > 0 => left[n] < left[n - 1])
      BY <3>2, <3>3, DivisorAtLeastTwo, DivShrinks
    <3>5. Good(n)
      BY <3>2, <3>4
    <3> QED
      BY <2>2, <3>5
  <2> QED
    BY <2>3, <2>4
<1>5. Good(periods) /\ left[0] = v
  BY <1>3, <1>4
<1> QED
  BY <1>1, <1>5

-----------------------------------------------------------------------------
(***************************************************************************)
(* The fee as a function of the accumulator.                                *)
(***************************************************************************)

\* The divisor between the accumulator's scale and basis points is positive.
LEMMA ScalePositive == ScaleToBps \in Nat \ {0}
<1> DEFINE q == Scale \div BPS
<1>1. Scale \in Nat /\ BPS \in Nat \ {0} /\ BPS <= Scale
  BY FeeAssumption
<1>2. q \in Nat /\ Scale < BPS * q + BPS
  BY <1>1, DivFloor
<1> HIDE DEF q
<1>3. q # 0
  BY <1>1, <1>2, SMT
<1> QED
  BY <1>2, <1>3 DEF ScaleToBps, q

\* The volatility part of the fee is a natural number that grows with the accumulator.
LEMMA VolBpsGrows ==
    ASSUME NEW v \in Nat, NEW w \in Nat, v <= w
    PROVE  VolBps(v) \in Nat /\ VolBps(w) \in Nat /\ VolBps(v) <= VolBps(w)
<1>1. RampUp \in Nat
  BY FeeAssumption
<1>2. v * RampUp \in Nat /\ w * RampUp \in Nat /\ v * RampUp <= w * RampUp
  BY <1>1, MulNat, MulMono
<1> QED
  BY <1>2, ScalePositive, DivFloor, DivMono DEF VolBps

\* The fee lies between the baseline and the maximum, and grows with the accumulator.
LEMMA FeeGrows ==
    ASSUME NEW v \in Nat, NEW w \in Nat, v <= w
    PROVE  /\ compute_fee_bps(v) \in Nat /\ compute_fee_bps(w) \in Nat
           /\ BaselineFee <= compute_fee_bps(v)
           /\ compute_fee_bps(v) <= compute_fee_bps(w)
<1>1. /\ BaselineFee \in Nat /\ MinFee \in Nat /\ MaxFee \in Nat
      /\ MinFee <= BaselineFee /\ BaselineFee <= MaxFee
  BY FeeAssumption
<1>2. VolBps(v) \in Nat /\ VolBps(w) \in Nat /\ VolBps(v) <= VolBps(w)
  BY VolBpsGrows
<1> QED
  BY <1>1, <1>2 DEF compute_fee_bps, Clamp

\* An accumulator that was capped asks for no more than the maximum fee.
LEMMA CappedNotPegged ==
    ASSUME NEW v \in Nat
    PROVE  /\ Capped(v) \in Nat
           /\ RampUp > 0 => BaselineFee + VolBps(Capped(v)) <= MaxFee
<1> DEFINE room == MaxFee - BaselineFee
           w == Capped(v)
<1>1. /\ RampUp \in Nat /\ BaselineFee \in Nat /\ MaxFee \in Nat
      /\ room \in Nat
  BY FeeAssumption
<1>2. CASE RampUp = 0
  BY <1>1, <1>2 DEF Capped
<1>3. CASE RampUp > 0
  <2>1. RampUp \in Nat \ {0} /\ room * ScaleToBps \in Nat
    BY <1>1, <1>3, ScalePositive, MulNat
  <2>2. max_vol \in Nat /\ RampUp * max_vol <= room * ScaleToBps
    BY <2>1, DivFloor DEF max_vol
  <2>3. w \in Nat /\ w <= max_vol
    BY <1>3, <2>2 DEF Capped
  <2> HIDE DEF w, room
  <2>4. w * RampUp \in Nat /\ w * RampUp <= max_vol * RampUp
    BY <1>1, <2>2, <2>3, MulNat, MulMono
  <2>5. w * RampUp <= ScaleToBps * room
    <3>1. max_vol * RampUp = RampUp * max_vol /\ room * ScaleToBps = ScaleToBps * room
      BY <1>1, <2>2, ScalePositive, SMT
    <3>2. max_vol * RampUp \in Nat /\ ScaleToBps * room \in Nat
      BY <1>1, <2>2, ScalePositive, MulNat
    <3> QED
      BY <2>1, <2>2, <2>4, <3>1, <3>2
  <2>6. VolBps(w) <= room
    BY <1>1, <2>4, <2>5, ScalePositive, DivBound DEF VolBps
  <2>7. VolBps(w) \in Nat
    BY <2>3, VolBpsGrows
  <2>8. BaselineFee + VolBps(w) <= MaxFee
    BY <1>1, <2>6, <2>7 DEF room
  <2> QED
    BY <2>3, <2>8 DEF w
<1> QED
  BY <1>1, <1>2, <1>3

\* An update of the accumulator is a natural number.
LEMMA EmaNat ==
    ASSUME NEW v \in Nat, NEW delta \in Nat, NEW size \in Nat
    PROVE  ema(v, delta, size) \in Nat
<1>1. /\ Scale \in Nat \ {0} /\ TotalReserve \in Nat \ {0}
      /\ EmaAlpha \in Nat /\ Scale - EmaAlpha \in Nat
  BY FeeAssumption
<1>2. weight(size) \in Nat
  BY <1>1, MulNat, DivFloor DEF weight
<1>3. observation(delta, size) \in Nat
  BY <1>1, <1>2, MulNat, DivFloor DEF observation
<1> DEFINE a == EmaAlpha * observation(delta, size)
           b == (Scale - EmaAlpha) * v
<1>4. a \in Nat /\ b \in Nat
  BY <1>1, <1>3, MulNat
<1> HIDE DEF a, b
<1>5. a + b \in Nat
  BY <1>4
<1>6. (a + b) \div Scale \in Nat
  BY <1>1, <1>5, DivFloor
<1> QED
  BY <1>6 DEF ema, a, b

-----------------------------------------------------------------------------
(***************************************************************************)
(* Every step.                                                              *)
(***************************************************************************)

FeeTypeOK ==
    /\ vol \in Nat /\ lastUpdate \in Nat /\ stale \in Nat
    /\ ledger \in Nat /\ charged \in Nat /\ touchedAt \in Nat

FeeInv == FeeTypeOK /\ NotPegged

\* What decay_stale_ema hands to a swap: the accumulator as it was, or that of an idle
\* pool, lowered.
LEMMA DecayResult ==
    ASSUME FeeTypeOK
    PROVE  LET d == decay_stale_ema
           IN  /\ d.vol \in Nat /\ d.vol <= vol /\ d.lastUpdate \in Nat
               /\ d.vol # vol => Stale
<1> DEFINE d == decay_stale_ema
           n == DecayPeriods(ledger - lastUpdate)
<1>1. vol \in Nat /\ lastUpdate \in Nat /\ ledger \in Nat /\ stale \in Nat
  BY DEF FeeTypeOK
<1>2. CASE Stale /\ vol > 0 /\ n > 0
  <2>1. d = [vol |-> Decayed(vol, n), lastUpdate |-> ledger]
    BY <1>2 DEF decay_stale_ema
  <2>2. n \in Nat
    <3>1. ledger - lastUpdate \in Nat
      BY <1>1, <1>2 DEF Stale
    <3>2. DecayBlocks \in Nat \ {0} /\ MaxDecayPeriods \in Nat
      BY FeeAssumption
    <3>3. (ledger - lastUpdate) \div DecayBlocks \in Nat
      BY <3>1, <3>2, DivFloor
    <3> QED
      BY <3>2, <3>3 DEF DecayPeriods
  <2>3. Decayed(vol, n) \in Nat /\ Decayed(vol, n) <= vol
    BY <1>1, <2>2, DecayLowers
  <2> HIDE DEF d, n
  <2>4. d.vol \in Nat /\ d.vol <= vol /\ d.lastUpdate \in Nat
    BY <1>1, <2>1, <2>3
  <2> QED
    BY <1>2, <2>4 DEF d
<1>3. CASE ~ (Stale /\ vol > 0 /\ n > 0)
  <2>1. d = [vol |-> vol, lastUpdate |-> lastUpdate]
    BY <1>3 DEF decay_stale_ema
  <2> HIDE DEF d, n
  <2>2. d.vol \in Nat /\ d.vol <= vol /\ d.lastUpdate \in Nat /\ d.vol = vol
    BY <1>1, <2>1
  <2> QED
    BY <2>2 DEF d
<1> QED
  BY <1>2, <1>3

\* What ChargedWithinQuote says of a swap.
WithinQuote ==
    /\ charged' \in BaselineFee..compute_fee_bps(vol)
    /\ charged' # compute_fee_bps(vol) => Stale

\* A swap keeps the invariant and charges at most what get_current_fee_bps quoted.
LEMMA SwapStep ==
    ASSUME FeeInv, NEW delta \in PriceDeltas, NEW size \in TradeSizes, swap(delta, size)
    PROVE  FeeInv' /\ WithinQuote
<1> DEFINE d == decay_stale_ema
<1>1. FeeTypeOK /\ NotPegged /\ delta \in Nat /\ size \in Nat
  BY FeeAssumption DEF FeeInv
<1>2. d.vol \in Nat /\ d.vol <= vol /\ d.lastUpdate \in Nat /\ (d.vol # vol => Stale)
  BY <1>1, DecayResult
<1>3. charged' = compute_fee_bps(d.vol) /\ stale' = stale /\ ledger' = ledger
  BY DEF swap
<1>4. \/ /\ vol' = Capped(ema(d.vol, delta, size))
         /\ lastUpdate' = timestamp /\ touchedAt' = ledger
      \/ /\ vol' = d.vol /\ lastUpdate' = d.lastUpdate
         /\ touchedAt' = ledger \/ touchedAt' = touchedAt
  BY DEF swap
<1> HIDE DEF d
<1>5. vol \in Nat /\ lastUpdate \in Nat /\ stale \in Nat /\ ledger \in Nat
      /\ charged \in Nat /\ touchedAt \in Nat
  BY <1>1 DEF FeeTypeOK
<1>6. timestamp \in Nat
  <2>1. Genesis \in Nat /\ CloseTime \in Nat
    BY FeeAssumption
  <2>2. ledger * CloseTime \in Nat
    BY <1>5, <2>1, MulNat
  <2> QED
    BY <2>1, <2>2 DEF timestamp
<1>7. vol' \in Nat /\ (RampUp > 0 => BaselineFee + VolBps(vol') <= MaxFee)
  <2>1. CASE vol' = Capped(ema(d.vol, delta, size))
    BY <1>1, <1>2, <2>1, EmaNat, CappedNotPegged
  <2>2. CASE vol' = d.vol
    <3>1. VolBps(d.vol) \in Nat /\ VolBps(vol) \in Nat /\ VolBps(d.vol) <= VolBps(vol)
      BY <1>2, <1>5, VolBpsGrows
    <3>2. BaselineFee \in Nat /\ MaxFee \in Nat
      BY FeeAssumption
    <3> QED
      BY <1>1, <1>2, <2>2, <3>1, <3>2 DEF NotPegged
  <2> QED
    BY <1>4, <2>1, <2>2
<1>8. /\ compute_fee_bps(d.vol) \in Nat /\ compute_fee_bps(vol) \in Nat
      /\ BaselineFee <= compute_fee_bps(d.vol)
      /\ compute_fee_bps(d.vol) <= compute_fee_bps(vol)
  BY <1>2, <1>5, FeeGrows
<1>9. WithinQuote
  <2>1. BaselineFee \in Nat
    BY FeeAssumption
  <2> QED
    BY <1>2, <1>3, <1>8, <2>1 DEF WithinQuote
<1>10. FeeTypeOK'
  BY <1>2, <1>3, <1>4, <1>5, <1>6, <1>7, <1>8 DEF FeeTypeOK
<1>11. NotPegged'
  BY <1>7 DEF NotPegged, VolBps
<1> QED
  BY <1>9, <1>10, <1>11 DEF FeeInv

\* The same of every step.
LEMMA FeeStep == FeeInv /\ [Next]_vars => FeeInv'
<1> SUFFICES ASSUME FeeInv, [Next]_vars PROVE FeeInv'
  OBVIOUS
<1>1. CASE \E delta \in PriceDeltas, size \in TradeSizes : swap(delta, size)
  BY <1>1, SwapStep
<1>2. CASE \E n \in StaleThresholds : set_stale_threshold(n)
  BY <1>2, FeeAssumption DEF set_stale_threshold, FeeInv, FeeTypeOK, NotPegged, VolBps
<1>3. CASE CloseLedger
  BY <1>3 DEF CloseLedger, FeeInv, FeeTypeOK, NotPegged, VolBps
<1>4. CASE UNCHANGED vars
  BY <1>4 DEF vars, FeeInv, FeeTypeOK, NotPegged, VolBps
<1> QED
  BY <1>1, <1>2, <1>3, <1>4 DEF Next

\* The types and NotPegged hold in every reachable state of every engine.
THEOREM FeeInvariance == Spec => []FeeInv
<1>1. Init => FeeInv
  <2> SUFFICES ASSUME Init PROVE FeeInv
    OBVIOUS
  <2>1. FeeTypeOK
    BY FeeAssumption DEF Init, FeeTypeOK
  <2>2. RampUp \in Nat /\ BaselineFee \in Nat /\ MaxFee \in Nat /\ BaselineFee <= MaxFee
    BY FeeAssumption
  <2>3. VolBps(0) = 0
    <3>1. 0 * RampUp = 0
      BY <2>2, SMT
    <3> QED
      BY <3>1, ScalePositive, DivFloor, DivBound DEF VolBps
  <2> QED
    BY <2>1, <2>2, <2>3 DEF Init, FeeInv, NotPegged
<1>2. FeeInv /\ [Next]_vars => FeeInv'
  BY FeeStep
<1> QED
  BY <1>1, <1>2, PTL DEF Spec

\* No sequence of price moves of any size pushes the accumulator past the value
\* that yields the maximum fee.
THEOREM NeverPegged == Spec => []NotPegged
<1>1. FeeInv => NotPegged
  BY DEF FeeInv
<1> QED
  BY <1>1, FeeInvariance, PTL

\* Every swap, one that charges what the swap before it charged included, charges no
\* more than was quoted before it, no less than the baseline, and what was quoted unless
\* the pool was idle, whatever the clocks are.
THEOREM AlwaysWithinQuote == Spec => ChargedWithinQuote
<1> DEFINE A == \A delta \in PriceDeltas, size \in TradeSizes :
                    swap(delta, size) =>
                        /\ charged' \in BaselineFee..compute_fee_bps(vol)
                        /\ charged' # compute_fee_bps(vol) => Stale
<1>1. FeeInv => A
  BY SwapStep DEF WithinQuote
<1>2. Spec => [][A]_vars
  BY <1>1, FeeInvariance, PTL DEF Spec
<1> QED
  BY <1>2 DEF ChargedWithinQuote

=============================================================================
