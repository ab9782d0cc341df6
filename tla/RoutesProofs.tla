---------------------------- MODULE RoutesProofs ----------------------------
(***************************************************************************)
(* What holds of the router's swaps for every set of assets and pools, all  *)
(* reserves, fees and amounts, and every list of hubs.                      *)
(***************************************************************************)
EXTENDS Routes, LedgerArithmetic, SequenceTheorems

(***************************************************************************)
(* The integer square root.                                                 *)
(***************************************************************************)

\* A larger number has a larger square.
LEMMA SquareMono ==
    ASSUME NEW a \in Nat, NEW b \in Nat
    PROVE  a * a <= b * b <=> a <= b
<1>1. a <= b => a * a <= b * b
  BY MulMonoTwo
<1>2. CASE b < a
  <2>1. b * b <= b * a /\ b * a < a * a
    BY <1>2, SMT
  <2>2. b * b \in Nat /\ b * a \in Nat /\ a * a \in Nat
    BY MulNat
  <2> QED
    BY <1>2, <2>1, <2>2
<1> QED
  BY <1>1, <1>2

\* Every number has a root.
LEMMA RootExists ==
    ASSUME NEW v \in Nat
    PROVE  \E r \in 0..v : r * r <= v /\ v < (r + 1) * (r + 1)
<1> DEFINE Over == {r \in Nat : v < (r + 1) * (r + 1)}
<1>1. v \in Over
  <2>1. (v + 1) * (v + 1) >= 1 * (v + 1)
    BY SMT
  <2>2. (v + 1) * (v + 1) \in Nat
    BY MulNat
  <2> QED
    BY <2>1, <2>2
<1>2. PICK r \in Over : \A q \in Over : r <= q
  <2>1. Over \subseteq Nat
    OBVIOUS
  <2> HIDE DEF Over
  <2> QED
    BY <1>1, <2>1, LeastNat
<1>3. r \in Nat /\ v < (r + 1) * (r + 1) /\ r <= v
  BY <1>1, <1>2
<1>4. r * r <= v
  <2>1. CASE r = 0
    BY <2>1
  <2>2. CASE r # 0
    <3>1. r - 1 \in Nat /\ ~ (r <= r - 1)
      BY <1>3, <2>2
    <3>2. r - 1 \notin Over
      <4> HIDE DEF Over
      <4> QED
        BY <1>2, <3>1
    <3>3. ~ (v < ((r - 1) + 1) * ((r - 1) + 1))
      BY <3>1, <3>2
    <3>4. (r - 1) + 1 = r /\ r * r \in Nat
      BY <1>3, MulNat
    <3> QED
      BY <3>3, <3>4
  <2> QED
    BY <2>1, <2>2
<1> QED
  BY <1>3, <1>4

\* It is the one that sqrt denotes.
LEMMA SqrtIsRoot ==
    ASSUME NEW v \in Nat
    PROVE  /\ sqrt(v) \in 0..v
           /\ sqrt(v) * sqrt(v) <= v
           /\ v < (sqrt(v) + 1) * (sqrt(v) + 1)
BY RootExists DEF sqrt

-----------------------------------------------------------------------------
(***************************************************************************)
(* Newton's iteration for the root r of v.  From above it never passes      *)
(* below r, and it only stops at r.                                         *)
(***************************************************************************)

Average(v, x) == (x + v \div x) \div 2

\* One step from x.
LEMMA NewtonStep ==
    ASSUME NEW v \in Nat \ {0}, NEW r \in Nat, r * r <= v, v < (r + 1) * (r + 1),
           NEW x \in 1..v
    PROVE  /\ Average(v, x) \in Nat
           /\ Average(v, x) < x => Average(v, x) \in 1..v
           /\ x >= r => Average(v, x) >= r
           /\ x > r => Average(v, x) < x
           /\ x <= r => Average(v, x) >= x
<1> DEFINE q == v \div x
           y == (x + q) \div 2
<1>1. q \in Nat /\ x * q <= v /\ v < x * q + x
  BY DivFloor
<1>2. r >= 1
  <2>1. CASE r = 0
    BY <2>1
  <2> QED
    BY <2>1
<1> HIDE DEF q
<1>3. y \in Nat /\ 2 * y <= x + q /\ x + q < 2 * y + 2
  BY <1>1, DivFloor
<1>4. Average(v, x) = y
  BY DEF Average, q
<1> HIDE DEF y
<1>5. q >= 1
  <2>1. CASE q = 0
    BY <1>1, <2>1
  <2> QED
    BY <1>1, <2>1
<1>6. ASSUME NEW d \in Int, x * d <= v PROVE d <= q
  <2>1. CASE d > q
    <3>1. (q + 1) * x <= d * x
      BY <1>1, <2>1, MulMono
    <3>2. (q + 1) * x = x * q + x /\ d * x = x * d /\ x * q \in Int
      BY <1>1, SMT
    <3> QED
      BY <1>1, <1>6, <3>1, <3>2
  <2> QED
    BY <1>1, <1>6, <2>1
<1>7. x >= r => y >= r
  <2>1. x * (2 * r - x) <= r * r
    <3>1. r * r - x * (2 * r - x) = (x - r) * (x - r)
      BY SMT
    <3>2. (x - r) * (x - r) >= 0
      BY SMT
    <3>3. r * r \in Int /\ x * (2 * r - x) \in Int
      BY SMT
    <3> QED
      BY <3>1, <3>2, <3>3
  <2>2. r * r \in Int /\ x * (2 * r - x) \in Int
    BY SMT
  <2>3. 2 * r - x <= q
    BY <1>6, <2>1, <2>2
  <2> QED
    BY <1>1, <1>3, <2>3
<1>8. x > r => y < x
  <2>1. SUFFICES ASSUME x > r PROVE y < x
    OBVIOUS
  <2>2. (r + 1) * (r + 1) <= x * x
    BY <2>1, MulMonoTwo
  <2>3. q < x
    <3>1. CASE q >= x
      <4>1. x * x <= q * x
        BY <1>1, <3>1, MulMono
      <4>2. q * x = x * q /\ x * x \in Int /\ x * q \in Int /\ (r + 1) * (r + 1) \in Int
        BY <1>1, SMT
      <4> QED
        BY <1>1, <2>2, <4>1, <4>2
    <3> QED
      BY <1>1, <3>1
  <2> QED
    BY <1>1, <1>3, <2>3
<1>9. x <= r => y >= x
  <2>1. SUFFICES ASSUME x <= r PROVE y >= x
    OBVIOUS
  <2>2. x * r <= r * r /\ x * r \in Int /\ r * r \in Int
    BY <2>1, MulMono, SMT
  <2>3. r <= q
    BY <1>6, <2>2
  <2> QED
    BY <1>1, <1>3, <2>1, <2>3
<1>10. y < x => y \in 1..v
  BY <1>2, <1>3, <1>7, <1>9
<1> QED
  BY <1>3, <1>4, <1>7, <1>8, <1>9, <1>10

NewtonLoop(v, f) ==
    [x \in 1..v |-> IF Average(v, x) < x THEN f[Average(v, x)] ELSE x]

\* The loop of math::sqrt ends at the root of every number.
LEMMA NewtonEndsAtRoot ==
    ASSUME NEW v \in Nat
    PROVE  newton_sqrt(v) = sqrt(v)
<1> DEFINE r == sqrt(v)
           end == [x \in 1..v |-> IF x >= r THEN r ELSE x]
           from == CHOOSE f : f = NewtonLoop(v, f)
<1>1. r \in 0..v /\ r * r <= v /\ v < (r + 1) * (r + 1)
  BY SqrtIsRoot
<1>2. newton_sqrt(v) = IF v = 0 THEN 0 ELSE from[v]
  BY DEF newton_sqrt, NewtonLoop, Average
<1>3. CASE v = 0
  BY <1>1, <1>2, <1>3
<1>4. CASE v # 0
  <2>1. \A x \in 1..v : /\ Average(v, x) \in Nat
                        /\ Average(v, x) < x => Average(v, x) \in 1..v
                        /\ x >= r => Average(v, x) >= r
                        /\ x > r => Average(v, x) < x
                        /\ x <= r => Average(v, x) >= x
    <3> HIDE DEF r
    <3>1. v \in Nat \ {0} /\ r \in Nat
      BY <1>1, <1>4
    <3> QED
      BY <1>1, <3>1, NewtonStep
  <2> HIDE DEF r
  <2>2. ASSUME NEW x \in 1..v
        PROVE  end[x] = IF Average(v, x) < x THEN end[Average(v, x)] ELSE x
    <3>1. r \in Nat /\ x \in Nat
      BY <1>1
    <3>2. CASE x <= r
      BY <2>1, <3>1, <3>2
    <3>3. CASE x > r
      <4>1. Average(v, x) < x /\ Average(v, x) \in 1..v /\ Average(v, x) >= r
        BY <2>1, <3>1, <3>3
      <4> QED
        BY <3>1, <3>3, <4>1
    <3> QED
      BY <3>1, <3>2, <3>3
  <2>3. end = NewtonLoop(v, end)
    <3> HIDE DEF end
    <3>1. DOMAIN end = 1..v /\ end = [x \in 1..v |-> end[x]]
      BY DEF end
    <3> QED
      BY <2>2, <3>1 DEF NewtonLoop
  <2>4. from = NewtonLoop(v, from)
    <3> HIDE DEF end
    <3> QED
      BY <2>3
  <2> HIDE DEF from
  <2>5. \A x \in 1..v : from[x] = IF Average(v, x) < x THEN from[Average(v, x)] ELSE x
    BY <2>4 DEF NewtonLoop
  <2> DEFINE Bad == {x \in 1..v : from[x] # end[x]}
  <2>6. Bad = {}
    <3>1. SUFFICES ASSUME Bad # {} PROVE FALSE
      OBVIOUS
    <3>2. PICK x \in Bad : \A z \in Bad : x <= z
      <4>1. Bad \subseteq Nat
        OBVIOUS
      <4> HIDE DEF Bad
      <4> QED
        BY <3>1, <4>1, LeastNat
    <3> HIDE DEF end
    <3>3. x \in 1..v /\ from[x] # end[x]
      BY <3>2
    <3>4. CASE Average(v, x) < x
      <4>1. Average(v, x) \in 1..v /\ ~ (x <= Average(v, x))
        BY <2>1, <3>3, <3>4
      <4>2. Average(v, x) \notin Bad
        <5> HIDE DEF Bad
        <5> QED
          BY <3>2, <4>1
      <4> QED
        BY <2>2, <2>5, <3>3, <3>4, <4>1, <4>2
    <3>5. CASE ~ (Average(v, x) < x)
      BY <2>2, <2>5, <3>3, <3>5
    <3> QED
      BY <3>4, <3>5
  <2>7. v \in 1..v /\ v >= r
    BY <1>1, <1>4
  <2>8. end[v] = r
    BY <2>7
  <2>9. from[v] = r
    <3> HIDE DEF end
    <3> QED
      BY <2>6, <2>7, <2>8
  <2> QED
    BY <1>2, <1>4, <2>9 DEF r
<1> QED
  BY <1>3, <1>4

-----------------------------------------------------------------------------
(***************************************************************************)
(* The split of a one-token deposit.                                        *)
(***************************************************************************)

\* The square that completes f x x + c x.
LEMMA CompletedSquare ==
    ASSUME NEW f \in Nat, NEW c \in Nat, NEW x \in Nat
    PROVE  (2 * f * x + c) * (2 * f * x + c) = (4 * f) * (f * x * x + c * x) + c * c
BY SMT

\* The positive root of f x x + c x = m, rounded down, is computed from the root of
\* the discriminant, rounded down.
LEMMA QuadraticRoot ==
    ASSUME NEW f \in Nat \ {0}, NEW c \in Nat, NEW m \in Nat,
           NEW D \in Nat, D = c * c + (4 * f) * m,
           NEW x, x = (sqrt(D) - c) \div (2 * f)
    PROVE  x \in Nat /\ f * x * x + c * x <= m /\ m < f * (x + 1) * (x + 1) + c * (x + 1)
<1> DEFINE R == sqrt(D)
           y == x + 1
<1>1. R \in Nat /\ R * R <= D /\ D < (R + 1) * (R + 1)
  BY SqrtIsRoot
<1>2. x = (R - c) \div (2 * f)
  OBVIOUS
<1> HIDE DEF R
<1>3. /\ c * c \in Nat /\ (4 * f) * m \in Nat /\ 4 * f \in Nat \ {0} /\ 2 * f \in Nat \ {0}
      /\ R * R \in Nat /\ (R + 1) * (R + 1) \in Nat
  BY <1>1, MulNat
<1>4. c <= R
  <2>1. CASE R + 1 <= c
    <3>1. (R + 1) * (R + 1) <= c * c
      BY <1>1, <2>1, MulMonoTwo
    <3> QED
      BY <1>1, <1>3, <3>1
  <2> QED
    BY <1>1, <2>1
<1>5. x \in Nat /\ (2 * f) * x <= R - c /\ R - c < (2 * f) * x + 2 * f
  <2> DEFINE z == R - c
             d == 2 * f
  <2>1. z \in Nat /\ d \in Nat \ {0} /\ x = z \div d
    BY <1>1, <1>2, <1>3, <1>4
  <2> HIDE DEF z, d
  <2>2. x \in Nat /\ d * x <= z /\ z < d * x + d
    BY <2>1, DivFloor
  <2> QED
    BY <2>2 DEF z, d
<1>6. y \in Nat
  BY <1>5
<1>7. 2 * f * x \in Nat /\ 2 * f * y \in Nat /\ 2 * f * y = (2 * f) * x + 2 * f
  BY <1>5, SMT
<1>8. 2 * f * x + c <= R /\ R + 1 <= 2 * f * y + c
  BY <1>1, <1>3, <1>5, <1>7, SMT
<1> HIDE DEF y
<1>9. /\ (2 * f * x + c) * (2 * f * x + c) <= R * R
      /\ (R + 1) * (R + 1) <= (2 * f * y + c) * (2 * f * y + c)
  <2> DEFINE u == 2 * f * x + c
             w == 2 * f * y + c
  <2>1. u \in Nat /\ w \in Nat /\ u <= R /\ R + 1 <= w /\ R + 1 \in Nat
    BY <1>1, <1>7, <1>8
  <2> HIDE DEF u, w
  <2>2. u * u <= R * R /\ (R + 1) * (R + 1) <= w * w
    BY <1>1, <2>1, MulMonoTwo
  <2> QED
    BY <2>2 DEF u, w
<1> DEFINE lower == f * x * x + c * x
           upper == f * y * y + c * y
<1>10. lower \in Nat /\ upper \in Nat
  BY <1>5, <1>6, MulNat
<1>11. /\ (2 * f * x + c) * (2 * f * x + c) = (4 * f) * lower + c * c
       /\ (2 * f * y + c) * (2 * f * y + c) = (4 * f) * upper + c * c
  BY <1>5, <1>6, CompletedSquare
<1> HIDE DEF lower, upper
<1>12. (4 * f) * lower \in Nat /\ (4 * f) * upper \in Nat
  BY <1>3, <1>10, MulNat
<1>13. (4 * f) * lower <= (4 * f) * m /\ (4 * f) * m < (4 * f) * upper
  BY <1>1, <1>3, <1>9, <1>11, <1>12
<1>14. lower <= m
  <2>1. lower * (4 * f) <= m * (4 * f)
    BY <1>3, <1>10, <1>13, SMT
  <2> QED
    BY <1>3, <1>10, <2>1, MulCancel
<1>15. m < upper
  <2>1. CASE upper <= m
    <3>1. upper * (4 * f) <= m * (4 * f)
      BY <1>3, <1>10, <2>1, MulMono
    <3>2. upper * (4 * f) = (4 * f) * upper /\ m * (4 * f) = (4 * f) * m
      BY <1>10, SMT
    <3> QED
      BY <1>3, <1>12, <1>13, <3>1, <3>2
  <2> QED
    BY <1>10, <2>1
<1> QED
  BY <1>5, <1>14, <1>15 DEF lower, upper, y

\* compute_swap_in_for_single_side is that root for the quadratic of a pool.
LEMMA SplitIsRoot ==
    ASSUME NEW r \in Nat, NEW s \in Nat, NEW fee_bps \in 0..(BPS - 1)
    PROVE  LET f == fee_factor(fee_bps)
               x == compute_swap_in_for_single_side(r, s, fee_bps)
           IN  /\ f * x * x + r * (BPS + f) * x <= BPS * r * s
               /\ BPS * r * s < f * (x + 1) * (x + 1) + r * (BPS + f) * (x + 1)
<1> USE MathAssumption
<1> DEFINE f == fee_factor(fee_bps)
           b == BPS + f
           c == r * b
           m == BPS * r * s
           D == r * (r * b * b + 4 * f * s * BPS)
           x == compute_swap_in_for_single_side(r, s, fee_bps)
<1>1. f \in Nat \ {0}
  BY DEF fee_factor
<1>2. x = (sqrt(D) - c) \div (2 * f)
  BY DEF compute_swap_in_for_single_side
<1> HIDE DEF f, x
<1>3. b \in Nat
  BY <1>1
<1> HIDE DEF b
<1>4. c \in Nat /\ m \in Nat
  BY <1>3, MulNat
<1>5. D = c * c + (4 * f) * m
  BY <1>1, <1>3, SMT
<1>6. c * c \in Nat /\ (4 * f) * m \in Nat
  BY <1>1, <1>4, MulNat
<1> HIDE DEF D, m, c
<1>7. D \in Nat
  BY <1>5, <1>6
<1>8. /\ f * x * x + c * x <= m
      /\ m < f * (x + 1) * (x + 1) + c * (x + 1)
  BY <1>1, <1>2, <1>4, <1>5, <1>7, QuadraticRoot
<1> QED
  BY <1>8 DEF f, x, c, m, b

-----------------------------------------------------------------------------
(***************************************************************************)
(* Quotes.                                                                  *)
(***************************************************************************)

\* What an input a of a pool with reserves R and S covers at a fee of B - f.
Covers(a, o, R, S, f) == R * o * BPS <= a * (f * (S - o))

\* An exact-input quote is the largest output that the input covers.
LEMMA OutputCovered ==
    ASSUME NEW a \in Nat, NEW o \in Nat, NEW R \in Nat \ {0}, NEW S \in Nat,
           NEW fee_bps \in 0..(BPS - 1)
    PROVE  /\ quote_output_amount(a, R, S, fee_bps) \in Nat
           /\ o <= quote_output_amount(a, R, S, fee_bps)
                 <=> Covers(a, o, R, S, fee_factor(fee_bps))
<1> USE MathAssumption
<1> DEFINE f == fee_factor(fee_bps)
           n == a * f * S
           d == R * BPS + a * f
           q == quote_output_amount(a, R, S, fee_bps)
<1>1. f \in Nat \ {0}
  BY DEF fee_factor
<1>2. q = n \div d
  BY DEF quote_output_amount
<1> HIDE DEF f, q
<1>3. R * BPS \in Nat \ {0} /\ a * f \in Nat
  BY <1>1, MulNat, SMT
<1>4. n \in Nat /\ d \in Nat \ {0}
  BY <1>3, MulNat
<1>5. n - d * o = a * (f * (S - o)) - R * o * BPS
  BY <1>1, SMT
<1>6. a * (f * (S - o)) \in Int /\ R * o * BPS \in Int
  BY <1>1, SMT
<1> HIDE DEF n, d
<1>7. q \in Nat /\ d * q <= n /\ n < d * q + d
  BY <1>2, <1>4, DivFloor
<1>8. d * o \in Int /\ d * q \in Int
  BY <1>4, <1>7, SMT
<1>9. o <= q <=> d * o <= n
  <2>1. CASE o <= q
    <3>1. o * d <= q * d
      BY <1>4, <1>7, <2>1, MulMono
    <3>2. o * d = d * o /\ q * d = d * q
      BY <1>4, <1>7, SMT
    <3> QED
      BY <1>4, <1>7, <1>8, <2>1, <3>1, <3>2
  <2>2. CASE o > q
    <3>1. (q + 1) * d <= o * d
      BY <1>4, <1>7, <2>2, MulMono
    <3>2. o * d = d * o /\ (q + 1) * d = d * q + d
      BY <1>4, <1>7, SMT
    <3> QED
      BY <1>4, <1>7, <1>8, <2>2, <3>1, <3>2
  <2> QED
    BY <1>7, <2>1, <2>2
<1>10. d * o <= n <=> Covers(a, o, R, S, f)
  BY <1>4, <1>5, <1>6, <1>8 DEF Covers
<1> QED
  BY <1>7, <1>9, <1>10 DEF f, q

\* An exact-output quote is the least input that covers the output.
LEMMA InputCovers ==
    ASSUME NEW a \in Nat, NEW S \in Nat, NEW o \in 1..(S - 1), NEW R \in Nat \ {0},
           NEW fee_bps \in 0..(BPS - 1)
    PROVE  /\ quote_input_amount(o, R, S, fee_bps) \in Nat \ {0}
           /\ quote_input_amount(o, R, S, fee_bps) <= a
                 <=> Covers(a, o, R, S, fee_factor(fee_bps))
<1> USE MathAssumption
<1> DEFINE f == fee_factor(fee_bps)
           n == R * o * BPS
           d == (S - o) * f
           q == n \div d
           u == IF n % d # 0 THEN 1 ELSE 0
           i == quote_input_amount(o, R, S, fee_bps)
<1>1. f \in Nat \ {0}
  BY DEF fee_factor
<1>2. i = q + u
  BY DEF quote_input_amount
<1> HIDE DEF f, i
<1>3. n \in Nat \ {0}
  <2>1. R * o \in Nat \ {0}
    BY SMT
  <2> QED
    BY <2>1, SMT
<1>4. d \in Nat \ {0}
  <2>1. S - o \in Nat \ {0}
    OBVIOUS
  <2> QED
    BY <1>1, <2>1, SMT
<1>5. a * (f * (S - o)) = d * a
  BY <1>1, SMT
<1> HIDE DEF n, d
<1>6. /\ q \in Nat /\ d * q <= n /\ n < d * q + d
      /\ n % d = n - d * q
  BY <1>3, <1>4, DivFloor, SMT
<1>7. u \in {0, 1} /\ (u = 0 <=> n = d * q)
  BY <1>3, <1>4, <1>6
<1> HIDE DEF q, u
<1>8. /\ d * q \in Int /\ d * a \in Int
      /\ a * d = d * a /\ q * d = d * q /\ (q + 1) * d = d * q + d
  BY <1>4, <1>6, SMT
<1>9. q <= a <=> d * q <= d * a
  <2>1. q <= a => q * d <= a * d
    BY <1>4, <1>6, MulMono
  <2>2. q * d <= a * d => q <= a
    BY <1>4, <1>6, MulCancel
  <2> QED
    BY <1>8, <2>1, <2>2
<1>10. q + 1 <= a <=> d * q + d <= d * a
  <2>1. q + 1 <= a => (q + 1) * d <= a * d
    BY <1>4, <1>6, MulMono
  <2>2. (q + 1) * d <= a * d => q + 1 <= a
    BY <1>4, <1>6, MulCancel
  <2> QED
    BY <1>8, <2>1, <2>2
<1>11. q + u <= a <=> n <= d * a
  <2>1. CASE u = 0
    BY <1>6, <1>7, <1>9, <2>1
  <2>2. CASE u = 1
    <3>1. n # d * q
      BY <1>7, <2>2
    <3>2. n <= d * a => q + 1 <= a
      <4>1. CASE a <= q
        <5>1. a * d <= q * d
          BY <1>4, <1>6, <4>1, MulMono
        <5> QED
          BY <1>3, <1>6, <1>8, <3>1, <5>1
      <4> QED
        BY <1>6, <4>1
    <3>3. q + 1 <= a => n <= d * a
      BY <1>3, <1>4, <1>6, <1>8, <1>10
    <3> QED
      BY <2>2, <3>2, <3>3
  <2> QED
    BY <1>7, <2>1, <2>2
<1>12. q + u \in Nat \ {0}
  <2>1. CASE q = 0 /\ u = 0
    <3>1. d * 0 = 0
      BY <1>4
    <3> QED
      BY <1>3, <1>7, <2>1, <3>1
  <2> QED
    BY <1>6, <1>7, <2>1
<1>13. n <= d * a <=> Covers(a, o, R, S, f)
  BY <1>5 DEF Covers, n
<1> QED
  BY <1>2, <1>11, <1>12, <1>13 DEF f, i

-----------------------------------------------------------------------------
(***************************************************************************)
(* Pools and paths.                                                         *)
(***************************************************************************)

\* The inductive invariant of the router and its pools.
RoutesInv ==
    /\ pool \in [Pools -> [Token -> Nat]] /\ res \in [Pools -> [Token -> Nat]]
    /\ fee \in [Pools -> Fees] /\ held \in [Asset -> Nat] /\ hubs \in Seq(Asset)

\* The two assets of a pool are on different sides of it.
LEMMA PoolSides ==
    ASSUME NEW a, NEW b, {a, b} \in Pools
    PROVE  /\ a \in Asset /\ b \in Asset /\ a # b
           /\ Side(a, b) \in Token /\ Side(b, a) \in Token /\ Side(a, b) # Side(b, a)
           /\ \A t \in Token : t = Side(a, b) \/ t = Side(b, a)
<1>1. {a, b} \subseteq Asset /\ Cardinality({a, b}) = 2 /\ Asset \subseteq Nat
  BY RoutesAssumption
<1>2. a # b
  <2>1. CASE a = b
    <3>1. {a, b} = {a}
      BY <2>1
    <3>2. Cardinality({a}) = 1
      BY FS_Singleton
    <3> QED
      BY <1>1, <3>1, <3>2
  <2> QED
    BY <2>1
<1>3. a \in Nat /\ b \in Nat /\ a \in Asset /\ b \in Asset
  BY <1>1
<1>4. CASE a < b
  <2>1. Side(a, b) = "A" /\ Side(b, a) = "B"
    BY <1>3, <1>4 DEF Side
  <2> QED
    BY <1>2, <1>3, <2>1 DEF Token
<1>5. CASE b < a
  <2>1. Side(a, b) = "B" /\ Side(b, a) = "A"
    BY <1>3, <1>5 DEF Side
  <2> QED
    BY <1>2, <1>3, <2>1 DEF Token
<1> QED
  BY <1>2, <1>3, <1>4, <1>5

\* The product of the reserves does not depend on which asset is named first.
LEMMA ProductOfSides ==
    ASSUME NEW a, NEW b, {a, b} \in Pools, NEW r \in [Token -> Nat]
    PROVE  K(r) = r[Side(a, b)] * r[Side(b, a)]
<1>1. /\ Side(a, b) \in {"A", "B"} /\ Side(b, a) \in {"A", "B"} /\ Side(a, b) # Side(b, a)
  BY PoolSides DEF Token
<1>2. r["A"] \in Nat /\ r["B"] \in Nat
  BY DEF Token
<1>3. r["A"] * r["B"] = r["B"] * r["A"]
  BY <1>2
<1> QED
  BY <1>1, <1>3 DEF K

\* A path has one to three hops, each over a pool.
LEMMA PathShape ==
    ASSUME NEW path \in Paths
    PROVE  /\ path \in Seq(Asset) /\ Len(path) \in 2..4 /\ Hops(path) \in 1..3
           /\ path \in [1..Len(path) -> Asset]
           /\ \A i \in 1..Hops(path) : {path[i], path[i + 1]} \in Pools
<1>1. PICK n \in 2..4 : path \in [1..n -> Asset]
  BY DEF Paths
<1>2. path \in Seq(Asset)
  BY <1>1, SeqDef
<1>3. DOMAIN path = 1..Len(path) /\ Len(path) \in Nat
  BY <1>2, LenProperties
<1>4. Len(path) = n
  BY <1>1, <1>3
<1>5. \A i \in 1..(Len(path) - 1) : {path[i], path[i + 1]} \in Pools
  BY DEF Paths
<1>6. Hops(path) = Len(path) - 1 /\ Hops(path) \in 1..3
  BY <1>4 DEF Hops
<1> QED
  BY <1>1, <1>2, <1>4, <1>5, <1>6

\* and conversely.
LEMMA PathOverPools ==
    ASSUME NEW path \in Seq(Asset), Len(path) \in 2..4,
           \A i \in 1..Hops(path) : {path[i], path[i + 1]} \in Pools
    PROVE  path \in Paths
<1>1. path \in [1..Len(path) -> Asset]
  BY LenProperties
<1> QED
  BY <1>1 DEF Paths, Hops

-----------------------------------------------------------------------------
(***************************************************************************)
(* What a hop quotes.                                                       *)
(***************************************************************************)

\* Reserves and fee of the pool that takes a for b.
In(a, b) == res[{a, b}][Side(a, b)]
Out(a, b) == res[{a, b}][Side(b, a)]
Kept(a, b) == fee_factor(fee[{a, b}])

\* The input x covers the output y of the pool.
Pays(a, b, x, y) == Covers(x, y, In(a, b), Out(a, b), Kept(a, b))

\* A pool that can be quoted has reserves on both sides.
LEMMA QuotablePool ==
    ASSUME RoutesInv, NEW a, NEW b, Quotable(a, b)
    PROVE  /\ {a, b} \in Pools /\ In(a, b) \in Nat \ {0} /\ Out(a, b) \in Nat \ {0}
           /\ fee[{a, b}] \in 0..(BPS - 1) /\ Kept(a, b) \in Nat \ {0}
<1> USE MathAssumption
<1>1. {a, b} \in Pools /\ res[{a, b}] \in [Token -> Nat] /\ fee[{a, b}] \in 0..(BPS - 1)
  BY RoutesAssumption DEF Quotable, RoutesInv
<1>2. In(a, b) \in Nat /\ Out(a, b) \in Nat
  BY <1>1, PoolSides DEF In, Out
<1>3. In(a, b) * Out(a, b) > 0
  BY <1>1, ProductOfSides DEF Quotable, In, Out
<1>4. In(a, b) # 0 /\ Out(a, b) # 0
  BY <1>2, <1>3
<1> QED
  BY <1>1, <1>2, <1>4 DEF Kept, fee_factor

\* An output that is covered by some input is less than the reserve.
LEMMA PaidBelowReserve ==
    ASSUME RoutesInv, NEW a, NEW b, Quotable(a, b),
           NEW x \in Nat, NEW y \in Nat \ {0}, Pays(a, b, x, y)
    PROVE  y < Out(a, b)
<1> USE MathAssumption
<1> DEFINE R == In(a, b)
           S == Out(a, b)
           f == Kept(a, b)
<1>1. R \in Nat \ {0} /\ S \in Nat /\ f \in Nat
  BY QuotablePool
<1>2. R * y * BPS <= x * (f * (S - y))
  BY DEF Pays, Covers
<1> HIDE DEF R, S, f
<1>3. R * y * BPS > 0
  <2>1. R * y \in Nat \ {0}
    BY <1>1, SMT
  <2> QED
    BY <2>1, SMT
<1>4. CASE S <= y
  <2>1. y - S \in Nat
    BY <1>1, <1>4
  <2>2. x * (f * (y - S)) \in Nat
    BY <1>1, <2>1, MulNat
  <2>3. x * (f * (S - y)) = -(x * (f * (y - S)))
    BY <1>1, SMT
  <2>4. R * y * BPS \in Int
    BY <1>1, SMT
  <2> QED
    BY <1>2, <1>3, <2>2, <2>3, <2>4
<1> QED
  BY <1>1, <1>4 DEF S

\* An exact-input quote: the largest output that is paid for.
LEMMA AmountOut ==
    ASSUME RoutesInv, NEW a, NEW b, NEW x \in Int
    PROVE  /\ get_amount_out(a, b, x) \in Int /\ get_amount_out(a, b, x) >= Refused
           /\ get_amount_out(a, b, x) # Refused =>
                 /\ Quotable(a, b) /\ x \in Nat \ {0} /\ get_amount_out(a, b, x) \in Nat \ {0}
                 /\ Fits(x)
                 /\ \A o \in Nat : o <= get_amount_out(a, b, x) <=> Pays(a, b, x, o)
<1> USE MathAssumption
<1> DEFINE f == fee[{a, b}]
           out == quote_output_amount(x, In(a, b), Out(a, b), f)
           Good == /\ Quotable(a, b) /\ x > 0
                   /\ QuoteOutFits(x, In(a, b), Out(a, b), f)
                   /\ out > 0
<1>1. get_amount_out(a, b, x) = IF Good THEN out ELSE Refused
  BY DEF get_amount_out, In, Out
<1>2. CASE ~Good
  BY <1>1, <1>2 DEF Refused
<1>3. CASE Good
  <2>1. /\ In(a, b) \in Nat \ {0} /\ Out(a, b) \in Nat /\ f \in 0..(BPS - 1)
        /\ Kept(a, b) \in Nat \ {0} /\ x \in Nat \ {0}
    <3>1. Quotable(a, b) /\ x > 0
      BY <1>3
    <3> QED
      BY <3>1, QuotablePool
  <2>2. out \in Nat /\ \A o \in Nat : o <= out <=> Pays(a, b, x, o)
    BY <2>1, OutputCovered DEF Pays, Kept
  <2>3. Fits(x)
    <3> DEFINE R == In(a, b)
               g == Kept(a, b)
    <3>1. R * BPS + x * g <= MaxI128
      BY <1>3 DEF QuoteOutFits, Fits, Kept
    <3> HIDE DEF R, g
    <3>2. R \in Nat /\ g \in Nat \ {0}
      BY <2>1 DEF R, g
    <3>3. R * BPS \in Nat /\ x * g \in Nat /\ x * 1 <= x * g
      BY <2>1, <3>2, MulNat, MulMonoTwo
    <3> QED
      BY <2>1, <3>1, <3>3 DEF Fits
  <2> HIDE DEF out
  <2> QED
    BY <1>1, <1>3, <2>1, <2>2, <2>3 DEF Refused
<1> QED
  BY <1>2, <1>3

\* When its products fit, an exact-input quote is answered for what pays for a unit.
LEMMA AmountOutAnswers ==
    ASSUME RoutesInv, NEW a, NEW b, Quotable(a, b), NEW x \in Nat, NEW o \in Nat \ {0},
           Pays(a, b, x, o), QuoteOutFits(x, In(a, b), Out(a, b), fee[{a, b}])
    PROVE  o <= get_amount_out(a, b, x)
<1> USE MathAssumption
<1> DEFINE f == fee[{a, b}]
           out == quote_output_amount(x, In(a, b), Out(a, b), f)
<1>1. In(a, b) \in Nat \ {0} /\ Out(a, b) \in Nat /\ f \in 0..(BPS - 1) /\ Kept(a, b) \in Nat
  BY QuotablePool
<1>2. out \in Nat /\ o <= out
  BY <1>1, OutputCovered DEF Pays, Kept
<1>3. x > 0
  <2>1. CASE x = 0
    <3>1. In(a, b) * o * BPS <= 0 * (Kept(a, b) * (Out(a, b) - o))
      BY <2>1 DEF Pays, Covers
    <3>2. Kept(a, b) * (Out(a, b) - o) \in Int
      BY <1>1
    <3>3. 0 * (Kept(a, b) * (Out(a, b) - o)) = 0
      BY <3>2
    <3>4. In(a, b) * o \in Nat \ {0}
      BY <1>1, SMT
    <3>5. In(a, b) * o * BPS > 0
      BY <3>4, SMT
    <3> QED
      BY <3>1, <3>3, <3>4, <3>5
  <2> QED
    BY <2>1
<1>4. get_amount_out(a, b, x) = out
  <2> HIDE DEF out
  <2>1. out > 0
    BY <1>2
  <2> QED
    BY <1>3, <2>1 DEF get_amount_out, In, Out, out
<1> QED
  BY <1>2, <1>4

\* An exact-output quote: the least input that pays for it.
LEMMA AmountIn ==
    ASSUME RoutesInv, NEW a, NEW b, NEW o \in Int
    PROVE  /\ get_amount_in(a, b, o) \in Int /\ get_amount_in(a, b, o) >= Refused
           /\ get_amount_in(a, b, o) # Refused =>
                 /\ Quotable(a, b) /\ o \in Nat \ {0} /\ get_amount_in(a, b, o) \in Nat \ {0}
                 /\ \A x \in Nat : get_amount_in(a, b, o) <= x <=> Pays(a, b, x, o)
           /\ \A x \in Nat : Quotable(a, b) /\ o > 0 /\ Pays(a, b, x, o) /\ Fits(x)
                                => get_amount_in(a, b, o) \in 1..x
<1> USE MathAssumption
<1> DEFINE f == fee[{a, b}]
           in == quote_input_amount(o, In(a, b), Out(a, b), f)
           Good == Quotable(a, b) /\ o > 0 /\ o < Out(a, b)
<1>1. get_amount_in(a, b, o) = IF Good /\ Fits(in) THEN in ELSE Refused
  BY DEF get_amount_in, In, Out
<1>2. ASSUME Good
      PROVE  /\ o \in Nat \ {0} /\ in \in Nat \ {0}
             /\ \A x \in Nat : in <= x <=> Pays(a, b, x, o)
  <2>1. /\ In(a, b) \in Nat \ {0} /\ Out(a, b) \in Nat /\ f \in 0..(BPS - 1)
        /\ o \in 1..(Out(a, b) - 1)
    BY <1>2, QuotablePool
  <2>2. 0 \in Nat /\ o \in Nat \ {0}
    BY <2>1
  <2>3. in \in Nat \ {0}
    BY <2>1, <2>2, InputCovers
  <2>4. ASSUME NEW x \in Nat PROVE in <= x <=> Pays(a, b, x, o)
    <3>1. in <= x <=> Covers(x, o, In(a, b), Out(a, b), fee_factor(f))
      BY <2>1, InputCovers
    <3> QED
      BY <3>1 DEF Pays, Kept
  <2> QED
    BY <2>2, <2>3, <2>4
<1> HIDE DEF in
<1>3. ASSUME NEW x \in Nat, Quotable(a, b), o > 0, Pays(a, b, x, o), Fits(x)
      PROVE  get_amount_in(a, b, o) \in 1..x
  <2>1. o \in Nat \ {0}
    BY <1>3
  <2>2. Good
    BY <1>3, <2>1, PaidBelowReserve
  <2>3. in \in Nat \ {0} /\ in <= x
    BY <1>2, <1>3, <2>2
  <2>4. Fits(in)
    BY <1>3, <2>3 DEF Fits
  <2> QED
    BY <1>1, <2>2, <2>3, <2>4
<1>4. CASE Good /\ Fits(in)
  BY <1>1, <1>2, <1>3, <1>4 DEF Refused
<1>5. CASE ~(Good /\ Fits(in))
  BY <1>1, <1>3, <1>5 DEF Refused
<1> QED
  BY <1>4, <1>5

-----------------------------------------------------------------------------
(***************************************************************************)
(* Quotes along a path.  The loops are recursive functions: LoopDefined     *)
(* says that there is one, and so the one that is chosen takes the steps of *)
(* the code.                                                                *)
(***************************************************************************)

\* Every hop can be quoted and what it is paid pays for what it pays.
Quoted(path, amounts) ==
    /\ amounts \in [0..Hops(path) -> Nat \ {0}]
    /\ \A i \in 1..Hops(path) : /\ Quotable(path[i], path[i + 1])
                                /\ Pays(path[i], path[i + 1], amounts[i - 1], amounts[i])

\* get_path_amounts_out quotes hop after hop.
LEMMA ForwardWalk ==
    ASSUME RoutesInv, NEW path, Hops(path) \in Nat, NEW n \in Int,
           NEW amounts, amounts = get_path_amounts_out(path, n)
    PROVE  /\ amounts \in [0..Hops(path) -> Int] /\ amounts[0] = n
           /\ \A i \in 1..Hops(path) :
                 amounts[i] = get_amount_out(path[i], path[i + 1], amounts[i - 1])
<1> DEFINE H == Hops(path)
           Step(h) == [i \in 0..H |-> IF i = 0 THEN n
                                      ELSE get_amount_out(path[i], path[i + 1], h[i - 1])]
           c == CHOOSE h : h = Step(h)
           g == [i \in 1..H |-> [x \in Int |-> get_amount_out(path[i], path[i + 1], x)]]
<1>1. amounts = [i \in 0..H |-> c[i]]
  BY DEF get_path_amounts_out
<1>2. H \in Nat /\ g \in [1..H -> [Int -> Int]]
  BY AmountOut
<1>3. PICK f \in [0..H -> Int] : f[0] = n /\ \A i \in 1..H : f[i] = g[i][f[i - 1]]
  <2> DEFINE T == Int
             v == n
  <2>1. H \in Nat /\ v \in T /\ g \in [1..H -> [T -> T]]
    BY <1>2
  <2> HIDE DEF g, H, T, v
  <2>2. \E f : IsLoop(f, T, v, H, g)
    BY <2>1, LoopDefined
  <2> QED
    BY <2>2 DEF T, v, IsLoop
<1>4. f = Step(f)
  <2>1. \A i \in 1..H : i - 1 \in 0..H /\ i \in 0..H /\ i # 0
    BY <1>2
  <2>2. \A i \in 1..H : g[i][f[i - 1]] = get_amount_out(path[i], path[i + 1], f[i - 1])
    BY <1>3, <2>1
  <2>3. \A i \in 0..H : i = 0 \/ i \in 1..H
    BY <1>2
  <2> HIDE DEF g, H
  <2> QED
    BY <1>3, <2>2, <2>3
<1>5. c = Step(c)
  <2> HIDE DEF Step
  <2> QED
    BY <1>4
<1> HIDE DEF c, H
<1>6. /\ c[0] = n
      /\ \A i \in 1..H : c[i] = get_amount_out(path[i], path[i + 1], c[i - 1])
  <2>1. 0 \in 0..H /\ \A i \in 1..H : i \in 0..H /\ i # 0
    BY <1>2
  <2> QED
    BY <1>5, <2>1
<1>7. \A i \in 0..H : c[i] \in Int
  <2> DEFINE P == {i \in 0..H : c[i] \in Int}
  <2>1. 0 \in P
    BY <1>2, <1>6
  <2>2. ASSUME NEW i \in 1..H, i - 1 \in P PROVE i \in P
    <3>1. i \in 0..H /\ c[i - 1] \in Int
      BY <1>2, <2>2
    <3>2. c[i] \in Int
      BY <1>6, <3>1, AmountOut
    <3> QED
      BY <3>1, <3>2
  <2> HIDE DEF P
  <2>3. \A i \in 0..H : i \in P
    BY <1>2, <2>1, <2>2, UpTo
  <2> QED
    BY <2>3 DEF P
<1>8. \A i \in 1..H : i - 1 \in 0..H /\ i \in 0..H
  BY <1>2
<1> QED
  BY <1>1, <1>2, <1>6, <1>7, <1>8 DEF H

\* The final quote is refused unless every hop is quoted.
LEMMA ForwardQuoted ==
    ASSUME RoutesInv, NEW path, Hops(path) \in Nat \ {0}, NEW n \in Int,
           NEW amounts, amounts = get_path_amounts_out(path, n),
           amounts[Hops(path)] # Refused
    PROVE  Quoted(path, amounts) /\ \A i \in 0..(Hops(path) - 1) : Fits(amounts[i])
<1> DEFINE H == Hops(path)
<1>1. /\ amounts \in [0..H -> Int]
      /\ \A i \in 1..H : amounts[i] = get_amount_out(path[i], path[i + 1], amounts[i - 1])
  BY ForwardWalk
<1> DEFINE P == {j \in 0..H : amounts[H - j] # Refused}
<1>2. \A j \in 0..H : j \in P
  <2>1. 0 \in P
    OBVIOUS
  <2>2. ASSUME NEW j \in 1..H, j - 1 \in P PROVE j \in P
    <3> DEFINE i == H - (j - 1)
    <3>1. i \in 1..H /\ H - j = i - 1 /\ i - 1 \in 0..H /\ amounts[i] # Refused
      BY <2>2
    <3>2. amounts[i - 1] \in Int /\ get_amount_out(path[i], path[i + 1], amounts[i - 1]) # Refused
      BY <1>1, <3>1
    <3>3. amounts[i - 1] \in Nat \ {0}
      BY <3>2, AmountOut
    <3> QED
      BY <3>1, <3>3 DEF Refused
  <2> HIDE DEF P
  <2> QED
    BY <2>1, <2>2, UpTo
<1>3. \A i \in 0..H : amounts[i] # Refused
  <2>1. \A i \in 0..H : H - i \in 0..H /\ H - (H - i) = i
    OBVIOUS
  <2> QED
    BY <1>2, <2>1
<1>4. ASSUME NEW i \in 1..H
      PROVE  /\ Quotable(path[i], path[i + 1])
             /\ amounts[i - 1] \in Nat \ {0} /\ amounts[i] \in Nat \ {0} /\ Fits(amounts[i - 1])
             /\ Pays(path[i], path[i + 1], amounts[i - 1], amounts[i])
  <2>1. i \in 0..H /\ i - 1 \in 0..H
    OBVIOUS
  <2>2. /\ amounts[i] = get_amount_out(path[i], path[i + 1], amounts[i - 1])
        /\ amounts[i] # Refused /\ amounts[i - 1] \in Int
    BY <1>1, <1>3, <2>1
  <2>3. /\ Quotable(path[i], path[i + 1]) /\ Fits(amounts[i - 1])
        /\ amounts[i - 1] \in Nat \ {0} /\ amounts[i] \in Nat \ {0}
        /\ \A o \in Nat : o <= amounts[i] <=> Pays(path[i], path[i + 1], amounts[i - 1], o)
    BY <2>2, AmountOut
  <2>4. amounts[i] \in Nat /\ amounts[i] <= amounts[i]
    BY <2>3
  <2> QED
    BY <2>3, <2>4
<1>5. \A i \in 0..H : amounts[i] \in Nat \ {0}
  <2>1. \A i \in 0..H : i \in 1..H \/ (i + 1 \in 1..H /\ (i + 1) - 1 = i)
    OBVIOUS
  <2> QED
    BY <1>4, <2>1
<1>6. \A i \in 0..(H - 1) : i + 1 \in 1..H /\ (i + 1) - 1 = i
  OBVIOUS
<1>7. \A i \in 0..(H - 1) : Fits(amounts[i])
  BY <1>4, <1>6
<1> QED
  BY <1>1, <1>4, <1>5, <1>7 DEF Quoted

\* swap_tokens_for_exact_tokens quotes from the last hop to the first.
LEMMA BackwardWalk ==
    ASSUME RoutesInv, NEW path, Hops(path) \in Nat, NEW n \in Int,
           NEW amounts, amounts = path_amounts_in(path, n)
    PROVE  /\ amounts \in [0..Hops(path) -> Int] /\ amounts[Hops(path)] = n
           /\ \A i \in 1..Hops(path) :
                 amounts[i - 1] = get_amount_in(path[i], path[i + 1], amounts[i])
<1> DEFINE H == Hops(path)
           At(j, x) == get_amount_in(path[H - j + 1], path[H - j + 1 + 1], x)
           Step(h) == [j \in 0..H |-> IF j = 0 THEN n ELSE At(j, h[j - 1])]
           c == CHOOSE h : h = Step(h)
           g == [j \in 1..H |-> [x \in Int |-> At(j, x)]]
<1>1. amounts = [i \in 0..H |-> c[H - i]]
  BY DEF path_amounts_in
<1>2. H \in Nat /\ g \in [1..H -> [Int -> Int]] /\ \A j \in 1..H, x \in Int : At(j, x) \in Int
  BY AmountIn
<1> HIDE DEF At
<1>3. PICK f \in [0..H -> Int] : f[0] = n /\ \A j \in 1..H : f[j] = g[j][f[j - 1]]
  <2> DEFINE T == Int
             v == n
  <2>1. H \in Nat /\ v \in T /\ g \in [1..H -> [T -> T]]
    BY <1>2
  <2> HIDE DEF g, H, T, v
  <2>2. \E f : IsLoop(f, T, v, H, g)
    BY <2>1, LoopDefined
  <2> QED
    BY <2>2 DEF T, v, IsLoop
<1>4. f = Step(f)
  <2>1. \A j \in 1..H : j - 1 \in 0..H /\ j \in 0..H /\ j # 0
    BY <1>2
  <2>2. \A j \in 1..H : g[j][f[j - 1]] = At(j, f[j - 1])
    BY <1>3, <2>1
  <2>3. \A j \in 0..H : j = 0 \/ j \in 1..H
    BY <1>2
  <2> HIDE DEF g, H
  <2> QED
    BY <1>3, <2>2, <2>3
<1>5. c = Step(c)
  <2> HIDE DEF Step
  <2> QED
    BY <1>4
<1> HIDE DEF c, H
<1>6. c[0] = n /\ \A j \in 1..H : c[j] = At(j, c[j - 1])
  <2>1. 0 \in 0..H /\ \A j \in 1..H : j \in 0..H /\ j # 0
    BY <1>2
  <2> QED
    BY <1>5, <2>1
<1>7. \A j \in 0..H : c[j] \in Int
  <2> DEFINE P == {j \in 0..H : c[j] \in Int}
  <2>1. 0 \in P
    BY <1>2, <1>6
  <2>2. ASSUME NEW j \in 1..H, j - 1 \in P PROVE j \in P
    <3>1. j \in 0..H /\ c[j - 1] \in Int
      BY <1>2, <2>2
    <3>2. c[j] \in Int
      BY <1>2, <1>6, <3>1
    <3> QED
      BY <3>1, <3>2
  <2> HIDE DEF P
  <2>3. \A j \in 0..H : j \in P
    BY <1>2, <2>1, <2>2, UpTo
  <2> QED
    BY <2>3 DEF P
<1>8. ASSUME NEW i \in 1..H
      PROVE  amounts[i - 1] = get_amount_in(path[i], path[i + 1], amounts[i])
  <2> DEFINE j == H - i + 1
  <2>1. /\ j \in 1..H /\ H - (i - 1) = j /\ H - i = j - 1 /\ H - j + 1 = i
        /\ i \in 0..H /\ i - 1 \in 0..H
    BY <1>2
  <2>2. amounts[i - 1] = c[j] /\ amounts[i] = c[j - 1]
    BY <1>1, <2>1
  <2>3. c[j] = At(j, c[j - 1])
    BY <1>6, <2>1
  <2> HIDE DEF j
  <2> QED
    BY <2>1, <2>2, <2>3 DEF At
<1>9. amounts[H] = n /\ amounts \in [0..H -> Int]
  <2>1. H \in 0..H /\ H - H = 0 /\ \A i \in 0..H : H - i \in 0..H
    BY <1>2
  <2> QED
    BY <1>1, <1>6, <1>7, <2>1
<1> QED
  BY <1>8, <1>9 DEF H

\* The first quote is refused unless every hop is quoted, and it is the least.
LEMMA BackwardQuoted ==
    ASSUME RoutesInv, NEW path, Hops(path) \in Nat \ {0}, NEW n \in Int,
           NEW amounts, amounts = path_amounts_in(path, n), amounts[0] # Refused
    PROVE  /\ Quoted(path, amounts) /\ amounts[Hops(path)] = n
           /\ \A i \in 1..Hops(path) : \A x \in Nat :
                 amounts[i - 1] <= x <=> Pays(path[i], path[i + 1], x, amounts[i])
<1> DEFINE H == Hops(path)
<1>1. /\ amounts \in [0..H -> Int] /\ amounts[H] = n
      /\ \A i \in 1..H : amounts[i - 1] = get_amount_in(path[i], path[i + 1], amounts[i])
  BY BackwardWalk
<1>2. ASSUME NEW i \in 1..H, amounts[i - 1] # Refused
      PROVE  /\ Quotable(path[i], path[i + 1])
             /\ amounts[i - 1] \in Nat \ {0} /\ amounts[i] \in Nat \ {0}
             /\ \A x \in Nat : amounts[i - 1] <= x <=> Pays(path[i], path[i + 1], x, amounts[i])
  <2>1. i \in 0..H /\ i - 1 \in 0..H
    OBVIOUS
  <2>2. amounts[i] \in Int /\ amounts[i - 1] = get_amount_in(path[i], path[i + 1], amounts[i])
    BY <1>1, <2>1
  <2> QED
    BY <1>2, <2>2, AmountIn
<1> DEFINE P == {i \in 0..H : amounts[i] # Refused}
<1>3. \A i \in 0..H : i \in P
  <2>1. 0 \in P
    OBVIOUS
  <2>2. ASSUME NEW i \in 1..H, i - 1 \in P PROVE i \in P
    BY <1>2, <2>2 DEF Refused
  <2> HIDE DEF P
  <2> QED
    BY <2>1, <2>2, UpTo
<1>4. \A i \in 1..H : amounts[i - 1] # Refused
  <2>1. \A i \in 1..H : i - 1 \in 0..H
    OBVIOUS
  <2> QED
    BY <1>3, <2>1
<1>5. \A i \in 0..H : amounts[i] \in Nat \ {0}
  <2>1. \A i \in 0..H : i \in 1..H \/ (i + 1 \in 1..H /\ (i + 1) - 1 = i)
    OBVIOUS
  <2> QED
    BY <1>2, <1>4, <2>1
<1>6. \A i \in 1..H : Pays(path[i], path[i + 1], amounts[i - 1], amounts[i])
  <2>1. SUFFICES ASSUME NEW i \in 1..H
                 PROVE  Pays(path[i], path[i + 1], amounts[i - 1], amounts[i])
    OBVIOUS
  <2>2. amounts[i - 1] \in Nat /\ amounts[i - 1] <= amounts[i - 1]
    BY <1>2, <1>4
  <2> QED
    BY <1>2, <1>4, <2>2
<1> QED
  BY <1>1, <1>2, <1>4, <1>5, <1>6 DEF Quoted

\* The input of an exact-output route suffices for its output, and nothing less does.
LEMMA LeastInput == RoutesInv => PathInputLeast
<1> SUFFICES ASSUME RoutesInv, NEW path \in Paths, NEW n \in Amounts,
                    path_amounts_in(path, n)[0] # Refused
             PROVE  LET needed == path_amounts_in(path, n)[0]
                    IN  /\ QuotesFit(path, get_path_amounts_out(path, needed))
                              => path_out(path, needed) >= n
                        /\ path_out(path, needed - 1) < n
  BY DEF PathInputLeast
<1> DEFINE H == Hops(path)
           required == path_amounts_in(path, n)
           needed == required[0]
           A == get_path_amounts_out(path, needed)
           B == get_path_amounts_out(path, needed - 1)
<1>1. H \in Nat \ {0} /\ n \in Int
  BY PathShape, RoutesAssumption
<1>2. /\ Quoted(path, required) /\ required[H] = n
      /\ \A i \in 1..H : \A x \in Nat :
            required[i - 1] <= x <=> Pays(path[i], path[i + 1], x, required[i])
  BY <1>1, BackwardQuoted
<1>3. \A i \in 0..H : required[i] \in Nat \ {0}
  BY <1>2 DEF Quoted
<1>4. needed \in Nat \ {0} /\ needed \in Int /\ needed - 1 \in Int
  BY <1>1, <1>3
<1> HIDE DEF required
<1>5. /\ A \in [0..H -> Int] /\ A[0] = needed
      /\ \A i \in 1..H : A[i] = get_amount_out(path[i], path[i + 1], A[i - 1])
  <2> HIDE DEF needed
  <2> QED
    BY <1>1, <1>4, ForwardWalk
<1>6. /\ B \in [0..H -> Int] /\ B[0] = needed - 1
      /\ \A i \in 1..H : B[i] = get_amount_out(path[i], path[i + 1], B[i - 1])
  <2> DEFINE m == needed - 1
  <2>1. m \in Int
    BY <1>4
  <2> HIDE DEF m
  <2>2. /\ get_path_amounts_out(path, m) \in [0..H -> Int]
        /\ get_path_amounts_out(path, m)[0] = m
        /\ \A i \in 1..H : get_path_amounts_out(path, m)[i] =
              get_amount_out(path[i], path[i + 1], get_path_amounts_out(path, m)[i - 1])
    BY <1>1, <2>1, ForwardWalk
  <2> QED
    BY <2>2 DEF m
<1>7. path_out(path, needed) = A[H] /\ path_out(path, needed - 1) = B[H]
  BY DEF path_out
<1>8. ASSUME QuotesFit(path, A) PROVE A[H] >= n
  <2> HIDE DEF A, H
  <2> DEFINE P == {i \in 0..H : A[i] >= required[i]}
  <2>1. 0 \in P
    BY <1>1, <1>3, <1>5
  <2>2. ASSUME NEW i \in 1..H, i - 1 \in P PROVE i \in P
    <3>1. i \in 0..H /\ i - 1 \in 0..H
      BY <1>1
    <3>2. A[i - 1] >= required[i - 1] /\ A[i - 1] \in Int /\ required[i - 1] \in Nat
      BY <1>3, <1>5, <2>2, <3>1
    <3>3. A[i - 1] \in Nat /\ required[i] \in Nat \ {0}
      BY <1>3, <3>1, <3>2
    <3>4. Pays(path[i], path[i + 1], A[i - 1], required[i])
      BY <1>2, <3>2, <3>3
    <3>5. QuoteOutFits(A[i - 1], In(path[i], path[i + 1]), Out(path[i], path[i + 1]),
                       fee[{path[i], path[i + 1]}])
      BY <1>8 DEF QuotesFit, In, Out, H
    <3>6. Quotable(path[i], path[i + 1])
      BY <1>2 DEF Quoted, H
    <3>7. required[i] <= get_amount_out(path[i], path[i + 1], A[i - 1])
      BY <3>3, <3>4, <3>5, <3>6, AmountOutAnswers
    <3>8. A[i] = get_amount_out(path[i], path[i + 1], A[i - 1]) /\ A[i] \in Int
      BY <1>5, <3>1
    <3> QED
      BY <3>1, <3>3, <3>7, <3>8
  <2> HIDE DEF P
  <2>3. \A i \in 0..H : i \in P
    BY <1>1, <2>1, <2>2, UpTo
  <2>4. H \in P
    BY <1>1, <2>3
  <2> QED
    BY <1>2, <2>4 DEF P
<1>9. B[H] < n
  <2> HIDE DEF B, H
  <2> DEFINE P == {i \in 0..H : B[i] < required[i]}
  <2>1. 0 \in P
    BY <1>1, <1>3, <1>4, <1>6
  <2>2. ASSUME NEW i \in 1..H, i - 1 \in P PROVE i \in P
    <3>1. i \in 0..H /\ i - 1 \in 0..H
      BY <1>1
    <3>2. B[i - 1] < required[i - 1] /\ B[i - 1] \in Int /\ required[i - 1] \in Nat
      BY <1>3, <1>6, <2>2, <3>1
    <3>3. B[i] = get_amount_out(path[i], path[i + 1], B[i - 1]) /\ B[i] \in Int
      BY <1>6, <3>1
    <3>4. required[i] \in Nat \ {0}
      BY <1>3, <3>1
    <3>5. CASE B[i] = Refused
      BY <3>1, <3>4, <3>5 DEF Refused
    <3>6. CASE B[i] # Refused
      <4>1. /\ B[i - 1] \in Nat
            /\ \A o \in Nat : o <= B[i] <=> Pays(path[i], path[i + 1], B[i - 1], o)
        BY <3>2, <3>3, <3>6, AmountOut
      <4>2. ~ (required[i - 1] <= B[i - 1])
        BY <3>2, <4>1
      <4>3. ~ Pays(path[i], path[i + 1], B[i - 1], required[i])
        BY <1>2, <4>1, <4>2
      <4>4. ~ (required[i] <= B[i])
        BY <3>4, <4>1, <4>3
      <4> QED
        BY <3>1, <3>3, <3>4, <4>4
    <3> QED
      BY <3>5, <3>6
  <2> HIDE DEF P
  <2>3. \A i \in 0..H : i \in P
    BY <1>1, <2>1, <2>2, UpTo
  <2>4. H \in P
    BY <1>1, <2>3
  <2> QED
    BY <1>2, <2>4 DEF P
<1> QED
  BY <1>7, <1>8, <1>9 DEF required

\* get_path_minimums asks each hop for the least that lets the next one pay, and for
\* nothing before a hop that need not pay.
LEMMA MinimumsWalk ==
    ASSUME RoutesInv, NEW path, Hops(path) \in Nat, NEW n \in Int,
           NEW minimums, minimums = get_path_minimums(path, n)
    PROVE  /\ minimums \in [0..Hops(path) -> Int] /\ minimums[Hops(path)] = n
           /\ \A i \in 1..Hops(path) :
                 minimums[i - 1] = IF minimums[i] = 0 THEN 0
                                   ELSE get_amount_in(path[i], path[i + 1], minimums[i])
<1> DEFINE H == Hops(path)
           At(j, x) == IF x = 0 THEN 0
                       ELSE get_amount_in(path[H - j + 1], path[H - j + 1 + 1], x)
           Step(h) == [j \in 0..H |-> IF j = 0 THEN n ELSE At(j, h[j - 1])]
           c == CHOOSE h : h = Step(h)
           g == [j \in 1..H |-> [x \in Int |-> At(j, x)]]
<1>1. minimums = [i \in 0..H |-> c[H - i]]
  BY DEF get_path_minimums
<1>2. H \in Nat /\ g \in [1..H -> [Int -> Int]] /\ \A j \in 1..H, x \in Int : At(j, x) \in Int
  BY AmountIn
<1> HIDE DEF At
<1>3. PICK f \in [0..H -> Int] : f[0] = n /\ \A j \in 1..H : f[j] = g[j][f[j - 1]]
  <2> DEFINE T == Int
             v == n
  <2>1. H \in Nat /\ v \in T /\ g \in [1..H -> [T -> T]]
    BY <1>2
  <2> HIDE DEF g, H, T, v
  <2>2. \E f : IsLoop(f, T, v, H, g)
    BY <2>1, LoopDefined
  <2> QED
    BY <2>2 DEF T, v, IsLoop
<1>4. f = Step(f)
  <2>1. \A j \in 1..H : j - 1 \in 0..H /\ j \in 0..H /\ j # 0
    BY <1>2
  <2>2. \A j \in 1..H : g[j][f[j - 1]] = At(j, f[j - 1])
    BY <1>3, <2>1
  <2>3. \A j \in 0..H : j = 0 \/ j \in 1..H
    BY <1>2
  <2> HIDE DEF g, H
  <2> QED
    BY <1>3, <2>2, <2>3
<1>5. c = Step(c)
  <2> HIDE DEF Step
  <2> QED
    BY <1>4
<1> HIDE DEF c, H
<1>6. c[0] = n /\ \A j \in 1..H : c[j] = At(j, c[j - 1])
  <2>1. 0 \in 0..H /\ \A j \in 1..H : j \in 0..H /\ j # 0
    BY <1>2
  <2> QED
    BY <1>5, <2>1
<1>7. \A j \in 0..H : c[j] \in Int
  <2> DEFINE P == {j \in 0..H : c[j] \in Int}
  <2>1. 0 \in P
    BY <1>2, <1>6
  <2>2. ASSUME NEW j \in 1..H, j - 1 \in P PROVE j \in P
    <3>1. j \in 0..H /\ c[j - 1] \in Int
      BY <1>2, <2>2
    <3>2. c[j] \in Int
      BY <1>2, <1>6, <3>1
    <3> QED
      BY <3>1, <3>2
  <2> HIDE DEF P
  <2>3. \A j \in 0..H : j \in P
    BY <1>2, <2>1, <2>2, UpTo
  <2> QED
    BY <2>3 DEF P
<1>8. ASSUME NEW i \in 1..H
      PROVE  minimums[i - 1] = IF minimums[i] = 0 THEN 0
                               ELSE get_amount_in(path[i], path[i + 1], minimums[i])
  <2> DEFINE j == H - i + 1
  <2>1. /\ j \in 1..H /\ H - (i - 1) = j /\ H - i = j - 1 /\ H - j + 1 = i
        /\ i \in 0..H /\ i - 1 \in 0..H
    BY <1>2
  <2>2. minimums[i - 1] = c[j] /\ minimums[i] = c[j - 1]
    BY <1>1, <2>1
  <2>3. c[j] = At(j, c[j - 1])
    BY <1>6, <2>1
  <2> HIDE DEF j
  <2> QED
    BY <2>1, <2>2, <2>3 DEF At
<1>9. minimums[H] = n /\ minimums \in [0..H -> Int]
  <2>1. H \in 0..H /\ H - H = 0 /\ \A i \in 0..H : H - i \in 0..H
    BY <1>2
  <2> QED
    BY <1>1, <1>6, <1>7, <2>1
<1> QED
  BY <1>8, <1>9 DEF H

\* The minimums of the hops are met whenever the final one is.
LEMMA MinimumsMet == RoutesInv => HopMinimumsImplied
<1> SUFFICES ASSUME RoutesInv, NEW path \in Paths, NEW n \in Amounts,
                    NEW amounts, amounts = get_path_amounts_out(path, n),
                    amounts[Hops(path)] # Refused, NEW least \in 0..amounts[Hops(path)],
                    NEW minimums, minimums = get_path_minimums(path, least)
             PROVE  \A i \in 0..Hops(path) : minimums[i] \in 0..amounts[i]
  BY DEF HopMinimumsImplied
<1> DEFINE H == Hops(path)
<1>1. H \in Nat \ {0} /\ n \in Int
  BY PathShape, RoutesAssumption
<1>2. Quoted(path, amounts) /\ \A i \in 0..(H - 1) : Fits(amounts[i])
  BY <1>1, ForwardQuoted
<1>3. \A i \in 0..H : amounts[i] \in Nat \ {0}
  BY <1>2 DEF Quoted
<1>4. least \in Int /\ least \in 0..amounts[H]
  BY <1>1, <1>3
<1>5. /\ minimums[H] = least
      /\ \A i \in 1..H : minimums[i - 1] = IF minimums[i] = 0 THEN 0
                              ELSE get_amount_in(path[i], path[i + 1], minimums[i])
  BY <1>1, <1>4, MinimumsWalk
<1>6. /\ \A i \in 1..H : amounts[i] = get_amount_out(path[i], path[i + 1], amounts[i - 1])
      /\ amounts \in [0..H -> Int]
  BY <1>1, ForwardWalk
<1>7. ASSUME NEW i \in 1..H, minimums[i] \in 0..amounts[i]
      PROVE  minimums[i - 1] \in 0..amounts[i - 1]
  <2>1. i \in 0..H /\ i - 1 \in 0..H /\ i - 1 \in 0..(H - 1)
    BY <1>1
  <2>2. amounts[i] \in Nat \ {0} /\ amounts[i - 1] \in Nat \ {0} /\ Fits(amounts[i - 1])
    BY <1>2, <1>3, <2>1
  <2>3. CASE minimums[i] = 0
    BY <1>5, <2>2, <2>3
  <2>4. CASE minimums[i] # 0
    <3>1. minimums[i] \in Nat /\ minimums[i] \in Int /\ minimums[i] > 0 /\ minimums[i] <= amounts[i]
      BY <1>7, <2>2, <2>4
    <3>2. amounts[i] = get_amount_out(path[i], path[i + 1], amounts[i - 1]) /\ amounts[i] # Refused
      BY <1>6, <2>2 DEF Refused
    <3>3. /\ Quotable(path[i], path[i + 1])
          /\ Pays(path[i], path[i + 1], amounts[i - 1], minimums[i])
      BY <2>2, <3>1, <3>2, AmountOut
    <3>4. get_amount_in(path[i], path[i + 1], minimums[i]) \in 1..amounts[i - 1]
      BY <2>2, <3>1, <3>3, AmountIn
    <3>5. minimums[i - 1] = get_amount_in(path[i], path[i + 1], minimums[i])
      BY <1>5, <2>4
    <3> QED
      BY <2>2, <3>4, <3>5
  <2> QED
    BY <2>3, <2>4
<1> DEFINE P == {j \in 0..H : minimums[H - j] \in 0..amounts[H - j]}
<1>8. \A j \in 0..H : j \in P
  <2> HIDE DEF H
  <2>1. 0 \in P
    BY <1>1, <1>4, <1>5
  <2>2. ASSUME NEW j \in 1..H, j - 1 \in P PROVE j \in P
    <3> DEFINE i == H - (j - 1)
    <3>1. i \in 1..H /\ H - j = i - 1 /\ minimums[i] \in 0..amounts[i] /\ j \in 0..H
      BY <1>1, <2>2
    <3> HIDE DEF i
    <3>2. minimums[i - 1] \in 0..amounts[i - 1]
      BY <1>7, <3>1
    <3> QED
      BY <3>1, <3>2
  <2> HIDE DEF P
  <2> QED
    BY <1>1, <2>1, <2>2, UpTo
<1>9. ASSUME NEW i \in 0..H PROVE minimums[i] \in 0..amounts[i]
  <2>1. H - i \in 0..H /\ H - (H - i) = i
    BY <1>1
  <2>2. H - i \in P
    BY <1>8, <2>1
  <2> QED
    BY <2>1, <2>2
<1> QED
  BY <1>9

-----------------------------------------------------------------------------
(***************************************************************************)
(* The path search.                                                         *)
(***************************************************************************)

\* The remainder of a division.
LEMMA ModFloor ==
    ASSUME NEW x \in Nat, NEW d \in Nat \ {0}
    PROVE  x % d = x - d * (x \div d)
BY SMT

\* Number k of n n, counted row by row, is in row i and column j.
IsCell(n, k, i, j) == k \in 1..(n * n) /\ (k - 1) \div n = i - 1 /\ (k - 1) % n = j - 1

\* The pair (i, j) of n by n is number (i - 1) n + j.
LEMMA GridIndex ==
    ASSUME NEW n \in Nat, NEW i \in 1..n, NEW j \in 1..n,
           NEW k, k = (i - 1) * n + j
    PROVE  IsCell(n, k, i, j)
<1> DEFINE m == k - 1
           q == m \div n
           r == i - 1
           p == r * n
<1>1. n \in Nat \ {0} /\ r \in Nat /\ r + 1 <= n
  OBVIOUS
<1>2. p \in Nat /\ p + n <= n * n
  <2>1. (r + 1) * n <= n * n
    BY <1>1, MulMono
  <2>2. (r + 1) * n = r * n + n /\ n * n \in Nat
    BY <1>1, MulNat, SMT
  <2> QED
    BY <1>1, <2>1, <2>2, MulNat
<1>3. k = p + j
  OBVIOUS
<1> HIDE DEF p
<1>4. k \in 1..(n * n) /\ m \in Nat /\ m = p + (j - 1)
  <2>1. n * n \in Nat
    BY MulNat
  <2> QED
    BY <1>1, <1>2, <1>3, <2>1
<1> HIDE DEF m
<1>5. q \in Nat /\ n * q <= m /\ m < n * q + n
  BY <1>1, <1>4, DivFloor
<1>6. n * q \in Int /\ q * n = n * q /\ (q + 1) * n = n * q + n /\ (r + 1) * n = p + n
  BY <1>1, <1>5, SMT DEF p
<1>7. q <= r
  <2>1. CASE r + 1 <= q
    <3>1. (r + 1) * n <= q * n
      BY <1>1, <1>5, <2>1, MulMono
    <3> QED
      BY <1>1, <1>2, <1>4, <1>5, <1>6, <3>1
  <2> QED
    BY <1>1, <1>5, <2>1
<1>8. r <= q
  <2>1. CASE q + 1 <= r
    <3>1. (q + 1) * n <= p
      BY <1>1, <1>5, <2>1, MulMono DEF p
    <3> QED
      BY <1>2, <1>4, <1>5, <1>6, <3>1
  <2> QED
    BY <1>1, <1>5, <2>1
<1>9. q = r
  BY <1>1, <1>5, <1>7, <1>8
<1>10. m % n = m - n * q
  BY <1>1, <1>4, ModFloor
<1>11. n * q = p
  BY <1>1, <1>9, SMT DEF p
<1>12. m % n = j - 1
  <2> DEFINE z == m % n
             t == n * q
  <2>1. z = m - t /\ t = p
    BY <1>10, <1>11
  <2> HIDE DEF z, t, q
  <2>2. z = j - 1
    BY <1>1, <1>2, <1>4, <2>1
  <2> QED
    BY <2>2 DEF z
<1> QED
  BY <1>4, <1>9, <1>12 DEF m, r, IsCell

\* Every number up to n n is that of a pair.
LEMMA GridCell ==
    ASSUME NEW n \in Nat, NEW k \in 1..(n * n)
    PROVE  ((k - 1) \div n) + 1 \in 1..n /\ ((k - 1) % n) + 1 \in 1..n
<1> DEFINE m == k - 1
           q == m \div n
<1>1. n \in Nat \ {0}
  <2>1. CASE n = 0
    BY <2>1
  <2> QED
    BY <2>1
<1>2. m \in Nat /\ m < n * n
  <2>1. n * n \in Nat
    BY MulNat
  <2> QED
    BY <2>1
<1> HIDE DEF m
<1>3. q \in Nat /\ n * q <= m /\ m < n * q + n
  BY <1>1, <1>2, DivFloor
<1>4. m % n = m - n * q
  BY <1>1, <1>2, SMT
<1>5. n * q \in Int /\ q * n = n * q /\ n * n \in Int
  BY <1>1, <1>3, SMT
<1>6. q < n
  <2>1. CASE n <= q
    <3>1. n * n <= q * n
      BY <1>1, <1>3, <2>1, MulMono
    <3> QED
      BY <1>2, <1>3, <1>5, <3>1
  <2> QED
    BY <1>1, <1>3, <2>1
<1> HIDE DEF q
<1>7. q + 1 \in 1..n /\ (m % n) + 1 \in 1..n
  BY <1>1, <1>2, <1>3, <1>4, <1>5, <1>6
<1> QED
  BY <1>7 DEF m, q

\* The k-th path over two hubs.
OverTwo(a, b, n, k) == <<a, hubs[((k - 1) \div n) + 1], hubs[((k - 1) % n) + 1], b>>

\* The list c goes through no hub, one hub and two hubs.
Listed(a, b, c, n) ==
    /\ n \in Nat /\ n * n \in Nat
    /\ c \in Seq(Seq(Asset)) /\ Len(c) = 1 + n + n * n
    /\ c[1] = <<a, b>>
    /\ \A i \in 1..n : c[1 + i] = <<a, hubs[i], b>>
    /\ \A k \in 1..(n * n) : c[1 + n + k] = OverTwo(a, b, n, k)

\* The candidates, by their number.
LEMMA CandidateList ==
    ASSUME hubs \in Seq(Asset), NEW a \in Asset, NEW b \in Asset,
           NEW c, c = Candidates(a, b), NEW n, n = Len(hubs)
    PROVE  Listed(a, b, c, n)
<1> DEFINE S == Seq(Asset)
           first == << <<a, b>> >>
           one == [i \in 1..n |-> <<a, hubs[i], b>>]
           Two(k) == OverTwo(a, b, n, k)
           two == [k \in 1..(n * n) |-> Two(k)]
<1>1. n \in Nat /\ n * n \in Nat /\ \A i \in 1..n : hubs[i] \in Asset
  BY LenProperties, ElementOfSeq, MulNat
<1>2. c = (first \o one) \o two
  BY DEF Candidates, OverTwo
<1>3. first \in Seq(S) /\ Len(first) = 1 /\ first[1] = <<a, b>>
  OBVIOUS
<1>4. one \in Seq(S) /\ Len(one) = n
  <2>1. \A i \in 1..n : <<a, hubs[i], b>> \in S
    BY <1>1
  <2>2. one \in [1..n -> S]
    BY <2>1
  <2> HIDE DEF one, S
  <2>3. one \in Seq(S)
    BY <1>1, <2>2, SeqDef
  <2>4. 1..Len(one) = 1..n /\ Len(one) \in Nat
    BY <2>2, <2>3, LenProperties
  <2> QED
    BY <1>1, <2>3, <2>4
<1>5. two \in Seq(S) /\ Len(two) = n * n
  <2> DEFINE N == n * n
  <2>1. \A k \in 1..N : Two(k) \in S
    <3>1. SUFFICES ASSUME NEW k \in 1..N PROVE Two(k) \in S
      OBVIOUS
    <3> DEFINE i == ((k - 1) \div n) + 1
               j == ((k - 1) % n) + 1
    <3>2. i \in 1..n /\ j \in 1..n
      BY <1>1, GridCell
    <3> HIDE DEF i, j
    <3>3. <<a, hubs[i], hubs[j], b>> \in S
      BY <1>1, <3>2
    <3> QED
      BY <3>3 DEF i, j, OverTwo
  <2> HIDE DEF Two
  <2>2. two \in [1..N -> S]
    BY <2>1
  <2> HIDE DEF two, S
  <2>3. N \in Nat
    BY <1>1
  <2> HIDE DEF N
  <2>4. two \in Seq(S)
    BY <2>2, <2>3, SeqDef
  <2>5. 1..Len(two) = 1..N /\ Len(two) \in Nat
    BY <2>2, <2>4, LenProperties
  <2>6. Len(two) = N
    BY <2>3, <2>5
  <2> QED
    BY <2>4, <2>6 DEF N
<1> HIDE DEF first, one, two, S
<1> DEFINE fo == first \o one
           N == n * n
<1>6. /\ fo \in Seq(S) /\ Len(fo) = 1 + n
      /\ \A i \in 1..(1 + n) : fo[i] = IF i <= 1 THEN first[i] ELSE one[i - 1]
  <2>1. /\ first \o one \in Seq(S) /\ Len(first \o one) = Len(first) + Len(one)
        /\ \A i \in 1..(Len(first) + Len(one)) :
              (first \o one)[i] = IF i <= Len(first) THEN first[i] ELSE one[i - Len(first)]
    BY <1>3, <1>4, ConcatProperties
  <2> QED
    BY <1>3, <1>4, <2>1
<1> HIDE DEF fo
<1>7. N \in Nat /\ Len(two) = N
  BY <1>1, <1>5
<1> HIDE DEF N
<1>8. /\ c \in Seq(S) /\ Len(c) = 1 + n + N
      /\ \A i \in 1..(1 + n + N) : c[i] = IF i <= 1 + n THEN fo[i] ELSE two[i - (1 + n)]
  <2>1. /\ fo \o two \in Seq(S) /\ Len(fo \o two) = Len(fo) + Len(two)
        /\ \A i \in 1..(Len(fo) + Len(two)) :
              (fo \o two)[i] = IF i <= Len(fo) THEN fo[i] ELSE two[i - Len(fo)]
    BY <1>5, <1>6, ConcatProperties
  <2>2. c = fo \o two
    BY <1>2 DEF fo
  <2> QED
    BY <1>6, <1>7, <2>1, <2>2
<1>9. c[1] = <<a, b>>
  <2>1. 1 \in 1..(1 + n + N) /\ 1 \in 1..(1 + n) /\ 1 <= 1 + n
    BY <1>1, <1>7
  <2> QED
    BY <1>3, <1>6, <1>8, <2>1
<1>10. ASSUME NEW i \in 1..n PROVE c[1 + i] = <<a, hubs[i], b>>
  <2>1. /\ 1 + i \in 1..(1 + n + N) /\ 1 + i \in 1..(1 + n) /\ 1 + i <= 1 + n
        /\ ~ (1 + i <= 1) /\ (1 + i) - 1 = i
    BY <1>1, <1>7
  <2>2. c[1 + i] = one[i]
    BY <1>6, <1>8, <2>1
  <2> QED
    BY <2>2 DEF one
<1>11. ASSUME NEW k \in 1..N PROVE c[1 + n + k] = Two(k)
  <2>1. 1 + n + k \in 1..(1 + n + N) /\ ~ (1 + n + k <= 1 + n) /\ (1 + n + k) - (1 + n) = k
    BY <1>1, <1>7
  <2>2. c[1 + n + k] = two[k]
    BY <1>8, <2>1
  <2> HIDE DEF Two
  <2> QED
    BY <2>2 DEF two, N
<1> QED
  BY <1>1, <1>8, <1>9, <1>10, <1>11 DEF S, N, Listed

\* A path from a to b whose inner tokens are hubs.
Via(a, b, path) ==
    /\ path \in Seq(Asset) /\ Len(path) \in 2..4
    /\ path[1] = a /\ path[Len(path)] = b
    /\ \A i \in 2..Hops(path) : path[i] \in Range(hubs)

\* The candidates are such paths,
LEMMA CandidateVia ==
    ASSUME hubs \in Seq(Asset), NEW a \in Asset, NEW b \in Asset,
           NEW c, c = Candidates(a, b), NEW k \in 1..Len(c)
    PROVE  Via(a, b, c[k])
<1> DEFINE n == Len(hubs)
<1>1. /\ n \in Nat /\ n * n \in Nat /\ Len(c) = 1 + n + n * n
      /\ c[1] = <<a, b>>
      /\ \A i \in 1..n : c[1 + i] = <<a, hubs[i], b>>
      /\ \A j \in 1..(n * n) : c[1 + n + j] = OverTwo(a, b, n, j)
  <2>1. Listed(a, b, c, n)
    BY CandidateList
  <2> HIDE DEF n
  <2> QED
    BY <2>1 DEF Listed
<1>2. DOMAIN hubs = 1..n /\ \A i \in 1..n : hubs[i] \in Asset /\ hubs[i] \in Range(hubs)
  BY LenProperties, ElementOfSeq DEF Range
<1> HIDE DEF n
<1>3. Via(a, b, <<a, b>>)
  <2>1. Len(<<a, b>>) = 2
    OBVIOUS
  <2> QED
    BY <2>1 DEF Via, Hops
<1>4. ASSUME NEW i \in 1..n PROVE Via(a, b, <<a, hubs[i], b>>)
  <2> DEFINE h == hubs[i]
             p == <<a, h, b>>
  <2>1. h \in Asset /\ h \in Range(hubs)
    BY <1>2
  <2> HIDE DEF h
  <2>2. p \in Seq(Asset) /\ Len(p) = 3 /\ p[1] = a /\ p[2] = h /\ p[3] = b
    BY <2>1
  <2> HIDE DEF p
  <2>3. Hops(p) = 2
    BY <2>2 DEF Hops
  <2>4. \A l \in 2..Hops(p) : p[l] \in Range(hubs)
    BY <2>1, <2>2, <2>3
  <2>5. Via(a, b, p)
    BY <2>2, <2>4 DEF Via
  <2> QED
    BY <2>5 DEF p, h
<1>5. ASSUME NEW i \in 1..n, NEW j \in 1..n PROVE Via(a, b, <<a, hubs[i], hubs[j], b>>)
  <2> DEFINE h == hubs[i]
             g == hubs[j]
             p == <<a, h, g, b>>
  <2>1. h \in Asset /\ h \in Range(hubs) /\ g \in Asset /\ g \in Range(hubs)
    BY <1>2
  <2> HIDE DEF h, g
  <2>2. p \in Seq(Asset) /\ Len(p) = 4 /\ p[1] = a /\ p[2] = h /\ p[3] = g /\ p[4] = b
    BY <2>1
  <2> HIDE DEF p
  <2>3. Hops(p) = 3
    BY <2>2 DEF Hops
  <2>4. \A l \in 2..Hops(p) : p[l] \in Range(hubs)
    BY <2>1, <2>2, <2>3
  <2>5. Via(a, b, p)
    BY <2>2, <2>4 DEF Via
  <2> QED
    BY <2>5 DEF p, h, g
<1> DEFINE N == n * n
<1>6. k = 1 \/ k - 1 \in 1..n \/ k - 1 - n \in 1..N
  BY <1>1
<1>7. CASE k = 1
  BY <1>1, <1>3, <1>7
<1>8. CASE k - 1 \in 1..n
  <2>1. 1 + (k - 1) = k
    OBVIOUS
  <2> QED
    BY <1>1, <1>4, <1>8, <2>1
<1>9. CASE k - 1 - n \in 1..N
  <2> DEFINE j == k - 1 - n
             x == ((j - 1) \div n) + 1
             y == ((j - 1) % n) + 1
  <2>1. 1 + n + j = k
    BY <1>1
  <2>2. j \in 1..(n * n)
    BY <1>9
  <2> HIDE DEF j
  <2>3. c[k] = <<a, hubs[x], hubs[y], b>>
    BY <1>1, <2>1, <2>2 DEF OverTwo
  <2>4. x \in 1..n /\ y \in 1..n
    BY <1>1, <2>2, GridCell
  <2> HIDE DEF x, y
  <2> QED
    BY <1>5, <2>3, <2>4
<1> QED
  BY <1>6, <1>7, <1>8, <1>9

\* and there is a candidate for each of them.
LEMMA ViaCandidate ==
    ASSUME hubs \in Seq(Asset), NEW a \in Asset, NEW b \in Asset,
           NEW c, c = Candidates(a, b), NEW path, Via(a, b, path)
    PROVE  \E k \in 1..Len(c) : c[k] = path
<1> DEFINE n == Len(hubs)
           m == Len(path)
<1>1. Listed(a, b, c, n)
  BY CandidateList
<1>2. /\ n \in Nat /\ n * n \in Nat /\ Len(c) = 1 + n + n * n
      /\ c[1] = <<a, b>>
      /\ \A i \in 1..n : c[1 + i] = <<a, hubs[i], b>>
      /\ \A j \in 1..(n * n) : c[1 + n + j] = OverTwo(a, b, n, j)
  <2> HIDE DEF n
  <2> QED
    BY <1>1 DEF Listed
<1>3. /\ path \in Seq(Asset) /\ m \in 2..4 /\ path[1] = a /\ path[m] = b
      /\ path \in [1..m -> Asset]
      /\ \A i \in 2..(m - 1) : path[i] \in Range(hubs)
  BY LenProperties DEF Via, Hops
<1>4. \A h \in Range(hubs) : \E i \in 1..n : hubs[i] = h
  BY LenProperties DEF Range
<1> HIDE DEF n, m
<1>5. CASE m = 2
  <2>1. path = <<a, b>>
    BY <1>3, <1>5
  <2>2. 1 \in 1..Len(c)
    BY <1>2
  <2> QED
    BY <1>2, <2>1, <2>2
<1>6. CASE m = 3
  <2>1. PICK i \in 1..n : hubs[i] = path[2]
    <3>1. 2 \in 2..(m - 1)
      BY <1>6
    <3> QED
      BY <1>3, <1>4, <3>1
  <2>2. path = <<a, path[2], b>>
    BY <1>3, <1>6
  <2>3. 1 + i \in 1..Len(c)
    <3> DEFINE N == n * n
    <3>1. N \in Nat /\ n \in Nat /\ Len(c) = 1 + n + N
      BY <1>2
    <3> HIDE DEF N
    <3> QED
      BY <3>1
  <2> QED
    BY <1>2, <2>1, <2>2, <2>3
<1>7. CASE m = 4
  <2>1. PICK i \in 1..n, j \in 1..n : hubs[i] = path[2] /\ hubs[j] = path[3]
    <3>1. 2 \in 2..(m - 1) /\ 3 \in 2..(m - 1)
      BY <1>7
    <3> QED
      BY <1>3, <1>4, <3>1
  <2>2. path = <<a, path[2], path[3], b>>
    BY <1>3, <1>7
  <2> DEFINE k == (i - 1) * n + j
  <2>3. k \in 1..(n * n) /\ (k - 1) \div n = i - 1 /\ (k - 1) % n = j - 1
    <3>1. IsCell(n, k, i, j)
      BY <1>2, GridIndex
    <3> QED
      BY <3>1 DEF IsCell
  <2> HIDE DEF k
  <2>4. c[1 + n + k] = path
    <3> DEFINE x == ((k - 1) \div n) + 1
               y == ((k - 1) % n) + 1
    <3>1. c[1 + n + k] = <<a, hubs[x], hubs[y], b>>
      BY <1>2, <2>3 DEF OverTwo
    <3>2. x = (i - 1) + 1 /\ y = (j - 1) + 1
      BY <2>3
    <3> HIDE DEF x, y
    <3>3. x = i /\ y = j
      BY <3>2
    <3> QED
      BY <2>1, <2>2, <3>1, <3>3
  <2>5. 1 + n + k \in 1..Len(c)
    <3> DEFINE N == n * n
    <3>1. k \in 1..N /\ N \in Nat /\ Len(c) = 1 + n + N
      BY <1>2, <2>3
    <3> HIDE DEF N
    <3> QED
      BY <1>2, <3>1
  <2> QED
    BY <2>4, <2>5
<1> QED
  BY <1>3, <1>5, <1>6, <1>7

\* What the loop of get_best_path has found after f[k]: among the first k candidates
\* that are not passed over, nothing better, and it is one of them.
FoundBest(c, x, k, found) ==
    /\ found.out \in Int /\ found.out >= Refused
    /\ \A j \in 1..k : ~Skipped(c[j]) => path_out(c[j], x) <= found.out
    /\ found.out # Refused =>
          \E j \in 1..k : ~Skipped(c[j]) /\ found = [path |-> c[j], out |-> path_out(c[j], x)]

\* get_best_path finds it among all the candidates.
LEMMA BestFound ==
    ASSUME RoutesInv, NEW a \in Asset, NEW b \in Asset, NEW x \in Int
    PROVE  LET c == Candidates(a, b) IN FoundBest(c, x, Len(c), get_best_path(a, b, x))
<1> DEFINE c == Candidates(a, b)
           N == Len(c)
           None == [path |-> <<>>, out |-> Refused]
           pays(k) == path_out(c[k], x)
           At(k, s) == IF Skipped(c[k]) THEN s ELSE Better(s, c[k], pays(k))
           Step(h) == [k \in 0..N |-> IF k = 0 THEN None ELSE At(k, h[k - 1])]
           best == CHOOSE h : h = Step(h)
           T == [path : {<<>>} \cup {c[k] : k \in 1..N}, out : Int]
           g == [k \in 1..N |-> [s \in T |-> At(k, s)]]
<1>1. get_best_path(a, b, x) = best[N]
  BY DEF get_best_path
<1>2. N \in Nat
  <2>1. Listed(a, b, c, Len(hubs))
    BY CandidateList DEF RoutesInv
  <2> QED
    BY <2>1, LenProperties DEF Listed
<1>3. \A k \in 1..N : pays(k) \in Int /\ pays(k) >= Refused
  <2>1. SUFFICES ASSUME NEW k \in 1..N PROVE pays(k) \in Int /\ pays(k) >= Refused
    OBVIOUS
  <2>2. Via(a, b, c[k])
    BY CandidateVia DEF RoutesInv
  <2> DEFINE p == c[k]
             H == Hops(p)
             amounts == get_path_amounts_out(p, x)
  <2>3. H \in Nat \ {0}
    <3>1. Len(p) \in 2..4
      BY <2>2 DEF Via
    <3> HIDE DEF p
    <3> QED
      BY <3>1 DEF Hops
  <2>4. /\ amounts \in [0..H -> Int]
        /\ \A i \in 1..H : amounts[i] = get_amount_out(p[i], p[i + 1], amounts[i - 1])
    BY <2>3, ForwardWalk
  <2>5. pays(k) = amounts[H]
    BY DEF path_out
  <2> HIDE DEF p, H, amounts, pays
  <2>6. amounts[H] = get_amount_out(p[H], p[H + 1], amounts[H - 1]) /\ amounts[H - 1] \in Int
    BY <2>3, <2>4
  <2>7. amounts[H] \in Int /\ amounts[H] >= Refused
    BY <2>6, AmountOut
  <2> QED
    BY <2>5, <2>7
<1> HIDE DEF pays, c
<1>4. None \in T /\ \A k \in 1..N, s \in T : At(k, s) \in T
  <2>1. None \in T
    BY DEF Refused
  <2>2. ASSUME NEW k \in 1..N, NEW s \in T PROVE At(k, s) \in T
    <3>1. [path |-> c[k], out |-> pays(k)] \in T
      BY <1>3
    <3> HIDE DEF T
    <3> QED
      BY <3>1 DEF Better
  <2> QED
    BY <2>1, <2>2
<1>5. \A k \in 1..N, s \in T : s.out \in Int
  OBVIOUS
<1> HIDE DEF T, At
<1>6. \E f \in [0..N -> T] : f[0] = None /\ \A k \in 1..N : f[k] = g[k][f[k - 1]]
  <2>1. g \in [1..N -> [T -> T]]
    BY <1>4
  <2> HIDE DEF g, N, None
  <2>2. \E f : IsLoop(f, T, None, N, g)
    BY <1>2, <1>4, <2>1, LoopDefined
  <2> QED
    BY <2>2 DEF IsLoop
<1>7. PICK f \in [0..N -> T] : f[0] = None /\ \A k \in 1..N : f[k] = At(k, f[k - 1])
  <2>1. PICK f \in [0..N -> T] : f[0] = None /\ \A k \in 1..N : f[k] = g[k][f[k - 1]]
    <3> HIDE DEF None, g
    <3> QED
      BY <1>6
  <2>2. \A k \in 1..N : f[k - 1] \in T
    BY <1>2, <2>1
  <2> HIDE DEF None
  <2> QED
    BY <2>1, <2>2
<1> HIDE DEF None
<1>8. f = Step(f)
  <2>1. \A k \in 0..N : k = 0 \/ k \in 1..N
    BY <1>2
  <2> QED
    BY <1>7, <2>1
<1>9. best = Step(best)
  <2> HIDE DEF Step
  <2> QED
    BY <1>8
<1> HIDE DEF best, N
<1>10. best[0] = None /\ \A k \in 1..N : best[k] = At(k, best[k - 1])
  <2>1. 0 \in 0..N /\ \A k \in 1..N : k \in 0..N /\ k # 0
    BY <1>2
  <2> QED
    BY <1>9, <2>1
<1> DEFINE P == {k \in 0..N : FoundBest(c, x, k, best[k])}
<1>11. 0 \in P
  <2>1. None.out = Refused /\ Refused \in Int
    BY DEF None, Refused
  <2> QED
    BY <1>2, <1>10, <2>1 DEF FoundBest
<1>12. ASSUME NEW k \in 1..N, k - 1 \in P PROVE k \in P
  <2> DEFINE s == best[k - 1]
             r == best[k]
             new == [path |-> c[k], out |-> pays(k)]
  <2>1. /\ s.out \in Int /\ s.out >= Refused
        /\ \A j \in 1..(k - 1) : ~Skipped(c[j]) => path_out(c[j], x) <= s.out
        /\ s.out # Refused =>
              \E j \in 1..(k - 1) : ~Skipped(c[j]) /\ s = [path |-> c[j], out |-> path_out(c[j], x)]
    BY <1>12 DEF FoundBest
  <2>2. r = IF Skipped(c[k]) THEN s ELSE Better(s, c[k], pays(k))
    BY <1>10 DEF At
  <2>3. pays(k) = path_out(c[k], x) /\ pays(k) \in Int /\ pays(k) >= Refused
    BY <1>3 DEF pays
  <2>4. /\ \A j \in 1..k : j = k \/ j \in 1..(k - 1)
        /\ \A j \in 1..(k - 1) : j \in 1..k
        /\ k \in 1..k /\ k \in 0..N
    BY <1>2
  <2>5. \A j \in 1..(k - 1) : path_out(c[j], x) \in Int
    BY <1>2, <1>3 DEF pays
  <2> HIDE DEF s, r
  <2>6. CASE Skipped(c[k]) \/ ~ (pays(k) > s.out)
    <3>1. r = s
      BY <2>2, <2>6 DEF Better
    <3>2. ~Skipped(c[k]) => path_out(c[k], x) <= s.out
      BY <2>1, <2>3, <2>6
    <3>3. FoundBest(c, x, k, r)
      BY <2>1, <2>4, <3>1, <3>2 DEF FoundBest
    <3> QED
      BY <2>4, <3>3 DEF r
  <2>7. CASE ~Skipped(c[k]) /\ pays(k) > s.out
    <3>1. r = new /\ r.out = pays(k)
      BY <2>2, <2>7 DEF Better
    <3>2. \A j \in 1..(k - 1) : ~Skipped(c[j]) => path_out(c[j], x) <= pays(k)
      BY <2>1, <2>3, <2>5, <2>7
    <3>3. \A j \in 1..k : ~Skipped(c[j]) => path_out(c[j], x) <= pays(k)
      BY <2>3, <2>4, <3>2
    <3>4. FoundBest(c, x, k, r)
      BY <2>3, <2>4, <2>7, <3>1, <3>3 DEF FoundBest
    <3> QED
      BY <2>4, <3>4 DEF r
  <2> QED
    BY <2>6, <2>7
<1>13. N \in P
  <2> HIDE DEF P
  <2>1. \A k \in 0..N : k \in P
    BY <1>2, <1>11, <1>12, UpTo
  <2> QED
    BY <1>2, <2>1
<1> QED
  BY <1>1, <1>13 DEF N, c

\* A path from a to b over hubs other than the two is one of the candidates that are
\* not passed over, and a candidate that is quoted is a path.
LEMMA BestIsBest == RoutesInv => BestPathIsBest
<1> SUFFICES ASSUME RoutesInv, NEW a \in Asset, NEW b \in Asset, NEW n \in Amounts, a # b
             PROVE  LET best == get_best_path(a, b, n)
                        Over == {path \in Paths :
                                   /\ path[1] = a /\ path[Len(path)] = b
                                   /\ \A i \in 2..Hops(path) : path[i] \in Range(hubs) \ {a, b}}
                    IN  /\ \A path \in Over : path_out(path, n) <= best.out
                        /\ best.out # Refused => /\ best.path \in Over
                                                 /\ path_out(best.path, n) = best.out
  BY DEF BestPathIsBest
<1> DEFINE best == get_best_path(a, b, n)
           Over == {path \in Paths :
                      /\ path[1] = a /\ path[Len(path)] = b
                      /\ \A i \in 2..Hops(path) : path[i] \in Range(hubs) \ {a, b}}
           c == Candidates(a, b)
<1>1. n \in Int /\ hubs \in Seq(Asset)
  BY RoutesAssumption DEF RoutesInv
<1>2. FoundBest(c, n, Len(c), best)
  BY <1>1, BestFound
<1>3. \A k \in 1..Len(c) : Via(a, b, c[k])
  BY <1>1, CandidateVia
<1>4. \A path : Via(a, b, path) => \E k \in 1..Len(c) : c[k] = path
  BY <1>1, ViaCandidate
<1> HIDE DEF c, best
<1>5. ASSUME NEW path \in Over PROVE path_out(path, n) <= best.out
  <2>1. Via(a, b, path)
    BY PathShape DEF Via
  <2>2. PICK k \in 1..Len(c) : c[k] = path
    BY <1>4, <2>1
  <2>3. ~Skipped(path)
    BY DEF Skipped
  <2> QED
    BY <1>2, <2>2, <2>3 DEF FoundBest
<1>6. ASSUME best.out # Refused PROVE best.path \in Over /\ path_out(best.path, n) = best.out
  <2>1. PICK k \in 1..Len(c) : ~Skipped(c[k]) /\ best = [path |-> c[k], out |-> path_out(c[k], n)]
    BY <1>2, <1>6 DEF FoundBest
  <2> DEFINE path == c[k]
             amounts == get_path_amounts_out(path, n)
  <2>2. best.path = path /\ best.out = path_out(path, n) /\ Via(a, b, path) /\ ~Skipped(path)
    BY <1>3, <2>1
  <2> HIDE DEF path
  <2>3. Hops(path) \in Nat \ {0}
    BY <2>2 DEF Via, Hops
  <2>4. amounts[Hops(path)] # Refused
    BY <1>6, <2>2 DEF path_out
  <2>5. Quoted(path, amounts)
    BY <1>1, <2>3, <2>4, ForwardQuoted
  <2>6. \A i \in 1..Hops(path) : {path[i], path[i + 1]} \in Pools
    BY <2>5 DEF Quoted, Quotable
  <2>7. path \in Paths
    BY <2>2, <2>6, PathOverPools DEF Via
  <2>8. path \in Over
    BY <2>2, <2>7 DEF Via, Skipped
  <2> QED
    BY <2>2, <2>8
<1> QED
  BY <1>5, <1>6 DEF best

-----------------------------------------------------------------------------
(***************************************************************************)
(* One swap of a pool.                                                      *)
(***************************************************************************)

\* The outputs of a hop that pays out of side t.
Only(t, out) == [u \in Token |-> IF u = t THEN out ELSE 0]

\* What a swap does to side t: the balance b after the output is paid, the input i
\* that is found, and what is left of b when the protocol has its cut.
SideSwapped(p, r, out, charged, t) ==
    LET b == SwapBalance(p, out, FALSE)[t]
        i == SwapInput(p, r, out, FALSE)[t]
        s == SwapResult(p, r, out, FALSE, charged, ProtocolBps)[t]
    IN  /\ b = p[t] - out[t] /\ b \in Nat
        /\ i = AtLeastZero(p[t] - r[t]) /\ i \in Nat /\ i <= b
        /\ s \in Nat /\ s <= b

\* A side that can pay its output is left with a natural number.
LEMMA SideAfterSwap ==
    ASSUME NEW p \in [Token -> Nat], NEW r \in [Token -> Nat], NEW out \in [Token -> Nat],
           NEW charged \in 0..BPS, NEW t \in Token, out[t] <= p[t], out[t] <= r[t]
    PROVE  SideSwapped(p, r, out, charged, t)
<1> USE MathAssumption
<1> DEFINE b == SwapBalance(p, out, FALSE)[t]
           i == SwapInput(p, r, out, FALSE)[t]
           s == SwapResult(p, r, out, FALSE, charged, ProtocolBps)[t]
           x == Least(i * charged * ProtocolBps, MaxI128)
           cut == x \div (BPS * BPS)
<1>1. p[t] \in Nat /\ r[t] \in Nat /\ out[t] \in Nat
  OBVIOUS
<1>2. b = p[t] - out[t]
  BY <1>1 DEF SwapBalance
<1>3. i = AtLeastZero(b - (r[t] - out[t]))
  BY DEF SwapInput
<1>4. s = b - cut
  BY DEF SwapResult, SwapCut, ProtocolCut
<1>5. x = IF i * charged * ProtocolBps <= MaxI128 THEN i * charged * ProtocolBps ELSE MaxI128
  BY DEF Least
<1> HIDE DEF b, i, s, x
<1>6. b \in Nat /\ b - (r[t] - out[t]) = p[t] - r[t]
  BY <1>1, <1>2
<1>7. i = AtLeastZero(p[t] - r[t]) /\ i \in Nat /\ i <= b
  BY <1>1, <1>2, <1>3, <1>6 DEF AtLeastZero
<1>8. ProtocolBps \in 0..BPS
  BY RoutesAssumption
<1>9. cut \in Nat /\ cut * BPS <= i * charged
  <2>1. BPS \in Nat \ {0} /\ MaxI128 \in Nat /\ i \in Nat
    BY <1>7
  <2> QED
    BY <1>5, <1>8, <2>1, ShareOfFee
<1> HIDE DEF cut
<1>10. b - cut \in Nat
  BY <1>6, <1>7, <1>9, LeftAfterShare
<1>11. s \in Nat /\ s <= b
  BY <1>4, <1>6, <1>9, <1>10
<1> QED
  BY <1>2, <1>6, <1>7, <1>11 DEF b, i, s, SideSwapped

(***************************************************************************)
(* The K check after a quote.  The pool held pIn and pOut, recorded R and   *)
(* S, was paid x and pays y; it charges c, at most the B - f of the quote.  *)
(***************************************************************************)

\* The fee-adjusted product is at least that of the recorded reserves.
LEMMA QuotePassesK ==
    ASSUME NEW R \in Nat, NEW S \in Nat, NEW x \in Nat, NEW y \in Nat, y < S,
           NEW pIn \in Nat, NEW pOut \in Nat, R <= pIn, S <= pOut,
           NEW c \in 0..BPS, NEW f \in Nat, f <= BPS - c,
           Covers(x, y, R, S, f)
    PROVE  LET left  == (pIn + x) * BPS - (pIn + x - R) * c
               right == (pOut - y) * BPS - (pOut - S) * c
           IN  /\ left \in Nat /\ right \in Nat
               /\ R * S * BPS * BPS <= left * right
<1> USE MathAssumption
<1> DEFINE left == (pIn + x) * BPS - (pIn + x - R) * c
           right == (pOut - y) * BPS - (pOut - S) * c
           k == BPS - c
           u == R * BPS + x * f
           v == (S - y) * BPS
           dIn == pIn + x - R
           dOut == pOut - S
<1>1. k \in Nat /\ f <= k /\ dIn \in Nat /\ x <= dIn /\ dOut \in Nat /\ S - y \in Nat
  OBVIOUS
<1>2. left = R * BPS + dIn * k /\ right = v + dOut * k
  BY SMT
<1> HIDE DEF left, right, k, dIn, dOut
<1>3. x * f <= dIn * k
  BY <1>1, MulMonoTwo
<1>4. R * BPS \in Nat /\ x * f \in Nat /\ dIn * k \in Nat /\ dOut * k \in Nat /\ v \in Nat
  BY <1>1, MulNat
<1>5. u \in Nat /\ left \in Nat /\ right \in Nat /\ u <= left /\ v <= right
  BY <1>2, <1>3, <1>4
<1>6. u * v <= left * right
  <2> HIDE DEF u, v
  <2> QED
    BY <1>4, <1>5, MulMonoTwo
<1>7. R * S * BPS * BPS <= u * v
  <2> DEFINE gain == x * (f * (S - y)) - R * y * BPS
  <2>1. R * y * BPS <= x * (f * (S - y))
    BY DEF Covers
  <2>2. x * (f * (S - y)) \in Int /\ R * y * BPS \in Int
    BY SMT
  <2>3. gain \in Nat
    BY <2>1, <2>2
  <2>4. u * v = R * S * BPS * BPS + gain * BPS
    BY SMT
  <2> HIDE DEF gain, u, v
  <2>5. gain * BPS \in Nat /\ R * S * BPS * BPS \in Nat
    BY <2>3, MulNat
  <2> QED
    BY <2>4, <2>5
<1>8. u * v \in Nat /\ left * right \in Nat /\ R * S * BPS * BPS \in Nat
  <2> HIDE DEF u, v
  <2> QED
    BY <1>4, <1>5, MulNat
<1>9. R * S * BPS * BPS <= left * right
  <2> DEFINE uv == u * v
             lr == left * right
             rs == R * S * BPS * BPS
  <2>1. rs \in Nat /\ uv \in Nat /\ lr \in Nat /\ rs <= uv /\ uv <= lr
    BY <1>6, <1>7, <1>8
  <2> HIDE DEF uv, lr, rs
  <2>2. rs <= lr
    BY <2>1
  <2> QED
    BY <2>2 DEF rs, lr
<1> QED
  BY <1>5, <1>9 DEF left, right

\* The products of the K check stay in range, and that of what is left.
ProductsFit(b, d, i, j, c, r, s) ==
    /\ Fits(b * BPS) /\ Fits(d * BPS) /\ Fits(i * c) /\ Fits(j * c) /\ Fits(r * s)
    /\ b * BPS - i * c \in Nat /\ d * BPS - j * c \in Nat
    /\ (b * BPS - i * c) * (d * BPS - j * c) <= MaxI128

\* They do if the product of the balances fits, scaled.
LEMMA CheckFits ==
    ASSUME NEW b \in Nat \ {0}, NEW d \in Nat \ {0}, Fits((b * d) * BPS * BPS),
           NEW i \in Nat, NEW j \in Nat, i <= b, j <= d, NEW c \in 0..BPS,
           NEW r \in Nat, NEW s \in Nat, r <= b, s <= d
    PROVE  ProductsFit(b, d, i, j, c, r, s)
<1> USE MathAssumption
<1> DEFINE bB == b * BPS
           dB == d * BPS
           all == bB * dB
           bd == b * d
           ic == i * c
           jc == j * c
           rs == r * s
           x == bB - ic
           y == dB - jc
<1>1. all = (b * d) * BPS * BPS
  BY SMT
<1>2. bB \in Nat \ {0} /\ dB \in Nat \ {0} /\ bd \in Nat /\ ic \in Nat /\ jc \in Nat /\ rs \in Nat
  BY MulNat, SMT
<1>3. ic <= bB /\ jc <= dB /\ rs <= bd
  BY MulMonoTwo
<1>4. b <= bB /\ d <= dB
  <2>1. b * 1 <= b * BPS /\ d * 1 <= d * BPS
    BY MulMonoTwo
  <2> QED
    BY <2>1
<1> HIDE DEF bB, dB, ic, jc, rs
<1>5. all \in Nat /\ all <= MaxI128
  BY <1>1, <1>2, MulNat DEF Fits
<1>6. bB <= all /\ dB <= all
  <2>1. bB * 1 <= bB * dB /\ 1 * dB <= bB * dB
    BY <1>2, MulMonoTwo
  <2> QED
    BY <1>2, <2>1
<1>7. bd <= all
  BY <1>2, <1>4, MulMonoTwo
<1>8. x \in Nat /\ y \in Nat /\ x <= bB /\ y <= dB
  BY <1>2, <1>3
<1> HIDE DEF x, y
<1>9. x * y <= all /\ x * y \in Nat
  BY <1>2, <1>8, MulMonoTwo, MulNat
<1> HIDE DEF all, bd
<1>10. bB <= MaxI128 /\ dB <= MaxI128 /\ ic <= MaxI128 /\ jc <= MaxI128 /\ rs <= MaxI128
  BY <1>2, <1>3, <1>5, <1>6, <1>7
<1>11. x * y <= MaxI128
  <2> DEFINE z == x * y
  <2>1. z \in Nat /\ z <= all
    BY <1>9
  <2> HIDE DEF z
  <2>2. z <= MaxI128
    BY <1>5, <2>1
  <2> QED
    BY <2>2 DEF z
<1> QED
  BY <1>8, <1>10, <1>11 DEF ProductsFit, Fits, bB, dB, ic, jc, rs, x, y

\* A pool that was paid what its output was quoted for makes the swap.  p is what it
\* held before, q what it holds when it is called.
LEMMA SwapPasses ==
    ASSUME NEW a, NEW b, {a, b} \in Pools,
           NEW p \in [Token -> Nat], NEW q \in [Token -> Nat], NEW r \in [Token -> Nat],
           \A t \in Token : r[t] <= p[t],
           NEW x \in Nat \ {0}, NEW y \in Nat \ {0},
           q[Side(a, b)] = p[Side(a, b)] + x, q[Side(b, a)] = p[Side(b, a)],
           NEW c \in 0..BPS, NEW f \in Nat, f <= BPS - c,
           r[Side(a, b)] >= MinReserve, r[Side(b, a)] - y >= MinReserve,
           Covers(x, y, r[Side(a, b)], r[Side(b, a)], f),
           Fits(((p[Side(a, b)] + x) * (p[Side(b, a)] - y)) * BPS * BPS)
    PROVE  /\ SwapAllowed(q, r, Only(Side(b, a), y), FALSE, c)
           /\ Fits(K(SwapResult(q, r, Only(Side(b, a), y), FALSE, c, ProtocolBps)))
<1> USE MathAssumption
<1> DEFINE in == Side(a, b)
           to == Side(b, a)
           out == Only(to, y)
           bal == SwapBalance(q, out, FALSE)
           inp == SwapInput(q, r, out, FALSE)
           left == SwapResult(q, r, out, FALSE, c, ProtocolBps)
           adj == [t \in Token |-> bal[t] * BPS - inp[t] * c]
<1>1. in \in Token /\ to \in Token /\ in # to /\ \A t \in Token : t = in \/ t = to
  BY PoolSides
<1>2. out \in [Token -> Nat] /\ out[in] = 0 /\ out[to] = y
  BY <1>1 DEF Only
<1>3. /\ p[in] \in Nat /\ p[to] \in Nat /\ r[in] \in Nat /\ r[to] \in Nat
      /\ r[in] <= p[in] /\ r[to] <= p[to] /\ q[in] = p[in] + x /\ q[to] = p[to]
      /\ y < r[to] /\ r[in] > 0
  BY <1>1
<1>4. /\ bal[in] = p[in] + x /\ inp[in] = p[in] + x - r[in]
      /\ bal[in] \in Nat \ {0} /\ inp[in] \in Nat /\ inp[in] <= bal[in] /\ inp[in] > 0
      /\ left[in] \in Nat /\ left[in] <= bal[in]
  <2>1. out[in] <= q[in] /\ out[in] <= r[in] /\ q[in] - out[in] = p[in] + x
    BY <1>2, <1>3
  <2>2. /\ bal[in] = q[in] - out[in] /\ inp[in] = AtLeastZero(q[in] - r[in])
        /\ inp[in] <= bal[in] /\ left[in] \in Nat /\ left[in] <= bal[in]
    <3>1. SideSwapped(q, r, out, c, in)
      <4> HIDE DEF in, out
      <4> QED
        BY <1>1, <1>2, <2>1, SideAfterSwap
    <3> HIDE DEF in, out
    <3> QED
      BY <3>1 DEF SideSwapped
  <2> HIDE DEF bal, inp, left, in, out
  <2> QED
    BY <1>3, <2>1, <2>2 DEF AtLeastZero
<1>5. /\ bal[to] = p[to] - y /\ inp[to] = p[to] - r[to]
      /\ bal[to] \in Nat \ {0} /\ inp[to] \in Nat /\ inp[to] <= bal[to]
      /\ left[to] \in Nat /\ left[to] <= bal[to]
  <2>1. out[to] <= q[to] /\ out[to] <= r[to] /\ q[to] - out[to] = p[to] - y
    BY <1>2, <1>3
  <2>2. /\ bal[to] = q[to] - out[to] /\ inp[to] = AtLeastZero(q[to] - r[to])
        /\ inp[to] <= bal[to] /\ left[to] \in Nat /\ left[to] <= bal[to]
    <3>1. SideSwapped(q, r, out, c, to)
      <4> HIDE DEF to, out
      <4> QED
        BY <1>1, <1>2, <2>1, SideAfterSwap
    <3> HIDE DEF to, out
    <3> QED
      BY <3>1 DEF SideSwapped
  <2> HIDE DEF bal, inp, left, to, out
  <2> QED
    BY <1>3, <2>1, <2>2 DEF AtLeastZero
<1>6. K(r) = r[in] * r[to]
  BY ProductOfSides
<1>7. left \in [Token -> Nat]
  <2>1. \A t \in Token : left[t] \in Nat
    <3> HIDE DEF left, in, to
    <3> QED
      BY <1>1, <1>4, <1>5
  <2> QED
    BY <2>1 DEF SwapResult
<1>8. K(left) = left[in] * left[to]
  <2> HIDE DEF left
  <2> QED
    BY <1>7, ProductOfSides
<1> HIDE DEF bal, inp, left, out
<1>9. Fits((bal[in] * bal[to]) * BPS * BPS)
  BY <1>4, <1>5
<1>10. /\ Fits(bal[in] * BPS) /\ Fits(bal[to] * BPS)
       /\ Fits(inp[in] * c) /\ Fits(inp[to] * c)
       /\ Fits(left[in] * left[to])
       /\ bal[in] * BPS - inp[in] * c \in Nat /\ bal[to] * BPS - inp[to] * c \in Nat
       /\ (bal[in] * BPS - inp[in] * c) * (bal[to] * BPS - inp[to] * c) <= MaxI128
  <2> DEFINE b1 == bal[in]
             b2 == bal[to]
             i1 == inp[in]
             i2 == inp[to]
             l1 == left[in]
             l2 == left[to]
  <2>1. /\ b1 \in Nat \ {0} /\ i1 \in Nat /\ l1 \in Nat /\ i1 <= b1 /\ l1 <= b1
        /\ b2 \in Nat \ {0} /\ i2 \in Nat /\ l2 \in Nat /\ i2 <= b2 /\ l2 <= b2
        /\ Fits((b1 * b2) * BPS * BPS)
    BY <1>4, <1>5, <1>9
  <2> HIDE DEF b1, b2, i1, i2, l1, l2
  <2>2. ProductsFit(b1, b2, i1, i2, c, l1, l2)
    BY <2>1, CheckFits
  <2> QED
    BY <2>2 DEF ProductsFit, b1, b2, i1, i2, l1, l2
<1>11. r[in] * r[to] * BPS * BPS
          <= (bal[in] * BPS - inp[in] * c) * (bal[to] * BPS - inp[to] * c)
  <2> HIDE DEF in, to
  <2>1. r[in] * r[to] * BPS * BPS
          <= ((p[in] + x) * BPS - (p[in] + x - r[in]) * c)
                * ((p[to] - y) * BPS - (p[to] - r[to]) * c)
    <3>1. Covers(x, y, r[in], r[to], f)
      BY DEF in, to
    <3> QED
      BY <1>3, <3>1, QuotePassesK
  <2> QED
    BY <1>4, <1>5, <2>1
<1>12. adj \in [Token -> Nat] /\ adj[in] = bal[in] * BPS - inp[in] * c
                             /\ adj[to] = bal[to] * BPS - inp[to] * c
  <2>1. \A t \in Token : bal[t] * BPS - inp[t] * c \in Nat
    <3> HIDE DEF in, to
    <3> QED
      BY <1>1, <1>10
  <2> QED
    BY <1>1, <2>1
<1>13. AdjustedK(bal, inp, c) = adj[in] * adj[to]
  <2>1. AdjustedK(bal, inp, c) = K(adj)
    BY DEF AdjustedK, K, Token
  <2> HIDE DEF adj
  <2> QED
    BY <1>12, <2>1, ProductOfSides
<1> HIDE DEF adj
<1>14. /\ AdjustedK(bal, inp, c) <= MaxI128
       /\ K(r) * BPS * BPS <= AdjustedK(bal, inp, c)
       /\ AdjustedK(bal, inp, c) \in Nat
  BY <1>6, <1>10, <1>11, <1>12, <1>13, MulNat
<1>15. Fits(K(r) * BPS * BPS) /\ Fits(AdjustedK(bal, inp, c)) /\ Fits(K(left))
  <2> DEFINE k == K(r) * BPS * BPS
             m == AdjustedK(bal, inp, c)
  <2>1. K(r) \in Nat
    BY <1>3, <1>6, MulNat
  <2>2. k \in Nat
    BY <2>1, MulNat
  <2>3. m \in Nat /\ k <= m /\ m <= MaxI128
    BY <1>14
  <2> HIDE DEF k, m
  <2>4. Fits(k) /\ Fits(m)
    BY <2>2, <2>3 DEF Fits
  <2> QED
    BY <1>8, <1>10, <2>4 DEF k, m
<1>16. \A t \in Token : Fits(bal[t] * BPS) /\ Fits(inp[t] * c)
  <2> HIDE DEF in, to
  <2> QED
    BY <1>1, <1>10
<1>17. \A t \in Token : out[t] < r[t] /\ r[t] - out[t] >= MinReserve /\ out[t] <= q[t]
  <2>1. out[in] < r[in] /\ r[in] - out[in] >= MinReserve /\ out[in] <= q[in]
    BY <1>2, <1>3
  <2>2. out[to] < r[to] /\ r[to] - out[to] >= MinReserve /\ out[to] <= q[to]
    BY <1>2, <1>3
  <2> HIDE DEF in, to
  <2> QED
    BY <1>1, <2>1, <2>2
<1>18. (\E t \in Token : out[t] > 0) /\ (\E t \in Token : inp[t] > 0)
  <2>1. out[to] > 0 /\ inp[in] > 0
    BY <1>2, <1>4
  <2> HIDE DEF in, to
  <2> QED
    BY <1>1, <2>1
<1>19. SwapAllowed(q, r, out, FALSE, c)
  <2>1. AdjustedK(bal, inp, c) >= K(r) * BPS * BPS
    <3> DEFINE k == K(r) * BPS * BPS
               m == AdjustedK(bal, inp, c)
    <3>1. k <= m /\ m \in Nat
      BY <1>14
    <3> HIDE DEF k, m
    <3>2. m >= k
      BY <3>1
    <3> QED
      BY <3>2 DEF k, m
  <2> QED
    BY <1>15, <1>16, <1>17, <1>18, <2>1 DEF SwapAllowed, bal, inp
<1> QED
  BY <1>15, <1>19 DEF out, left

-----------------------------------------------------------------------------
(***************************************************************************)
(* The hops of a call.                                                      *)
(***************************************************************************)

Ledger == [Pools -> [Token -> Nat]]

RouteState ==
    [ok : BOOLEAN, pool : Ledger, res : Ledger, fee : [Pools -> Fees], held : [Asset -> Nat]]

\* Every pool but p is as it was, and so is what the router holds.
OnlyTouches(s, q, p) ==
    /\ q \in RouteState /\ q.held = s.held
    /\ \A o \in Pools \ {p} : q.pool[o] = s.pool[o] /\ q.res[o] = s.res[o] /\ q.fee[o] = s.fee[o]

\* Nothing but what the pool holds of a has changed.
PaysOnly(s, q, a, b, n) ==
    /\ q.ok = s.ok /\ q.res = s.res /\ q.fee = s.fee
    /\ q.pool[{a, b}][Side(a, b)] = s.pool[{a, b}][Side(a, b)] + n
    /\ q.pool[{a, b}][Side(b, a)] = s.pool[{a, b}][Side(b, a)]

\* A payment to a pool.
LEMMA PaidState ==
    ASSUME NEW s \in RouteState, NEW a, NEW b, {a, b} \in Pools, NEW n \in Nat,
           NEW q, q = Paid(s, a, b, n)
    PROVE  OnlyTouches(s, q, {a, b}) /\ PaysOnly(s, q, a, b, n)
<1> DEFINE p == {a, b}
           in == Side(a, b)
           side == [s.pool[p] EXCEPT ![in] = s.pool[p][in] + n]
           ledger == [s.pool EXCEPT ![p] = side]
<1>1. /\ s.ok \in BOOLEAN /\ s.pool \in Ledger /\ s.res \in Ledger /\ s.fee \in [Pools -> Fees]
      /\ s.held \in [Asset -> Nat]
  BY DEF RouteState
<1>2. s = [ok |-> s.ok, pool |-> s.pool, res |-> s.res, fee |-> s.fee, held |-> s.held]
  BY DEF RouteState
<1>3. in \in Token /\ Side(b, a) \in Token /\ in # Side(b, a)
  BY PoolSides
<1>4. s.pool[p] \in [Token -> Nat] /\ s.pool[p][in] \in Nat
  BY <1>1, <1>3 DEF Ledger
<1>5. q = [s EXCEPT !.pool = ledger]
  BY DEF Paid
<1>6. /\ side \in [Token -> Nat] /\ side[in] = s.pool[p][in] + n
      /\ side[Side(b, a)] = s.pool[p][Side(b, a)]
      /\ \A t \in Token : side[t] >= s.pool[p][t]
  BY <1>3, <1>4
<1> HIDE DEF side, in
<1>7. /\ ledger \in Ledger /\ ledger[p] = side
      /\ \A o \in Pools \ {p} : ledger[o] = s.pool[o]
  BY <1>1, <1>6 DEF Ledger
<1> HIDE DEF ledger
<1>8. q = [ok |-> s.ok, pool |-> ledger, res |-> s.res, fee |-> s.fee, held |-> s.held]
  BY <1>2, <1>5
<1>9. /\ q.ok = s.ok /\ q.pool = ledger /\ q.res = s.res /\ q.fee = s.fee /\ q.held = s.held
      /\ q \in RouteState
  BY <1>1, <1>7, <1>8 DEF RouteState
<1> QED
  BY <1>6, <1>7, <1>9 DEF OnlyTouches, PaysOnly, in

\* The pool charges no more than its fee, and refuses only what SwapAllowed refuses.
ChargesAndMakes(s, q, a, b, out, rate) ==
    LET p == {a, b}
        charged == Least(s.fee[p], rate.charged)
    IN  /\ charged \in Fees /\ charged <= s.fee[p]
        /\ /\ p \notin frozen
           /\ SwapAllowed(s.pool[p], s.res[p], Only(Side(b, a), out), FALSE, charged)
           /\ Fits(K(SwapResult(s.pool[p], s.res[p], Only(Side(b, a), out), FALSE,
                                charged, ProtocolBps)))
           => q.ok = s.ok

\* A pool's swap, or its refusal.
LEMMA SwappedState ==
    ASSUME NEW s \in RouteState, NEW a, NEW b, {a, b} \in Pools, NEW out \in Nat,
           NEW rate \in Rates, NEW q, q = Swapped(s, a, b, out, rate)
    PROVE  OnlyTouches(s, q, {a, b}) /\ ChargesAndMakes(s, q, a, b, out, rate)
<1> USE MathAssumption
<1> DEFINE p == {a, b}
           charged == Least(s.fee[p], rate.charged)
           outs == Only(Side(b, a), out)
           result == SwapResult(s.pool[p], s.res[p], outs, FALSE, charged, ProtocolBps)
           Allowed == /\ p \notin frozen
                      /\ SwapAllowed(s.pool[p], s.res[p], outs, FALSE, charged)
                      /\ Fits(K(result))
<1>1. /\ s.ok \in BOOLEAN /\ s.pool \in Ledger /\ s.res \in Ledger /\ s.fee \in [Pools -> Fees]
      /\ s.held \in [Asset -> Nat]
  BY DEF RouteState
<1>2. s = [ok |-> s.ok, pool |-> s.pool, res |-> s.res, fee |-> s.fee, held |-> s.held]
  BY DEF RouteState
<1>3. /\ s.fee[p] \in Fees /\ rate.charged \in Fees /\ rate.next \in Fees
      /\ Fees \subseteq 0..(BPS - 1)
  BY <1>1, RoutesAssumption
<1>4. charged \in Fees /\ charged <= s.fee[p] /\ charged \in 0..BPS
  <2> DEFINE f == s.fee[p]
             g == rate.charged
  <2>1. f \in Fees /\ g \in Fees /\ f \in 0..(BPS - 1) /\ g \in 0..(BPS - 1)
    BY <1>3
  <2> HIDE DEF f, g
  <2>2. Least(f, g) \in Fees /\ Least(f, g) <= f /\ Least(f, g) \in 0..BPS
    BY <2>1 DEF Least
  <2> QED
    BY <2>2 DEF f, g
<1>5. q = IF Allowed
          THEN [s EXCEPT !.pool[p] = result, !.res[p] = result, !.fee[p] = rate.next]
          ELSE [s EXCEPT !.ok = FALSE]
  BY DEF Swapped, Only
<1>6. s.pool[p] \in [Token -> Nat] /\ s.res[p] \in [Token -> Nat] /\ outs \in [Token -> Nat]
  BY <1>1 DEF Ledger, Only
<1>7. CASE ~Allowed
  <2> HIDE DEF Allowed
  <2>1. q = [ok |-> FALSE, pool |-> s.pool, res |-> s.res, fee |-> s.fee, held |-> s.held]
    BY <1>2, <1>5, <1>7
  <2>2. /\ q \in RouteState /\ q.pool = s.pool /\ q.res = s.res /\ q.fee = s.fee
        /\ q.held = s.held
    BY <1>1, <2>1 DEF RouteState
  <2>3. OnlyTouches(s, q, p)
    BY <2>2 DEF OnlyTouches
  <2> QED
    BY <1>4, <1>7, <2>3 DEF Allowed, ChargesAndMakes
<1>8. CASE Allowed
  <2>1. \A t \in Token : outs[t] <= s.pool[p][t] /\ outs[t] <= s.res[p][t]
    <3>1. \A t \in Token : outs[t] <= s.pool[p][t] /\ outs[t] < s.res[p][t]
      BY <1>8 DEF SwapAllowed
    <3> HIDE DEF outs, p
    <3> QED
      BY <1>6, <3>1
  <2>2. \A t \in Token : result[t] \in Nat
    <3>1. SUFFICES ASSUME NEW t \in Token PROVE result[t] \in Nat
      OBVIOUS
    <3>2. SideSwapped(s.pool[p], s.res[p], outs, charged, t)
      <4> HIDE DEF outs, charged, p
      <4> QED
        BY <1>4, <1>6, <2>1, SideAfterSwap
    <3> QED
      BY <3>2 DEF SideSwapped
  <2>3. result \in [Token -> Nat]
    BY <2>2 DEF SwapResult
  <2> DEFINE pools == [s.pool EXCEPT ![p] = result]
             reserves == [s.res EXCEPT ![p] = result]
             fees == [s.fee EXCEPT ![p] = rate.next]
  <2> HIDE DEF result, Allowed
  <2>4. q = [ok |-> s.ok, pool |-> pools, res |-> reserves, fee |-> fees, held |-> s.held]
    BY <1>2, <1>5, <1>8
  <2>5. /\ pools \in Ledger /\ reserves \in Ledger /\ fees \in [Pools -> Fees]
        /\ pools[p] = result /\ reserves[p] = result
        /\ \A o \in Pools \ {p} : /\ pools[o] = s.pool[o] /\ reserves[o] = s.res[o]
                                  /\ fees[o] = s.fee[o]
    BY <1>1, <1>3, <2>3 DEF Ledger
  <2> HIDE DEF pools, reserves, fees
  <2>6. /\ q \in RouteState /\ q.ok = s.ok /\ q.held = s.held
        /\ q.pool = pools /\ q.res = reserves /\ q.fee = fees
    BY <1>1, <2>4, <2>5 DEF RouteState
  <2>7. OnlyTouches(s, q, p)
    BY <2>5, <2>6 DEF OnlyTouches
  <2> QED
    BY <1>4, <2>6, <2>7 DEF ChargesAndMakes
<1> QED
  BY <1>7, <1>8

\* What the router forwards is what it was paid: its balances are as they were.
LEMMA ForwardsAll ==
    ASSUME NEW s \in RouteState, NEW a \in Asset, NEW n \in Nat
    PROVE  [s EXCEPT !.held[a] = @ + n - n] = s
<1>1. s.held \in [Asset -> Nat]
  BY DEF RouteState
<1>2. s = [ok |-> s.ok, pool |-> s.pool, res |-> s.res, fee |-> s.fee, held |-> s.held]
  BY DEF RouteState
<1>3. s.held[a] + n - n = s.held[a]
  BY <1>1
<1>4. [s.held EXCEPT ![a] = s.held[a] + n - n] = s.held
  BY <1>1, <1>3
<1>5. [s EXCEPT !.held = [s.held EXCEPT ![a] = s.held[a] + n - n]] = s
  BY <1>2, <1>4
<1> QED
  BY <1>5

\* q is after, or what paying the next pool makes of it.
HopIs(q, s, after, path, amounts, i) ==
    q = IF ~s.ok THEN s
        ELSE IF i = Hops(path) \/ ~after.ok THEN after
        ELSE Paid(after, path[i + 1], path[i + 2], amounts[i])

\* A hop swaps and, unless it is the last one, pays the next pool what it was paid.
LEMMA HopCases ==
    ASSUME NEW path \in Paths, NEW amounts \in [0..Hops(path) -> Nat], NEW rate \in Rates,
           NEW i \in 1..Hops(path), NEW s \in RouteState,
           NEW after, after = Swapped(s, path[i], path[i + 1], amounts[i], rate)
    PROVE  HopIs(Hop(s, path, amounts, i, rate), s, after, path, amounts, i)
<1>1. {path[i], path[i + 1]} \in Pools /\ path[i + 1] \in Asset
  BY PathShape, PoolSides
<1>2. amounts[i] \in Nat
  <2>1. i \in 0..Hops(path)
    BY PathShape
  <2> QED
    BY <2>1
<1>3. after \in RouteState
  BY <1>1, <1>2, SwappedState DEF OnlyTouches
<1>4. [after EXCEPT !.held[path[i + 1]] = @ + amounts[i] - amounts[i]] = after
  <2> DEFINE a == path[i + 1]
             n == amounts[i]
  <2>1. a \in Asset /\ n \in Nat
    BY <1>1, <1>2
  <2> HIDE DEF a, n
  <2>2. [after EXCEPT !.held[a] = @ + n - n] = after
    BY <1>3, <2>1, ForwardsAll
  <2> QED
    BY <2>2 DEF a, n
<1> QED
  BY <1>4 DEF Hop, Forwarded, HopIs

\* It keeps the router's balances.
LEMMA HopState ==
    ASSUME NEW path \in Paths, NEW amounts \in [0..Hops(path) -> Nat], NEW rate \in Rates,
           NEW i \in 1..Hops(path), NEW s \in RouteState,
           NEW q, q = Hop(s, path, amounts, i, rate)
    PROVE  q \in RouteState /\ q.held = s.held
<1> DEFINE H == Hops(path)
<1> PICK after : after = Swapped(s, path[i], path[i + 1], amounts[i], rate)
  OBVIOUS
<1>1. H \in 1..3 /\ \A j \in 1..H : {path[j], path[j + 1]} \in Pools
  BY PathShape
<1>2. i \in 0..H /\ amounts[i] \in Nat
  BY <1>1
<1>3. after \in RouteState /\ after.held = s.held
  <2>1. OnlyTouches(s, after, {path[i], path[i + 1]})
    BY <1>1, <1>2, SwappedState
  <2> QED
    BY <2>1 DEF OnlyTouches
<1>4. q = IF ~s.ok THEN s
          ELSE IF i = H \/ ~after.ok THEN after
          ELSE Paid(after, path[i + 1], path[i + 2], amounts[i])
  <2>1. HopIs(q, s, after, path, amounts, i)
    BY HopCases
  <2> QED
    BY <2>1 DEF HopIs
<1>5. CASE i # H
  <2>1. i + 1 \in 1..H /\ (i + 1) + 1 = i + 2
    BY <1>1, <1>5
  <2>2. {path[i + 1], path[i + 2]} \in Pools
    BY <1>1, <2>1
  <2> PICK next : next = Paid(after, path[i + 1], path[i + 2], amounts[i])
    OBVIOUS
  <2>3. next \in RouteState /\ next.held = after.held
    <3>1. OnlyTouches(after, next, {path[i + 1], path[i + 2]})
      BY <1>2, <1>3, <2>2, PaidState
    <3> QED
      BY <3>1 DEF OnlyTouches
  <2>4. q = s \/ q = after \/ q = next
    BY <1>4
  <2> QED
    BY <1>3, <2>3, <2>4
<1>6. CASE i = H
  BY <1>3, <1>4, <1>6
<1> QED
  BY <1>5, <1>6

\* The state a call starts from, its first pool paid.
Start(path, amounts) ==
    Paid([ok |-> TRUE, pool |-> pool, res |-> res, fee |-> fee, held |-> held],
         path[1], path[2], amounts[0])

\* Execute makes hop after hop.
LEMMA ExecuteWalk ==
    ASSUME RoutesInv, NEW path \in Paths, NEW amounts \in [0..Hops(path) -> Nat],
           NEW rate \in Rates
    PROVE  \E f \in [0..Hops(path) -> RouteState] :
               /\ f[0] = Start(path, amounts)
               /\ \A i \in 1..Hops(path) : f[i] = Hop(f[i - 1], path, amounts, i, rate)
               /\ Execute(path, amounts, rate) = f[Hops(path)]
<1> DEFINE H == Hops(path)
           start == Start(path, amounts)
           At(i, s) == Hop(s, path, amounts, i, rate)
           Step(h) == [i \in 0..H |-> IF i = 0 THEN start ELSE At(i, h[i - 1])]
           c == CHOOSE h : h = Step(h)
           g == [i \in 1..H |-> [s \in RouteState |-> At(i, s)]]
<1>1. Execute(path, amounts, rate) = c[H]
  BY DEF Execute, Start
<1>2. H \in 1..3 /\ H \in Nat /\ {path[1], path[2]} \in Pools
  <2>1. H \in 1..3 /\ \A i \in 1..H : {path[i], path[i + 1]} \in Pools
    BY PathShape
  <2>2. 1 \in 1..H /\ 1 + 1 = 2
    BY <2>1
  <2> QED
    BY <2>1, <2>2
<1>3. start \in RouteState
  <2> DEFINE s == [ok |-> TRUE, pool |-> pool, res |-> res, fee |-> fee, held |-> held]
  <2>1. s \in RouteState
    BY DEF RouteState, Ledger, RoutesInv
  <2>2. amounts[0] \in Nat
    BY <1>2
  <2> HIDE DEF s
  <2>3. Paid(s, path[1], path[2], amounts[0]) \in RouteState
    BY <1>2, <2>1, <2>2, PaidState DEF OnlyTouches
  <2> QED
    BY <2>3 DEF Start, s
<1>4. \A i \in 1..H, s \in RouteState : At(i, s) \in RouteState
  BY HopState
<1> HIDE DEF At, start, H
<1>5. \E f \in [0..H -> RouteState] : f[0] = start /\ \A i \in 1..H : f[i] = g[i][f[i - 1]]
  <2> DEFINE T == RouteState
             v == start
  <2>1. H \in Nat /\ v \in T /\ g \in [1..H -> [T -> T]]
    BY <1>2, <1>3, <1>4
  <2> HIDE DEF g, T, v
  <2>2. \E f : IsLoop(f, T, v, H, g)
    BY <2>1, LoopDefined
  <2> QED
    BY <2>2 DEF T, v, IsLoop
<1>6. PICK f \in [0..H -> RouteState] : f[0] = start /\ \A i \in 1..H : f[i] = At(i, f[i - 1])
  <2>1. PICK f \in [0..H -> RouteState] : f[0] = start /\ \A i \in 1..H : f[i] = g[i][f[i - 1]]
    <3> HIDE DEF g
    <3> QED
      BY <1>5
  <2>2. \A i \in 1..H : f[i - 1] \in RouteState
    BY <1>2, <2>1
  <2> QED
    BY <2>1, <2>2
<1>7. f = Step(f)
  <2>1. \A i \in 0..H : i = 0 \/ i \in 1..H
    BY <1>2
  <2> QED
    BY <1>6, <2>1
<1>8. c = Step(c)
  <2> HIDE DEF Step
  <2> QED
    BY <1>7
<1> HIDE DEF c
<1>9. c[0] = start /\ \A i \in 1..H : c[i] = At(i, c[i - 1])
  <2>1. 0 \in 0..H /\ \A i \in 1..H : i \in 0..H /\ i # 0
    BY <1>2
  <2> QED
    BY <1>8, <2>1
<1>10. \A i \in 0..H : c[i] \in RouteState
  <2> DEFINE P == {i \in 0..H : c[i] \in RouteState}
  <2>1. 0 \in P
    BY <1>2, <1>3, <1>9
  <2>2. ASSUME NEW i \in 1..H, i - 1 \in P PROVE i \in P
    <3>1. i \in 0..H
      BY <1>2
    <3> QED
      BY <1>4, <1>9, <2>2, <3>1
  <2> HIDE DEF P
  <2>3. \A i \in 0..H : i \in P
    BY <1>2, <2>1, <2>2, UpTo
  <2> QED
    BY <2>3 DEF P
<1>11. c \in [0..H -> RouteState]
  <2>1. c = [i \in 0..H |-> c[i]]
    BY <1>8
  <2> QED
    BY <1>10, <2>1
<1> QED
  BY <1>1, <1>9, <1>11 DEF H, At, start

\* What a call writes is well formed, and the router's balances are as before.
LEMMA ExecuteState ==
    ASSUME RoutesInv, NEW path \in Paths, NEW amounts \in [0..Hops(path) -> Nat],
           NEW rate \in Rates, NEW s, s = Execute(path, amounts, rate)
    PROVE  s \in RouteState /\ s.held = held
<1> DEFINE H == Hops(path)
<1>1. PICK f \in [0..H -> RouteState] :
          /\ f[0] = Start(path, amounts)
          /\ \A i \in 1..H : f[i] = Hop(f[i - 1], path, amounts, i, rate)
          /\ s = f[H]
  BY ExecuteWalk
<1>2. H \in 1..3 /\ H \in Nat /\ {path[1], path[2]} \in Pools
  <2>1. H \in 1..3 /\ \A i \in 1..H : {path[i], path[i + 1]} \in Pools
    BY PathShape
  <2>2. 1 \in 1..H /\ 1 + 1 = 2
    BY <2>1
  <2> QED
    BY <2>1, <2>2
<1>3. f[0].held = held
  <2> DEFINE z == [ok |-> TRUE, pool |-> pool, res |-> res, fee |-> fee, held |-> held]
  <2>1. z \in RouteState /\ z.held = held
    BY DEF RouteState, Ledger, RoutesInv
  <2>2. amounts[0] \in Nat
    BY <1>2
  <2>3. f[0] = Paid(z, path[1], path[2], amounts[0])
    BY <1>1 DEF Start
  <2> HIDE DEF z
  <2>4. OnlyTouches(z, f[0], {path[1], path[2]})
    BY <1>2, <2>1, <2>2, <2>3, PaidState
  <2> QED
    BY <2>1, <2>4 DEF OnlyTouches
<1> DEFINE P == {i \in 0..H : f[i].held = held}
<1>4. \A i \in 0..H : i \in P
  <2>1. 0 \in P
    BY <1>2, <1>3
  <2>2. ASSUME NEW i \in 1..H, i - 1 \in P PROVE i \in P
    <3>1. i \in 0..H /\ f[i - 1] \in RouteState /\ f[i - 1].held = held
      BY <1>1, <1>2, <2>2
    <3>2. f[i].held = f[i - 1].held
      BY <1>1, <3>1, HopState
    <3> QED
      BY <3>1, <3>2
  <2> HIDE DEF P, H
  <2> QED
    BY <1>2, <2>1, <2>2, UpTo
<1>5. H \in 0..H
  BY <1>2
<1> QED
  BY <1>1, <1>4, <1>5

-----------------------------------------------------------------------------
(***************************************************************************)
(* A quoted route executes.                                                 *)
(***************************************************************************)

\* Pool {a, b} is as it was quoted, but for n units of a that it was paid since.
Awaits(s, a, b, n) ==
    /\ s.res[{a, b}] = res[{a, b}] /\ s.fee[{a, b}] = fee[{a, b}]
    /\ s.pool[{a, b}][Side(a, b)] = pool[{a, b}][Side(a, b)] + n
    /\ s.pool[{a, b}][Side(b, a)] = pool[{a, b}][Side(b, a)]

Untouched(s, p) == s.pool[p] = pool[p] /\ s.res[p] = res[p] /\ s.fee[p] = fee[p]

\* A pool that was paid what its output was quoted for makes the swap.
LEMMA SwapMade ==
    ASSUME RoutesInv, NEW s \in RouteState, NEW a, NEW b, Quotable(a, b), {a, b} \notin frozen,
           NEW x \in Nat \ {0}, NEW y \in Nat \ {0}, Pays(a, b, x, y), Awaits(s, a, b, x),
           In(a, b) >= MinReserve, Out(a, b) - y >= MinReserve,
           \A t \in Token : res[{a, b}][t] <= pool[{a, b}][t],
           Fits(((pool[{a, b}][Side(a, b)] + x) * (pool[{a, b}][Side(b, a)] - y)) * BPS * BPS),
           NEW rate \in Rates, NEW q, q = Swapped(s, a, b, y, rate)
    PROVE  q.ok = s.ok
<1> USE MathAssumption
<1> DEFINE p == {a, b}
           c == Least(s.fee[p], rate.charged)
           f == Kept(a, b)
<1>1. p \in Pools /\ fee[p] \in 0..(BPS - 1) /\ f \in Nat
  BY QuotablePool
<1>2. /\ c \in Fees /\ c <= s.fee[p]
      /\ /\ p \notin frozen
         /\ SwapAllowed(s.pool[p], s.res[p], Only(Side(b, a), y), FALSE, c)
         /\ Fits(K(SwapResult(s.pool[p], s.res[p], Only(Side(b, a), y), FALSE, c, ProtocolBps)))
         => q.ok = s.ok
  <2>1. ChargesAndMakes(s, q, a, b, y, rate)
    BY <1>1, SwappedState
  <2> QED
    BY <2>1 DEF ChargesAndMakes
<1>3. c \in 0..BPS /\ f <= BPS - c
  <2>1. c \in 0..(BPS - 1) /\ c <= fee[p]
    BY <1>2, RoutesAssumption DEF Awaits
  <2>2. f = BPS - fee[p]
    BY DEF Kept, fee_factor
  <2> HIDE DEF c, f, p
  <2> QED
    BY <1>1, <2>1, <2>2
<1>4. /\ pool[p] \in [Token -> Nat] /\ res[p] \in [Token -> Nat] /\ s.pool[p] \in [Token -> Nat]
      /\ \A t \in Token : res[p][t] <= pool[p][t]
  BY <1>1 DEF RoutesInv, RouteState, Ledger
<1>5. /\ s.res[p] = res[p] /\ s.pool[p][Side(a, b)] = pool[p][Side(a, b)] + x
      /\ s.pool[p][Side(b, a)] = pool[p][Side(b, a)]
  BY DEF Awaits
<1>6. /\ res[p][Side(a, b)] >= MinReserve /\ res[p][Side(b, a)] - y >= MinReserve
      /\ Covers(x, y, res[p][Side(a, b)], res[p][Side(b, a)], f)
  BY DEF In, Out, Pays
<1>7. /\ SwapAllowed(s.pool[p], res[p], Only(Side(b, a), y), FALSE, c)
      /\ Fits(K(SwapResult(s.pool[p], res[p], Only(Side(b, a), y), FALSE, c, ProtocolBps)))
  <2> HIDE DEF c, f
  <2> QED
    BY <1>1, <1>3, <1>4, <1>5, <1>6, SwapPasses
<1> QED
  BY <1>2, <1>5, <1>7

\* Every hypothesis of QuotedRouteExecutes.
Clear(path, amounts) ==
    /\ path \in Routable /\ Simple(path) /\ Quoted(path, amounts)
    /\ Backed(path) /\ FloorKept(path, amounts) /\ KChecksFit(path, amounts)

\* The first i hops are made: the next pool has been paid, those after it are untouched.
OnTheWay(s, path, amounts, i) ==
    /\ s.ok
    /\ i < Hops(path) => Awaits(s, path[i + 1], path[i + 2], amounts[i])
    /\ \A k \in (i + 2)..Hops(path) : Untouched(s, {path[k], path[k + 1]})

\* What Clear says of one hop.
LEMMA ClearHop ==
    ASSUME RoutesInv, NEW path, NEW amounts, Clear(path, amounts), NEW i \in 1..Hops(path),
           NEW a, a = path[i], NEW b, b = path[i + 1],
           NEW x, x = amounts[i - 1], NEW y, y = amounts[i]
    PROVE  /\ Quotable(a, b) /\ {a, b} \notin frozen /\ {a, b} \in Pools
           /\ x \in Nat \ {0} /\ y \in Nat \ {0} /\ Pays(a, b, x, y)
           /\ In(a, b) >= MinReserve /\ Out(a, b) - y >= MinReserve
           /\ \A t \in Token : res[{a, b}][t] <= pool[{a, b}][t]
           /\ Fits(((pool[{a, b}][Side(a, b)] + x) * (pool[{a, b}][Side(b, a)] - y))
                       * BPS * BPS)
<1>1. path \in Paths /\ {a, b} \notin frozen
  BY DEF Clear, Routable
<1>2. Hops(path) \in 1..3 /\ {a, b} \in Pools
  BY <1>1, PathShape
<1>3. i - 1 \in 0..Hops(path) /\ i \in 0..Hops(path)
  BY <1>2
<1>4. Quotable(a, b) /\ Pays(a, b, x, y) /\ x \in Nat \ {0} /\ y \in Nat \ {0}
  BY <1>3 DEF Clear, Quoted
<1>5. In(a, b) >= MinReserve /\ Out(a, b) - y >= MinReserve
  BY DEF Clear, FloorKept, In, Out
<1>6. Fits(((pool[{a, b}][Side(a, b)] + x) * (pool[{a, b}][Side(b, a)] - y)) * BPS * BPS)
  BY DEF Clear, KChecksFit
<1>7. \A t \in Token : res[{a, b}][t] <= pool[{a, b}][t]
  BY DEF Clear, Backed
<1> QED
  BY <1>1, <1>2, <1>4, <1>5, <1>6, <1>7

\* Hop i is made, and leaves the next pool paid.
LEMMA HopMade ==
    ASSUME RoutesInv, NEW path, NEW amounts, Clear(path, amounts), NEW rate \in Rates,
           NEW i \in 1..Hops(path), NEW s \in RouteState, OnTheWay(s, path, amounts, i - 1),
           NEW q, q = Hop(s, path, amounts, i, rate)
    PROVE  OnTheWay(q, path, amounts, i)
<1> DEFINE H == Hops(path)
<1> PICK a, b, x, y : a = path[i] /\ b = path[i + 1] /\ x = amounts[i - 1] /\ y = amounts[i]
  OBVIOUS
<1> PICK after : after = Swapped(s, a, b, y, rate)
  OBVIOUS
<1>1. path \in Paths /\ H \in 1..3 /\ \A k \in 1..H : {path[k], path[k + 1]} \in Pools
  <2>1. path \in Paths
    BY DEF Clear, Routable
  <2> QED
    BY <2>1, PathShape
<1>2. amounts \in [0..H -> Nat]
  BY DEF Clear, Quoted
<1>3. /\ Quotable(a, b) /\ {a, b} \notin frozen /\ {a, b} \in Pools
      /\ x \in Nat \ {0} /\ y \in Nat \ {0} /\ Pays(a, b, x, y)
      /\ In(a, b) >= MinReserve /\ Out(a, b) - y >= MinReserve
      /\ \A t \in Token : res[{a, b}][t] <= pool[{a, b}][t]
      /\ Fits(((pool[{a, b}][Side(a, b)] + x) * (pool[{a, b}][Side(b, a)] - y)) * BPS * BPS)
  BY ClearHop
<1>4. s.ok /\ Awaits(s, a, b, x) /\ \A k \in (i + 1)..H : Untouched(s, {path[k], path[k + 1]})
  <2>1. i - 1 < H /\ (i - 1) + 1 = i /\ (i - 1) + 2 = i + 1
    BY <1>1
  <2> QED
    BY <2>1 DEF OnTheWay
<1>5. after.ok
  <2>1. after.ok = s.ok
    BY <1>3, <1>4, SwapMade
  <2> QED
    BY <1>4, <2>1
<1>6. OnlyTouches(s, after, {a, b}) /\ after \in RouteState
  <2>1. OnlyTouches(s, after, {a, b})
    BY <1>3, SwappedState
  <2> QED
    BY <2>1 DEF OnlyTouches
<1>7. ASSUME NEW k \in (i + 1)..H PROVE Untouched(after, {path[k], path[k + 1]})
  <2>1. k \in 1..H /\ k # i
    BY <1>1
  <2>2. {path[k], path[k + 1]} \in Pools \ {{a, b}}
    BY <1>1, <2>1 DEF Clear, Simple
  <2>3. Untouched(s, {path[k], path[k + 1]})
    BY <1>4
  <2> QED
    BY <1>6, <2>2, <2>3 DEF OnlyTouches, Untouched
<1>8. q = IF i = H THEN after ELSE Paid(after, path[i + 1], path[i + 2], amounts[i])
  <2>1. HopIs(q, s, after, path, amounts, i)
    BY <1>1, <1>2, HopCases
  <2> QED
    BY <1>4, <1>5, <2>1 DEF HopIs
<1>9. CASE i = H
  <2>1. q = after /\ ~(i < H) /\ ~\E k \in (i + 2)..H : TRUE
    BY <1>1, <1>8, <1>9
  <2> QED
    BY <1>5, <2>1 DEF OnTheWay
<1>10. CASE i # H
  <2> PICK c : c = path[i + 2]
    OBVIOUS
  <2>1. i + 1 \in 1..H /\ (i + 1) + 1 = i + 2 /\ i + 1 \in (i + 1)..H
    BY <1>1, <1>10
  <2>2. {b, c} \in Pools /\ Untouched(after, {b, c})
    BY <1>1, <1>7, <2>1
  <2>3. q = Paid(after, b, c, y) /\ y \in Nat
    BY <1>3, <1>8, <1>10
  <2>4. OnlyTouches(after, q, {b, c}) /\ PaysOnly(after, q, b, c, y)
    BY <1>6, <2>2, <2>3, PaidState
  <2>5. Awaits(q, b, c, y)
    BY <2>2, <2>4 DEF Awaits, Untouched, PaysOnly
  <2>6. ASSUME NEW k \in (i + 2)..H PROVE Untouched(q, {path[k], path[k + 1]})
    <3>1. k \in 1..H /\ k \in (i + 1)..H /\ k # i + 1
      BY <1>1
    <3>2. {path[k], path[k + 1]} \in Pools \ {{b, c}}
      BY <1>1, <2>1, <3>1 DEF Clear, Simple
    <3>3. Untouched(after, {path[k], path[k + 1]})
      BY <1>7, <3>1
    <3> QED
      BY <2>4, <3>2, <3>3 DEF OnlyTouches, Untouched
  <2> QED
    BY <1>5, <2>4, <2>5, <2>6 DEF OnTheWay, PaysOnly
<1> QED
  BY <1>9, <1>10

\* So every hop is made.
LEMMA ClearRouteExecutes ==
    ASSUME RoutesInv, NEW path, NEW amounts, Clear(path, amounts), NEW rate \in Rates
    PROVE  Execute(path, amounts, rate).ok
<1> DEFINE H == Hops(path)
<1>1. path \in Paths /\ H \in 1..3 /\ H \in Nat /\ \A k \in 1..H : {path[k], path[k + 1]} \in Pools
  <2>1. path \in Paths
    BY DEF Clear, Routable
  <2> QED
    BY <2>1, PathShape
<1>2. amounts \in [0..H -> Nat]
  BY DEF Clear, Quoted
<1>3. PICK f \in [0..H -> RouteState] :
          /\ f[0] = Start(path, amounts)
          /\ \A i \in 1..H : f[i] = Hop(f[i - 1], path, amounts, i, rate)
          /\ Execute(path, amounts, rate) = f[H]
  BY <1>1, <1>2, ExecuteWalk
<1>4. OnTheWay(f[0], path, amounts, 0)
  <2> DEFINE z == [ok |-> TRUE, pool |-> pool, res |-> res, fee |-> fee, held |-> held]
  <2> PICK a, b, x, q : a = path[1] /\ b = path[2] /\ x = amounts[0] /\ q = f[0]
    OBVIOUS
  <2>1. z \in RouteState /\ z.ok /\ z.pool = pool /\ z.res = res /\ z.fee = fee
    BY DEF RouteState, Ledger, RoutesInv
  <2>2. q = Paid(z, a, b, x)
    BY <1>3 DEF Start
  <2>3. x \in Nat /\ 1 \in 1..H /\ 1 + 1 = 2
    BY <1>1, <1>2
  <2>4. {a, b} \in Pools
    BY <1>1, <2>3
  <2> HIDE DEF z
  <2>5. OnlyTouches(z, q, {a, b}) /\ PaysOnly(z, q, a, b, x)
    BY <2>1, <2>2, <2>3, <2>4, PaidState
  <2>6. Awaits(q, a, b, x) /\ q.ok
    BY <2>1, <2>5 DEF Awaits, PaysOnly
  <2>7. ASSUME NEW k \in 2..H PROVE Untouched(q, {path[k], path[k + 1]})
    <3>1. k \in 1..H /\ k # 1
      BY <1>1
    <3>2. {path[k], path[k + 1]} \in Pools \ {{a, b}}
      BY <1>1, <2>3, <3>1 DEF Clear, Simple
    <3> QED
      BY <2>1, <2>5, <3>2 DEF OnlyTouches, Untouched
  <2>8. 0 + 1 = 1 /\ 0 + 2 = 2
    OBVIOUS
  <2> QED
    BY <2>6, <2>7, <2>8 DEF OnTheWay
<1> DEFINE P == {i \in 0..H : OnTheWay(f[i], path, amounts, i)}
<1>5. \A i \in 0..H : i \in P
  <2>1. 0 \in P
    BY <1>1, <1>4
  <2>2. ASSUME NEW i \in 1..H, i - 1 \in P PROVE i \in P
    <3>1. i \in 0..H /\ f[i - 1] \in RouteState /\ OnTheWay(f[i - 1], path, amounts, i - 1)
      BY <1>1, <1>3, <2>2
    <3>2. OnTheWay(f[i], path, amounts, i)
      BY <1>3, <3>1, HopMade
    <3> QED
      BY <3>1, <3>2
  <2> HIDE DEF P, H
  <2> QED
    BY <1>1, <2>1, <2>2, UpTo
<1>6. H \in 0..H
  BY <1>1
<1> QED
  BY <1>3, <1>5, <1>6 DEF OnTheWay

\* QuotedRouteExecutes in every state that RoutesInv allows.
LEMMA RouteExecutes == RoutesInv => QuotedRouteExecutes
<1> SUFFICES ASSUME RoutesInv, NEW path \in Routable, NEW n \in Amounts, Simple(path),
                    NEW amounts \in {get_path_amounts_out(path, n), path_amounts_in(path, n)},
                    \A i \in 0..Hops(path) : amounts[i] # Refused,
                    Backed(path), FloorKept(path, amounts), KChecksFit(path, amounts),
                    NEW rate \in Rates
             PROVE  Execute(path, amounts, rate).ok
  BY DEF QuotedRouteExecutes
<1>1. path \in Paths /\ n \in Int
  BY RoutesAssumption DEF Routable
<1>2. Hops(path) \in 1..3
  BY <1>1, PathShape
<1>3. Hops(path) \in Nat \ {0} /\ 0 \in 0..Hops(path) /\ Hops(path) \in 0..Hops(path)
  BY <1>2
<1>4. amounts[0] # Refused /\ amounts[Hops(path)] # Refused
  BY <1>3
<1>5. Quoted(path, amounts)
  <2>1. CASE amounts = get_path_amounts_out(path, n)
    BY <1>1, <1>3, <1>4, <2>1, ForwardQuoted
  <2>2. CASE amounts = path_amounts_in(path, n)
    BY <1>1, <1>3, <1>4, <2>2, BackwardQuoted
  <2> QED
    BY <2>1, <2>2
<1>6. Clear(path, amounts)
  BY <1>5 DEF Clear
<1> QED
  BY <1>6, ClearRouteExecutes

-----------------------------------------------------------------------------
(***************************************************************************)
(* The invariant and the theorems.                                          *)
(***************************************************************************)

NothingKept == \A a \in Asset : held'[a] <= held[a]

\* A call that trades keeps RoutesInv, and leaves nothing on the router.
LEMMA CommitStep ==
    ASSUME RoutesInv, NEW path \in Paths, NEW amounts \in [0..Hops(path) -> Nat],
           NEW all \in BOOLEAN, Commit(path, amounts, all)
    PROVE  RoutesInv' /\ NothingKept
<1>1. PICK rate \in Rates :
          LET s == Execute(path, amounts, rate)
          IN  /\ s.ok
              /\ pool' = s.pool /\ res' = s.res /\ fee' = s.fee
              /\ held' = IF all THEN [s.held EXCEPT ![path[1]] = 0] ELSE s.held
  BY DEF Commit
<1> PICK s : s = Execute(path, amounts, rate)
  OBVIOUS
<1>2. s \in RouteState /\ s.held = held
  BY ExecuteState
<1>3. /\ pool' = s.pool /\ res' = s.res /\ fee' = s.fee /\ hubs' = hubs
      /\ held' = held \/ held' = [held EXCEPT ![path[1]] = 0]
  BY <1>1, <1>2 DEF Commit
<1>4. held \in [Asset -> Nat] /\ hubs \in Seq(Asset)
  BY DEF RoutesInv
<1>5. held' \in [Asset -> Nat] /\ NothingKept
  BY <1>3, <1>4 DEF NothingKept
<1>6. pool' \in Ledger /\ res' \in Ledger /\ fee' \in [Pools -> Fees]
  BY <1>2, <1>3 DEF RouteState
<1> QED
  BY <1>3, <1>4, <1>5, <1>6 DEF RoutesInv, Ledger

\* An exact-input call.
LEMMA ExactInputStep ==
    ASSUME RoutesInv, NEW path \in Paths, NEW n \in Nat, NEW least \in Nat,
           swap_exact_tokens_multi_hop(path, n, least)
    PROVE  RoutesInv' /\ NothingKept
<1> PICK amounts : amounts = get_path_amounts_out(path, n)
  OBVIOUS
<1>1. amounts[Hops(path)] # Refused /\ Commit(path, amounts, TRUE)
  BY DEF swap_exact_tokens_multi_hop
<1>2. Hops(path) \in Nat \ {0} /\ n \in Int
  BY PathShape
<1>3. amounts \in [0..Hops(path) -> Nat \ {0}]
  <2>1. Quoted(path, amounts)
    BY <1>1, <1>2, ForwardQuoted
  <2> QED
    BY <2>1 DEF Quoted
<1>4. amounts \in [0..Hops(path) -> Nat]
  BY <1>3
<1> QED
  BY <1>1, <1>4, CommitStep

\* An exact-output call.
LEMMA ExactOutputStep ==
    ASSUME RoutesInv, NEW path \in Paths, NEW n \in Nat, swap_tokens_for_exact_tokens(path, n)
    PROVE  RoutesInv' /\ NothingKept
<1> PICK amounts : amounts = path_amounts_in(path, n)
  OBVIOUS
<1>1. amounts[0] # Refused /\ Commit(path, amounts, FALSE)
  BY DEF swap_tokens_for_exact_tokens
<1>2. Hops(path) \in Nat \ {0} /\ n \in Int
  BY PathShape
<1>3. amounts \in [0..Hops(path) -> Nat \ {0}]
  <2>1. Quoted(path, amounts)
    BY <1>1, <1>2, BackwardQuoted
  <2> QED
    BY <2>1 DEF Quoted
<1>4. amounts \in [0..Hops(path) -> Nat]
  BY <1>3
<1> QED
  BY <1>1, <1>4, CommitStep

\* A call over the best path is an exact-input call over a path of the factory's pools.
LEMMA BestPathStep ==
    ASSUME RoutesInv, NEW a \in Asset, NEW b \in Asset, NEW n \in Amounts, NEW least \in Nat,
           swap_best_path(a, b, n, least)
    PROVE  RoutesInv' /\ NothingKept
<1> PICK best : best = get_best_path(a, b, n)
  OBVIOUS
<1>1. a # b /\ best.out # Refused /\ swap_exact_tokens_multi_hop(best.path, n, least)
  BY DEF swap_best_path
<1>2. best.path \in Paths
  BY <1>1, BestIsBest DEF BestPathIsBest
<1>3. n \in Nat
  BY RoutesAssumption
<1> QED
  BY <1>1, <1>2, <1>3, ExactInputStep

\* A transfer to a pool.
LEMMA SendToPoolStep ==
    ASSUME RoutesInv, NEW a \in Asset, NEW b \in Asset, NEW n \in Nat, SendToPool(a, b, n)
    PROVE  RoutesInv'
<1> DEFINE p == {a, b}
           in == Side(a, b)
           side == [pool[p] EXCEPT ![in] = pool[p][in] + n]
<1>1. p \in Pools /\ in \in Token
  <2>1. p \in Pools
    BY DEF SendToPool
  <2> QED
    BY <2>1, PoolSides
<1>2. pool' = [pool EXCEPT ![p] = side] /\ UNCHANGED <<res, fee, held, hubs>>
  BY DEF SendToPool
<1>3. pool[p] \in [Token -> Nat]
  BY <1>1 DEF RoutesInv
<1>4. side \in [Token -> Nat]
  <2> HIDE DEF p, in
  <2>1. pool[p][in] + n \in Nat
    BY <1>1, <1>3
  <2> QED
    BY <1>1, <1>3, <2>1
<1> HIDE DEF side
<1> QED
  BY <1>1, <1>2, <1>4 DEF RoutesInv

\* What an entry point of a pool does to the state.
Leaves(p, balances, reserves) ==
    /\ p \in Pools /\ balances \in [Token -> Nat] /\ reserves \in [Token -> Nat]
    /\ PoolLeaves(p, balances, reserves) /\ fee' \in [Pools -> Fees]

LEMMA LeavesStep ==
    ASSUME RoutesInv, NEW p, NEW balances, NEW reserves, Leaves(p, balances, reserves)
    PROVE  RoutesInv' /\ NothingKept
<1>1. /\ pool' = [pool EXCEPT ![p] = balances] /\ res' = [res EXCEPT ![p] = reserves]
      /\ held' = held /\ hubs' = hubs
  BY DEF Leaves, PoolLeaves
<1>2. p \in Pools /\ balances \in [Token -> Nat] /\ reserves \in [Token -> Nat]
      /\ fee' \in [Pools -> Fees]
  BY DEF Leaves
<1>3. RoutesInv'
  BY <1>1, <1>2 DEF RoutesInv
<1>4. \A a \in Asset : held'[a] \in Nat /\ held[a] \in Nat /\ held'[a] = held[a]
  BY <1>1 DEF RoutesInv
<1> QED
  BY <1>3, <1>4 DEF NothingKept

LEMMA SyncStep ==
    ASSUME RoutesInv, NEW p \in Pools, sync(p)
    PROVE  RoutesInv' /\ NothingKept
<1>1. Leaves(p, pool[p], pool[p])
  BY DEF sync, Leaves, RoutesInv
<1> QED
  BY <1>1, LeavesStep

LEMMA MintStep ==
    ASSUME RoutesInv, NEW p \in Pools, NEW deposit \in [Token -> Nat], mint(p, deposit)
    PROVE  RoutesInv' /\ NothingKept
<1> DEFINE funded == [t \in Token |-> pool[p][t] + deposit[t]]
<1>1. PoolLeaves(p, funded, funded) /\ fee' = fee
  BY DEF mint
<1>2. \A t \in Token : pool[p][t] \in Nat /\ deposit[t] \in Nat
  BY DEF RoutesInv
<1>3. funded \in [Token -> Nat]
  BY <1>2
<1> HIDE DEF funded
<1>4. Leaves(p, funded, funded)
  BY <1>1, <1>3 DEF Leaves, RoutesInv
<1> QED
  BY <1>4, LeavesStep

(***************************************************************************)
(* Redemptions and one-token deposits.                                      *)
(***************************************************************************)

\* A redemption never exceeds the reserve it is taken from.
LEMMA RedeemedBelow ==
    ASSUME NEW l \in Nat, NEW r \in Nat, NEW s \in Nat \ {0}, l <= s
    PROVE  burn_amount(l, r, s) \in Nat /\ burn_amount(l, r, s) <= r
<1>1. l * r \in Nat /\ l * r <= s * r
  BY MulNat, MulMono
<1> QED
  BY <1>1, DivFloor, DivBound DEF burn_amount

\* A quoted output never exceeds the reserve it is paid from.
LEMMA QuotedBelow ==
    ASSUME NEW a \in Nat, NEW r \in Nat \ {0}, NEW o \in Nat, NEW f \in 0..(BPS - 1)
    PROVE  quote_output_amount(a, r, o, f) \in Nat /\ quote_output_amount(a, r, o, f) <= o
<1> USE MathAssumption
<1> DEFINE x == a * fee_factor(f)
           d == r * BPS + x
<1>1. fee_factor(f) \in Nat
  BY DEF fee_factor
<1>2. x \in Nat
  BY <1>1, MulNat
<1>3. r * BPS \in Nat \ {0}
  BY SMT
<1> HIDE DEF x
<1>4. d \in Nat \ {0} /\ x <= d
  BY <1>2, <1>3
<1> HIDE DEF d
<1>5. x * o \in Nat /\ x * o <= d * o
  BY <1>2, <1>4, MulNat, MulMono
<1>6. quote_output_amount(a, r, o, f) = (x * o) \div d
  BY DEF quote_output_amount, x, d
<1> QED
  BY <1>4, <1>5, <1>6, DivFloor, DivBound

\* What a redemption of n LP out of all takes of a pool's reserves, and leaves.
Share(p, n, all) == [x \in Token |-> burn_amount(n, res[p][x], all)]
Left(p, n, all) == [x \in Token |-> res[p][x] - Share(p, n, all)[x]]

LEMMA ShareBounds ==
    ASSUME RoutesInv, NEW p \in Pools, NEW n, NEW all \in Nat, n \in 1..all
    PROVE  Share(p, n, all) \in [Token -> Nat] /\ Left(p, n, all) \in [Token -> Nat]
<1>1. \A x \in Token : res[p][x] \in Nat
  BY DEF RoutesInv
<1>2. n \in Nat /\ all \in Nat \ {0} /\ n <= all
  OBVIOUS
<1>3. \A x \in Token : /\ burn_amount(n, res[p][x], all) \in Nat
                       /\ burn_amount(n, res[p][x], all) <= res[p][x]
  BY <1>1, <1>2, RedeemedBelow
<1>4. Share(p, n, all) \in [Token -> Nat] /\ \A x \in Token : Share(p, n, all)[x] <= res[p][x]
  BY <1>3 DEF Share
<1>5. Left(p, n, all) \in [Token -> Nat]
  BY <1>1, <1>4 DEF Left
<1> QED
  BY <1>4, <1>5

LEMMA BurnStep ==
    ASSUME RoutesInv, NEW p \in Pools, NEW n \in Nat, NEW all \in Nat, burn(p, n, all)
    PROVE  RoutesInv' /\ NothingKept
<1> DEFINE share == Share(p, n, all)
           left == Left(p, n, all)
           paid == [t \in Token |-> pool[p][t] - share[t]]
<1>1. /\ n \in 1..all /\ \A t \in Token : share[t] <= pool[p][t]
      /\ PoolLeaves(p, paid, left) /\ fee' = fee
  BY DEF burn, Share, Left
<1>2. share \in [Token -> Nat] /\ left \in [Token -> Nat]
  BY <1>1, ShareBounds
<1> HIDE DEF share, left
<1>3. pool[p] \in [Token -> Nat] /\ fee \in [Pools -> Fees]
  BY DEF RoutesInv
<1>4. paid \in [Token -> Nat]
  BY <1>1, <1>2, <1>3
<1> HIDE DEF paid
<1>5. Leaves(p, paid, left)
  BY <1>1, <1>2, <1>3, <1>4 DEF Leaves
<1> QED
  BY <1>5, LeavesStep

LEMMA BurnSingleSideStep ==
    ASSUME RoutesInv, NEW p \in Pools, NEW t \in Token, NEW n \in Nat, NEW all \in Nat,
           burn_single_side(p, t, n, all)
    PROVE  RoutesInv' /\ NothingKept
<1> DEFINE o == Other(t)
           share == Share(p, n, all)
           left == Left(p, n, all)
           swapped(f) == IF left[t] = 0 THEN 0
                         ELSE quote_output_amount(share[o], left[o], left[t], f)
           final(f) == [x \in Token |-> IF x = t THEN left[t] - swapped(f) ELSE res[p][o]]
           paid(f) == [pool[p] EXCEPT ![t] = @ - (share[t] + swapped(f))]
<1>1. n \in 1..all /\ fee' = fee
  BY DEF burn_single_side
<1>2. PICK f \in Fees : /\ left[t] # 0 => left[o] > 0
                        /\ share[t] + swapped(f) <= pool[p][t]
                        /\ PoolLeaves(p, paid(f), final(f))
  BY DEF burn_single_side, Share, Left
<1>3. share \in [Token -> Nat] /\ left \in [Token -> Nat]
  BY <1>1, ShareBounds
<1>4. /\ pool[p] \in [Token -> Nat] /\ res[p] \in [Token -> Nat] /\ fee \in [Pools -> Fees]
      /\ o \in Token /\ f \in 0..(BPS - 1)
  BY RoutesAssumption DEF RoutesInv, Other, Token
<1> HIDE DEF share, left, o
<1>5. swapped(f) \in Nat /\ swapped(f) <= left[t]
  <2>1. share[o] \in Nat /\ left[o] \in Nat /\ left[t] \in Nat
    BY <1>3, <1>4
  <2>2. CASE left[t] = 0
    BY <2>2
  <2>3. CASE left[t] # 0
    <3>1. left[o] \in Nat \ {0}
      BY <1>2, <2>1, <2>3
    <3>2. /\ quote_output_amount(share[o], left[o], left[t], f) \in Nat
          /\ quote_output_amount(share[o], left[o], left[t], f) <= left[t]
      BY <1>4, <2>1, <3>1, QuotedBelow
    <3> QED
      BY <2>3, <3>2
  <2> QED
    BY <2>2, <2>3
<1> PICK out : out = swapped(f)
  OBVIOUS
<1> HIDE DEF swapped
<1>6. paid(f) \in [Token -> Nat] /\ final(f) \in [Token -> Nat]
  <2>1. share[t] \in Nat /\ left[t] \in Nat /\ pool[p][t] \in Nat /\ res[p][o] \in Nat
    BY <1>3, <1>4
  <2>2. left[t] - swapped(f) \in Nat /\ pool[p][t] - (share[t] + swapped(f)) \in Nat
    BY <1>2, <1>5, <2>1
  <2> QED
    BY <1>4, <2>1, <2>2
<1> HIDE DEF paid, final
<1>7. Leaves(p, paid(f), final(f))
  BY <1>1, <1>2, <1>4, <1>6 DEF Leaves
<1> QED
  BY <1>7, LeavesStep

\* A swap whose output stays with the pool leaves natural numbers.
LEMMA KeptSwapNat ==
    ASSUME NEW p \in [Token -> Nat], NEW r \in [Token -> Nat], NEW out \in [Token -> Nat],
           NEW charged \in 0..BPS, \A t \in Token : out[t] < r[t]
    PROVE  SwapResult(p, r, out, TRUE, charged, ProtocolBps) \in [Token -> Nat]
<1> USE MathAssumption
<1> SUFFICES ASSUME NEW t \in Token
             PROVE  SwapResult(p, r, out, TRUE, charged, ProtocolBps)[t] \in Nat
  BY DEF SwapResult
<1> DEFINE i == SwapInput(p, r, out, TRUE)[t]
           s == SwapResult(p, r, out, TRUE, charged, ProtocolBps)[t]
           x == Least(i * charged * ProtocolBps, MaxI128)
           cut == x \div (BPS * BPS)
<1>1. p[t] \in Nat /\ r[t] \in Nat /\ out[t] \in Nat /\ out[t] < r[t]
  OBVIOUS
<1>2. SwapBalance(p, out, TRUE)[t] = p[t]
  BY DEF SwapBalance
<1>3. i = AtLeastZero(p[t] - (r[t] - out[t]))
  BY <1>2 DEF SwapInput
<1>4. s = p[t] - cut
  BY <1>2 DEF SwapResult, SwapCut, ProtocolCut
<1>5. x = IF i * charged * ProtocolBps <= MaxI128 THEN i * charged * ProtocolBps ELSE MaxI128
  BY DEF Least
<1> HIDE DEF i, s, x
<1>6. i \in Nat /\ i <= p[t]
  BY <1>1, <1>3 DEF AtLeastZero
<1>7. cut \in Nat /\ cut * BPS <= i * charged
  <2>1. BPS \in Nat \ {0} /\ MaxI128 \in Nat /\ ProtocolBps \in 0..BPS
    BY RoutesAssumption
  <2> QED
    BY <1>5, <1>6, <2>1, ShareOfFee
<1> HIDE DEF cut
<1>8. p[t] - cut \in Nat
  BY <1>1, <1>6, <1>7, LeftAfterShare
<1> QED
  BY <1>4, <1>8 DEF s

LEMMA MintWithOneTokenStep ==
    ASSUME RoutesInv, NEW a \in Asset, NEW b \in Asset, NEW n \in Nat,
           mint_with_one_token(a, b, n)
    PROVE  RoutesInv' /\ NothingKept
<1> DEFINE p == {a, b}
           t == Side(a, b)
           o == Side(b, a)
           r == res[p]
           funded == [pool[p] EXCEPT ![t] = @ + n]
           in(f) == compute_swap_in_for_single_side(r[t], n, f)
           bought(f) == quote_output_amount(in(f), r[t], r[o], f)
           out(f) == [x \in Token |-> IF x = o THEN bought(f) ELSE 0]
           deposit(f) == [x \in Token |-> IF x = o THEN bought(f) ELSE n - in(f)]
           swapped(f, c) == SwapResult(funded, r, out(f), TRUE, c, ProtocolBps)
           total(f, c) == [x \in Token |-> swapped(f, c)[x] + deposit(f)[x]]
<1>1. p \in Pools /\ r[t] > 0 /\ r[o] > 0
  BY DEF mint_with_one_token
<1>2. PICK f \in Fees, rate \in Rates :
          LET c == Least(fee[p], rate.charged)
          IN  /\ in(f) \in 1..(n - 1)
              /\ SwapAllowed(funded, r, out(f), TRUE, c)
              /\ PoolLeaves(p, swapped(f, c), total(f, c))
              /\ fee' = [fee EXCEPT ![p] = rate.next]
  BY DEF mint_with_one_token
<1> PICK c : c = Least(fee[p], rate.charged)
  OBVIOUS
<1>3. t \in Token /\ o \in Token
  BY <1>1, PoolSides
<1>4. /\ pool[p] \in [Token -> Nat] /\ r \in [Token -> Nat] /\ fee \in [Pools -> Fees]
      /\ r[t] \in Nat \ {0} /\ r[o] \in Nat
  <2>1. pool[p] \in [Token -> Nat] /\ r \in [Token -> Nat] /\ fee \in [Pools -> Fees]
    BY <1>1 DEF RoutesInv
  <2>2. \A x \in Token : r[x] \in Nat
    BY <2>1
  <2>3. r[t] \in Nat /\ r[o] \in Nat
    BY <1>3, <2>2
  <2> HIDE DEF r, t, o
  <2>4. r[t] \in Nat \ {0}
    BY <1>1, <2>3
  <2> QED
    BY <2>1, <2>3, <2>4
<1>5. /\ in(f) \in 1..(n - 1) /\ SwapAllowed(funded, r, out(f), TRUE, c)
      /\ PoolLeaves(p, swapped(f, c), total(f, c))
  BY <1>2
<1> HIDE DEF in
<1>6. in(f) \in Nat /\ n - in(f) \in Nat /\ f \in 0..(BPS - 1)
  BY <1>5, RoutesAssumption
<1>7. bought(f) \in Nat
  <2> HIDE DEF r, t, o
  <2> QED
    BY <1>4, <1>6, QuotedBelow
<1> HIDE DEF bought, t, o, r
<1> HIDE DEF p
<1>8. out(f) \in [Token -> Nat] /\ deposit(f) \in [Token -> Nat] /\ funded \in [Token -> Nat]
  <2>1. out(f) \in [Token -> Nat]
    BY <1>7
  <2>2. deposit(f) \in [Token -> Nat]
    BY <1>6, <1>7
  <2>3. pool[p][t] + n \in Nat
    BY <1>3, <1>4
  <2>4. funded \in [Token -> Nat]
    BY <1>3, <1>4, <2>3
  <2> QED
    BY <2>1, <2>2, <2>4
<1> HIDE DEF out, deposit, funded
<1>9. c \in 0..BPS /\ fee' \in [Pools -> Fees]
  <2>1. fee[p] \in Fees /\ rate.charged \in Fees /\ rate.next \in Fees
        /\ Fees \subseteq 0..(BPS - 1)
    BY <1>1, <1>4, RoutesAssumption
  <2>2. c = fee[p] \/ c = rate.charged
    BY DEF Least
  <2>3. c \in Fees
    BY <2>1, <2>2
  <2>4. c \in 0..BPS
    <3>1. c \in 0..(BPS - 1)
      BY <2>1, <2>3
    <3>2. BPS \in Nat
      BY MathAssumption
    <3> QED
      BY <3>1, <3>2
  <2>5. fee' = [fee EXCEPT ![p] = rate.next]
    BY <1>2
  <2> QED
    BY <1>4, <2>1, <2>4, <2>5
<1>10. \A x \in Token : out(f)[x] < r[x]
  BY <1>5 DEF SwapAllowed
<1>11. swapped(f, c) \in [Token -> Nat]
  BY <1>4, <1>8, <1>9, <1>10, KeptSwapNat
<1> HIDE DEF swapped
<1>12. total(f, c) \in [Token -> Nat]
  <2>1. \A x \in Token : swapped(f, c)[x] + deposit(f)[x] \in Nat
    BY <1>8, <1>11
  <2> QED
    BY <2>1
<1> HIDE DEF total
<1>13. Leaves(p, swapped(f, c), total(f, c))
  BY <1>1, <1>5, <1>9, <1>11, <1>12 DEF Leaves
<1> QED
  BY <1>13, LeavesStep

-----------------------------------------------------------------------------
\* Every step keeps RoutesInv, and a step that writes a reserve leaves nothing on the
\* router.
LEMMA RoutesStep ==
    RoutesInv /\ [Next]_vars => RoutesInv' /\ (res' # res => NothingKept)
<1> SUFFICES ASSUME RoutesInv, [Next]_vars PROVE RoutesInv' /\ (res' # res => NothingKept)
  OBVIOUS
<1>1. Amounts \subseteq Nat /\ Mins \subseteq Nat /\ Gifts \subseteq Nat
      /\ Deposits \subseteq Nat /\ LpAmounts \subseteq Nat /\ LpSupplies \subseteq Nat
      /\ HubLists \subseteq Seq(Asset)
  BY RoutesAssumption
<1>2. CASE UNCHANGED vars
  BY <1>2 DEF vars, RoutesInv
<1>3. ASSUME NEW path \in Paths, NEW n \in Amounts, NEW least \in Mins,
             swap_exact_tokens_multi_hop(path, n, least)
      PROVE  RoutesInv' /\ NothingKept
  BY <1>1, <1>3, ExactInputStep
<1>4. ASSUME NEW path \in Paths, NEW n \in Amounts, swap_tokens_for_exact_tokens(path, n)
      PROVE  RoutesInv' /\ NothingKept
  BY <1>1, <1>4, ExactOutputStep
<1>5. ASSUME NEW a \in Asset, NEW b \in Asset, NEW n \in Amounts, NEW least \in Mins,
             swap_best_path(a, b, n, least)
      PROVE  RoutesInv' /\ NothingKept
  BY <1>1, <1>5, BestPathStep
<1>6. ASSUME NEW a \in Asset, sweep(a) PROVE RoutesInv' /\ res' = res
  <2>1. held' \in [Asset -> Nat]
    BY <1>6 DEF sweep, RoutesInv
  <2> QED
    BY <1>6, <2>1 DEF sweep, RoutesInv
<1>7. ASSUME NEW list \in HubLists, set_hubs(list) PROVE RoutesInv' /\ res' = res
  BY <1>1, <1>7 DEF set_hubs, RoutesInv
<1>8. ASSUME NEW a \in Asset, NEW n \in Gifts, SendToRouter(a, n) PROVE RoutesInv' /\ res' = res
  <2>1. held' \in [Asset -> Nat]
    BY <1>1, <1>8 DEF SendToRouter, RoutesInv
  <2> QED
    BY <1>8, <2>1 DEF SendToRouter, RoutesInv
<1>9. ASSUME NEW a \in Asset, NEW b \in Asset, NEW n \in Gifts, SendToPool(a, b, n)
      PROVE  RoutesInv' /\ res' = res
  <2>1. RoutesInv'
    BY <1>1, <1>9, SendToPoolStep
  <2> QED
    BY <1>9, <2>1 DEF SendToPool
<1>10. ASSUME NEW p \in Pools, set_frozen(p) PROVE RoutesInv' /\ res' = res
  BY <1>10 DEF set_frozen, RoutesInv
<1>11. ASSUME NEW p \in Pools, sync(p) PROVE RoutesInv' /\ NothingKept
  BY <1>11, SyncStep
<1>12. ASSUME NEW p \in Pools, NEW deposit \in [Token -> Deposits], mint(p, deposit)
       PROVE  RoutesInv' /\ NothingKept
  <2>1. deposit \in [Token -> Nat]
    BY <1>1
  <2> QED
    BY <1>12, <2>1, MintStep
<1>13. ASSUME NEW p \in Pools, NEW n \in LpAmounts, NEW all \in LpSupplies, burn(p, n, all)
       PROVE  RoutesInv' /\ NothingKept
  BY <1>1, <1>13, BurnStep
<1>14. ASSUME NEW p \in Pools, NEW n \in LpAmounts, NEW all \in LpSupplies, NEW t \in Token,
              burn_single_side(p, t, n, all)
       PROVE  RoutesInv' /\ NothingKept
  BY <1>1, <1>14, BurnSingleSideStep
<1>15. ASSUME NEW a \in Asset, NEW b \in Asset, NEW n \in Deposits, mint_with_one_token(a, b, n)
       PROVE  RoutesInv' /\ NothingKept
  BY <1>1, <1>15, MintWithOneTokenStep
<1> QED
  BY <1>2, <1>3, <1>4, <1>5, <1>6, <1>7, <1>8, <1>9, <1>10, <1>11, <1>12, <1>13, <1>14, <1>15
     DEF Next

\* The inductive invariant: the pools' balances and reserves, their fees, the router's
\* balances and the hubs stay what the code can store, through every call of the
\* router and every entry point of a pool; no subtraction of theirs underflows.
THEOREM RoutesInvariance == Spec => []RoutesInv
<1>1. Init => RoutesInv
  <2> SUFFICES ASSUME Init PROVE RoutesInv
    OBVIOUS
  <2>1. PICK start \in Starts : pool = start.pool /\ res = start.res
    BY DEF Init
  <2>2. /\ start.pool \in [Pools -> [Token -> Nat]] /\ start.res \in [Pools -> [Token -> Nat]]
        /\ HubLists \subseteq Seq(Asset) /\ BaselineFee \in Fees
    BY RoutesAssumption
  <2>3. fee \in [Pools -> Fees] /\ held \in [Asset -> Nat] /\ hubs \in Seq(Asset)
    BY <2>2 DEF Init
  <2> QED
    BY <2>1, <2>2, <2>3 DEF RoutesInv
<1>2. RoutesInv /\ [Next]_vars => RoutesInv'
  BY RoutesStep
<1> QED
  BY <1>1, <1>2, PTL DEF Spec

\* The routing theorem: a route that was quoted can be made.  Whatever the pools hold
\* beyond their reserves, are sent and charge, the amounts that the router's walks quote
\* before the first hop pass the K check of every pool they visit.
THEOREM QuotedRoutes == Spec => []QuotedRouteExecutes
<1>1. RoutesInv => QuotedRouteExecutes
  BY RouteExecutes
<1> QED
  BY <1>1, RoutesInvariance, PTL

\* swap_tokens_for_exact_tokens asks a path for the least input that pays the output:
\* no hop's rounding up is wasted, none falls short.
THEOREM ExactOutputIsLeast == Spec => []PathInputLeast
<1>1. RoutesInv => PathInputLeast
  BY LeastInput
<1> QED
  BY <1>1, RoutesInvariance, PTL

\* The per-hop minimums of swap_exact_tokens_multi_hop never refuse a route that meets
\* amount_out_min.
THEOREM HopMinimumsNeverRefuse == Spec => []HopMinimumsImplied
<1>1. RoutesInv => HopMinimumsImplied
  BY MinimumsMet
<1> QED
  BY <1>1, RoutesInvariance, PTL

\* get_best_path's loops over the hubs find the best of all the paths over hubs.
THEOREM BestPathFound == Spec => []BestPathIsBest
<1>1. RoutesInv => BestPathIsBest
  BY BestIsBest
<1> QED
  BY <1>1, RoutesInvariance, PTL

\* A call that trades leaves nothing on the router, whatever the route.
THEOREM NothingLeftOnRouter == Spec => NothingStranded
<1> DEFINE A == res' # res => \A a \in Asset : held'[a] <= held[a]
<1>1. RoutesInv /\ [Next]_vars => [A]_vars
  BY RoutesStep DEF NothingKept
<1>2. Spec => [][A]_vars
  BY <1>1, RoutesInvariance, PTL DEF Spec
<1> QED
  BY <1>2 DEF NothingStranded

\* compute_swap_in_for_single_side solves its quadratic to the unit for every deposit,
\* reserve and fee, two divisions and a rounded root notwithstanding.
THEOREM SplitIsExact == Spec => []SplitSolvesQuadratic
<1>1. RoutesInv => SplitSolvesQuadratic
  <2> SUFFICES ASSUME RoutesInv, NEW p \in Pools, NEW t \in Token, NEW s \in Amounts
               PROVE  LET r == res[p][t]
                          f == fee_factor(fee[p])
                          x == compute_swap_in_for_single_side(r, s, fee[p])
                      IN  /\ f * x * x + r * (BPS + f) * x <= BPS * r * s
                          /\ BPS * r * s < f * (x + 1) * (x + 1) + r * (BPS + f) * (x + 1)
    BY DEF SplitSolvesQuadratic
  <2>1. /\ res \in [Pools -> [Token -> Nat]] /\ fee \in [Pools -> Fees]
        /\ Fees \subseteq 0..(BPS - 1) /\ Amounts \subseteq Nat
    BY RoutesAssumption DEF RoutesInv
  <2>2. res[p][t] \in Nat /\ s \in Nat /\ fee[p] \in 0..(BPS - 1)
    BY <2>1
  <2> QED
    BY <2>2, SplitIsRoot
<1> QED
  BY <1>1, RoutesInvariance, PTL

\* math::sqrt's and math::sqrt_u256's loop ends, and ends at the integer square root:
\* the first deposit of a pool mints what AmmMath says it mints.
THEOREM NewtonFindsRoot == Spec => []NewtonIsRoot
<1>1. NewtonIsRoot
  BY NewtonEndsAtRoot DEF NewtonIsRoot
<1> QED
  BY <1>1, PTL

=============================================================================
