-------------------------- MODULE LedgerArithmetic --------------------------
(***************************************************************************)
(* The arithmetic under the proofs: products and quotients of naturals, the *)
(* least member of a set of naturals, and sums over finite sets.            *)
(***************************************************************************)
EXTENDS Integers, FiniteSets, Functions, FiniteSetTheorems, WellFoundedInduction, TLAPS

(***************************************************************************)
(* Products of naturals, and their monotonicity.                            *)
(***************************************************************************)
LEMMA MulNat ==
    ASSUME NEW a \in Nat, NEW b \in Nat
    PROVE  a * b \in Nat
BY SMT

\* A product grows with its left factor.
LEMMA MulMono ==
    ASSUME NEW a \in Int, NEW b \in Int, a <= b, NEW c \in Nat
    PROVE  a * c <= b * c
BY SMT

\* A product grows with both factors.
LEMMA MulMonoTwo ==
    ASSUME NEW a \in Nat, NEW b \in Nat, NEW c \in Nat, NEW d \in Nat,
           a <= c, b <= d
    PROVE  a * b <= c * d
<1>1. a * b <= c * b
  BY MulMono
<1>2. b * c <= d * c
  BY MulMono
<1> QED
  BY <1>1, <1>2, SMT

\* A positive factor can be cancelled from an inequality of products.
LEMMA MulCancel ==
    ASSUME NEW a \in Int, NEW b \in Int, NEW c \in Nat \ {0}, a * c <= b * c
    PROVE  a <= b
<1>1. SUFFICES ASSUME b + 1 <= a PROVE FALSE
  OBVIOUS
<1>2. (b + 1) * c <= a * c
  BY <1>1, MulMono
<1> QED
  BY <1>2, SMT

(***************************************************************************)
(* Floor division: the quotient is the largest q with d * q <= x.           *)
(***************************************************************************)
LEMMA DivFloor ==
    ASSUME NEW x \in Nat, NEW d \in Nat \ {0}
    PROVE  /\ x \div d \in Nat
           /\ d * (x \div d) <= x
           /\ x < d * (x \div d) + d
BY SMT

\* A quotient is at most r when the dividend is at most r times the divisor.
LEMMA DivBound ==
    ASSUME NEW x \in Nat, NEW d \in Nat \ {0}, NEW r \in Nat, x <= d * r
    PROVE  x \div d <= r
<1> DEFINE q == x \div d
<1>1. q \in Nat /\ d * q <= x
  BY DivFloor
<1> HIDE DEF q
<1>2. SUFFICES ASSUME q >= r + 1 PROVE FALSE
  BY <1>1 DEF q
<1>3. (r + 1) * d <= q * d
  BY <1>1, <1>2, MulMono
<1> QED
  BY <1>1, <1>3, SMT

\* A quotient grows with its dividend.
LEMMA DivMono ==
    ASSUME NEW x \in Nat, NEW y \in Nat, x <= y, NEW d \in Nat \ {0}
    PROVE  x \div d <= y \div d
<1> DEFINE p == x \div d
           q == y \div d
<1>1. p \in Nat /\ q \in Nat /\ d * p <= x /\ y < d * q + d
  BY DivFloor
<1> HIDE DEF p, q
<1>2. SUFFICES ASSUME p >= q + 1 PROVE FALSE
  BY <1>1 DEF p, q
<1>3. (q + 1) * d <= p * d
  BY <1>1, <1>2, MulMono
<1> QED
  BY <1>1, <1>3, SMT

\* Dividing by more than 1 makes a positive number smaller.
LEMMA DivShrinks ==
    ASSUME NEW x \in Nat, NEW d \in Nat, d >= 2
    PROVE  /\ x \div d \in Nat /\ x \div d <= x
           /\ x > 0 => x \div d < x
<1> DEFINE q == x \div d
<1>1. q \in Nat /\ d * q <= x
  BY DivFloor
<1> HIDE DEF q
<1>2. 2 * q <= d * q
  BY <1>1, MulMono
<1>3. q <= x /\ (x > 0 => q < x)
  <2>1. d * q \in Nat
    BY <1>1, MulNat
  <2> QED
    BY <1>1, <1>2, <2>1
<1> QED
  BY <1>1, <1>3 DEF q

\* A share of a fee, of bps out of B, is at most the fee, although it is computed in
\* one division and the product may have been capped at M.
LEMMA ShareOfFee ==
    ASSUME NEW B \in Nat \ {0}, NEW M \in Nat, NEW input \in Nat,
           NEW fee \in 0..B, NEW bps \in 0..B,
           NEW x, x = IF input * fee * bps <= M THEN input * fee * bps ELSE M
    PROVE  x \div (B * B) \in Nat /\ (x \div (B * B)) * B <= input * fee
<1> DEFINE c == x \div (B * B)
<1>1. input * fee \in Nat /\ B * B \in Nat \ {0}
  BY MulNat, SMT
<1>2. (input * fee) * bps \in Nat /\ bps * (input * fee) <= B * (input * fee)
  BY <1>1, MulNat, MulMono
<1>3. x \in Nat /\ x <= B * (input * fee)
  BY <1>1, <1>2, SMT
<1>4. c \in Nat /\ (B * B) * c <= x
  BY <1>1, <1>3, DivFloor
<1> HIDE DEF c
<1>5. (c * B) * B <= (input * fee) * B
  BY <1>1, <1>3, <1>4, SMT
<1>6. c * B <= input * fee
  BY <1>1, <1>4, <1>5, MulNat, MulCancel
<1> QED
  BY <1>4, <1>6 DEF c

\* What such a share c leaves of the balance that the fee was taken on is at least
\* the balance without the fee, which is itself not negative.
LEMMA LeftAfterShare ==
    ASSUME NEW B \in Nat \ {0}, NEW balance \in Nat, NEW input \in Nat, input <= balance,
           NEW fee \in 0..B, NEW c \in Nat, c * B <= input * fee
    PROVE  /\ balance * B - input * fee \in Nat
           /\ balance - c \in Nat
           /\ (balance - c) * B \in Nat
           /\ balance * B - input * fee <= (balance - c) * B
<1>1. input * fee \in Nat /\ balance * B \in Nat /\ input * fee <= balance * B
  BY MulNat, MulMonoTwo
<1>2. c * B <= balance * B
  BY <1>1, MulNat
<1>3. c <= balance
  BY <1>2, MulCancel
<1>4. (balance - c) * B = balance * B - c * B
  BY SMT
<1>5. c * B \in Nat
  BY MulNat
<1> QED
  BY <1>1, <1>2, <1>3, <1>4, <1>5

(***************************************************************************)
(* Induction over the naturals, in the form the provers can follow: a set   *)
(* of counterexamples that is not empty has a least one.                    *)
(***************************************************************************)
LEMMA LeastNat ==
    ASSUME NEW T, T \subseteq Nat, T # {}
    PROVE  \E n \in T : \A m \in T : n <= m
<1>1. PICK n \in T : \A m \in T : ~ (<<m, n>> \in OpToRel(<, Nat))
  BY NatLessThanWellFounded, WFMin
<1>2. \A m \in T : ~ (m < n)
  BY <1>1 DEF OpToRel
<1> QED
  BY <1>2

\* What holds of 0 and of i whenever it holds of i - 1 holds of all numbers up to n.
LEMMA UpTo ==
    ASSUME NEW n \in Nat, NEW P, 0 \in P, \A i \in 1..n : i - 1 \in P => i \in P
    PROVE  \A i \in 0..n : i \in P
<1> DEFINE Bad == {i \in 0..n : i \notin P}
<1>1. SUFFICES ASSUME Bad # {} PROVE FALSE
  OBVIOUS
<1>2. Bad \subseteq Nat
  OBVIOUS
<1>3. PICK i \in Bad : \A j \in Bad : i <= j
  <2> HIDE DEF Bad
  <2> QED
    BY <1>1, <1>2, LeastNat
<1>4. i \in 1..n /\ i - 1 \in 0..n
  BY <1>3
<1>5. i - 1 \notin Bad
  <2> HIDE DEF Bad
  <2>1. ~ (i <= i - 1)
    BY <1>4
  <2> QED
    BY <1>3, <2>1
<1> QED
  BY <1>3, <1>4, <1>5

\* f lists the values of a loop of n steps from v whose i-th step is g[i].
IsLoop(f, T, v, n, g) ==
    f \in [0..n -> T] /\ f[0] = v /\ \A i \in 1..n : f[i] = g[i][f[i - 1]]

\* A loop of n steps from v, whose i-th step is the function g[i] of T, has a list of
\* the values it passes through.
LEMMA LoopDefined ==
    ASSUME NEW T, NEW v \in T, NEW n \in Nat, NEW g \in [1..n -> [T -> T]]
    PROVE  \E f : IsLoop(f, T, v, n, g)
<1> DEFINE Runs(k, f) == /\ f \in [0..k -> T] /\ f[0] = v
                         /\ \A i \in 1..k : f[i] = g[i][f[i - 1]]
           P == {k \in 0..n : \E f : Runs(k, f)}
<1>1. 0 \in P
  <2> DEFINE f == [i \in 0..0 |-> v]
  <2>1. Runs(0, f)
    OBVIOUS
  <2> HIDE DEF f
  <2>2. 0 \in 0..n
    OBVIOUS
  <2> QED
    BY <2>1, <2>2
<1>2. ASSUME NEW k \in 1..n, k - 1 \in P PROVE k \in P
  <2>1. PICK f : Runs(k - 1, f)
    BY <1>2
  <2> DEFINE h == [i \in 0..k |-> IF i = k THEN g[k][f[k - 1]] ELSE f[i]]
  <2>2. k \in Nat /\ k - 1 \in 0..(k - 1) /\ \A i \in 0..k : i = k \/ i \in 0..(k - 1)
    OBVIOUS
  <2>3. f[k - 1] \in T /\ g[k][f[k - 1]] \in T
    BY <2>1, <2>2
  <2>4. h \in [0..k -> T]
    BY <2>1, <2>2, <2>3
  <2>5. h[0] = v /\ h[k] = g[k][f[k - 1]] /\ \A i \in 0..(k - 1) : h[i] = f[i]
    BY <2>1
  <2> HIDE DEF h
  <2>6. ASSUME NEW i \in 1..k PROVE h[i] = g[i][h[i - 1]]
    <3>1. i - 1 \in 0..(k - 1) /\ (i = k \/ i \in 1..(k - 1)) /\ 1..(k - 1) \subseteq 0..(k - 1)
      OBVIOUS
    <3> QED
      BY <2>1, <2>5, <3>1
  <2>7. Runs(k, h)
    BY <2>4, <2>5, <2>6
  <2> QED
    BY <2>7
<1>3. n \in P
  <2> HIDE DEF P
  <2>1. \A i \in 1..n : i - 1 \in P => i \in P
    BY <1>2
  <2>2. n \in 0..n
    OBVIOUS
  <2> QED
    BY <1>1, <2>1, <2>2, UpTo
<1>4. PICK f : Runs(n, f)
  BY <1>3
<1> QED
  BY <1>4 DEF IsLoop

-----------------------------------------------------------------------------
(***************************************************************************)
(* "The entries of f over the finite set S add up to total", without        *)
(* recursion: a certificate lists the elements of S and the running totals. *)
(* Changing one entry changes the certificate in an explicit way, so the    *)
(* facts a token ledger needs follow without induction over S.              *)
(*                                                                          *)
(* The second half shows that a certified total is the value of the         *)
(* recursive SumFunction of Functions.  Its induction over the subsets of S *)
(* is written as a smallest counterexample, a set and not an operator, so   *)
(* that the provers can follow it.                                          *)
(***************************************************************************)

\* n elements of S listed by e, with c[i] the sum over the first i of them.
Certificate(f, S, total, n, e, c) ==
    /\ n \in Nat /\ e \in [1..n -> S]
    /\ \A i, j \in 1..n : e[i] = e[j] => i = j
    /\ \A s \in S : \E i \in 1..n : e[i] = s
    /\ c \in [0..n -> Int]
    /\ c[0] = 0 /\ c[n] = total
    /\ \A i \in 1..n : c[i] = c[i - 1] + f[e[i]]

IsSum(f, S, total) ==
    \E n, e, c : Certificate(f, S, total, n, e, c)

(***************************************************************************)
(* A ledger that holds nothing adds up to 0.                                *)
(***************************************************************************)
LEMMA SumZero ==
    ASSUME NEW S, IsFiniteSet(S)
    PROVE  IsSum([s \in S |-> 0], S, 0)
<1>1. PICK n \in Nat : ExistsBijection(1..n, S)
  BY FS_NatBijection
<1>2. PICK e \in Bijection(1..n, S) : TRUE
  BY <1>1 DEF ExistsBijection
<1>3. /\ e \in [1..n -> S]
      /\ \A i, j \in 1..n : e[i] = e[j] => i = j
      /\ \A s \in S : \E i \in 1..n : e[i] = s
  BY <1>2 DEF Bijection, Injection, Surjection, IsInjective
<1> DEFINE c == [i \in 0..n |-> 0]
<1>4. Certificate([s \in S |-> 0], S, 0, n, e, c)
  BY <1>1, <1>3 DEF Certificate
<1> QED
  BY <1>1, <1>4 DEF IsSum

(***************************************************************************)
(* Only a finite ledger has a total, and the total is an integer.           *)
(***************************************************************************)
LEMMA SumFinite ==
    ASSUME NEW S, NEW f, NEW total, IsSum(f, S, total)
    PROVE  IsFiniteSet(S) /\ total \in Int
<1>1. PICK n, e, c : Certificate(f, S, total, n, e, c)
  BY DEF IsSum
<1>2. total \in Int
  <2>1. n \in 0..n
    BY <1>1 DEF Certificate
  <2> QED
    BY <1>1, <2>1 DEF Certificate
<1>3. n \in Nat /\ e \in Bijection(1..n, S)
  BY <1>1 DEF Certificate, Bijection, Injection, Surjection, IsInjective
<1> QED
  BY <1>2, <1>3, FS_NatBijection DEF ExistsBijection

(***************************************************************************)
(* Replacing one entry moves the total by the difference.                   *)
(***************************************************************************)
LEMMA SumUpdateInt ==
    ASSUME NEW S, NEW f \in [S -> Int], NEW total, IsSum(f, S, total),
           NEW a \in S, NEW v \in Int
    PROVE  IsSum([f EXCEPT ![a] = v], S, total - f[a] + v)
<1> DEFINE g == [f EXCEPT ![a] = v]
           d == v - f[a]
<1>1. PICK n, e, c : Certificate(f, S, total, n, e, c)
  BY DEF IsSum
<1>2. PICK k \in 1..n : e[k] = a
  BY <1>1 DEF Certificate
<1> DEFINE h == [i \in 0..n |-> IF i >= k THEN c[i] + d ELSE c[i]]
<1>3. k \in 0..n /\ k - 1 \in 0..n /\ n \in 0..n /\ 0 \in 0..n /\ k >= 1 /\ k <= n
  BY <1>1, <1>2 DEF Certificate
<1>4. f[a] \in Int /\ d \in Int
  OBVIOUS
<1>5. \A i \in 0..n : c[i] \in Int
  BY <1>1 DEF Certificate
<1>7. \A i \in 0..n : h[i] \in Int
  BY <1>3, <1>4, <1>5
<1>8. \A i \in 1..n : h[i] = h[i - 1] + g[e[i]]
  <2>1. SUFFICES ASSUME NEW i \in 1..n PROVE h[i] = h[i - 1] + g[e[i]]
    OBVIOUS
  <2>2. i \in 0..n /\ i - 1 \in 0..n /\ e[i] \in S
    BY <1>1, <2>1 DEF Certificate
  <2>3. c[i] = c[i - 1] + f[e[i]] /\ c[i] \in Int /\ c[i - 1] \in Int /\ f[e[i]] \in Int
    BY <1>1, <1>5, <2>1, <2>2 DEF Certificate
  <2>4. CASE i = k
    <3>1. g[e[i]] = v /\ h[i] = c[i] + d /\ h[i - 1] = c[i - 1] /\ e[i] = a
      BY <1>2, <1>3, <2>2, <2>4
    <3> QED
      BY <1>4, <2>3, <3>1
  <2>5. CASE i # k
    <3>1. e[i] # a
      BY <1>1, <1>2, <2>5 DEF Certificate
    <3>2. g[e[i]] = f[e[i]]
      BY <2>2, <3>1
    <3>3. (i >= k /\ i - 1 >= k) \/ (i < k /\ i - 1 < k)
      BY <1>3, <2>5
    <3>4. CASE i >= k /\ i - 1 >= k
      BY <1>4, <2>2, <2>3, <3>2, <3>4
    <3>5. CASE i < k /\ i - 1 < k
      BY <1>3, <1>4, <2>2, <2>3, <3>2, <3>5
    <3> QED
      BY <3>3, <3>4, <3>5
  <2> QED
    BY <2>4, <2>5
<1>10. h[0] = 0 /\ h[n] = total - f[a] + v
  <2>1. c[0] = 0 /\ c[n] = total /\ total \in Int
    BY <1>1, <1>3, <1>5 DEF Certificate
  <2> QED
    BY <1>3, <1>4, <2>1
<1>11. h \in [0..n -> Int]
  BY <1>7
<1> HIDE DEF h
<1>12. Certificate(g, S, total - f[a] + v, n, e, h)
  BY <1>1, <1>8, <1>10, <1>11 DEF Certificate
<1> QED
  BY <1>1, <1>12 DEF IsSum

(***************************************************************************)
(* Replacing two different entries moves the total by both differences.     *)
(***************************************************************************)
LEMMA SumUpdateTwoInt ==
    ASSUME NEW S, NEW f \in [S -> Int], NEW total, IsSum(f, S, total),
           NEW a \in S, NEW b \in S, a # b, NEW v \in Int, NEW w \in Int
    PROVE  IsSum([f EXCEPT ![a] = v, ![b] = w], S, total - f[a] + v - f[b] + w)
<1> DEFINE g == [f EXCEPT ![a] = v]
           s == total - f[a] + v
<1>1. g \in [S -> Int] /\ g[b] = f[b]
  OBVIOUS
<1>2. IsSum(g, S, s)
  BY SumUpdateInt
<1>3. [f EXCEPT ![a] = v, ![b] = w] = [g EXCEPT ![b] = w]
  OBVIOUS
<1> HIDE DEF g, s
<1>4. IsSum([g EXCEPT ![b] = w], S, s - g[b] + w)
  BY <1>1, <1>2, SumUpdateInt
<1>5. total \in Int /\ f[a] \in Int /\ f[b] \in Int
  BY SumFinite
<1>6. s - g[b] + w = total - f[a] + v - f[b] + w
  BY <1>1, <1>5 DEF s
<1> QED
  BY <1>3, <1>4, <1>6

(***************************************************************************)
(* The same of ledgers whose entries are never negative.                    *)
(***************************************************************************)
LEMMA SumUpdate ==
    ASSUME NEW S, NEW f \in [S -> Nat], NEW total, IsSum(f, S, total),
           NEW a \in S, NEW v \in Nat
    PROVE  IsSum([f EXCEPT ![a] = v], S, total - f[a] + v)
<1>1. f \in [S -> Int] /\ v \in Int
  OBVIOUS
<1> QED
  BY <1>1, SumUpdateInt, Zenon

LEMMA SumUpdateTwo ==
    ASSUME NEW S, NEW f \in [S -> Nat], NEW total, IsSum(f, S, total),
           NEW a \in S, NEW b \in S, a # b, NEW v \in Nat, NEW w \in Nat
    PROVE  IsSum([f EXCEPT ![a] = v, ![b] = w], S, total - f[a] + v - f[b] + w)
<1>1. f \in [S -> Int] /\ v \in Int /\ w \in Int
  OBVIOUS
<1> QED
  BY <1>1, SumUpdateTwoInt, Zenon

-----------------------------------------------------------------------------
(***************************************************************************)
(* Certified totals are the values of SumFunction.                          *)
(***************************************************************************)

(***************************************************************************)
(* A nonempty set of subsets of a finite set has a member that stops being  *)
(* one when any of its elements is taken away.                              *)
(***************************************************************************)
LEMMA SmallestSubset ==
    ASSUME NEW S, IsFiniteSet(S), NEW Bad, Bad \subseteq SUBSET S, Bad # {}
    PROVE  \E U \in Bad : \A x \in U : U \ {x} \notin Bad
<1>1. Bad \subseteq FiniteSubsetsOf(S)
  BY FS_Subset DEF FiniteSubsetsOf
<1>2. PICK U \in Bad : \A V \in Bad : ~ (<<V, U>> \in StrictSubsetOrdering(S))
  BY <1>1, FS_StrictSubsetOrderingWellFounded, WFMin
<1>3. \A x \in U : U \ {x} \notin Bad
  BY <1>2 DEF StrictSubsetOrdering
<1> QED
  BY <1>3

(***************************************************************************)
(* The entries over no element at all add up to 0 and to nothing else.      *)
(***************************************************************************)
LEMMA SumEmpty ==
    ASSUME NEW f, NEW total
    PROVE  IsSum(f, {}, total) <=> total = 0
<1>1. ASSUME IsSum(f, {}, total) PROVE total = 0
  <2>1. PICK n, e, c : Certificate(f, {}, total, n, e, c)
    BY <1>1 DEF IsSum
  <2>2. n \in Nat /\ ~ (1 \in 1..n)
    BY <2>1 DEF Certificate
  <2>3. n = 0
    BY <2>2
  <2> QED
    BY <2>1, <2>3 DEF Certificate
<1>2. ASSUME total = 0 PROVE IsSum(f, {}, total)
  <2> DEFINE e == [i \in 1..0 |-> 0]
             c == [i \in 0..0 |-> 0]
  <2>1. e \in [1..0 -> {}]
    OBVIOUS
  <2>2. Certificate(f, {}, total, 0, e, c)
    BY <1>2, <2>1 DEF Certificate
  <2> QED
    BY <2>2 DEF IsSum
<1> QED
  BY <1>1, <1>2

(***************************************************************************)
(* One more element adds its entry to the total.                            *)
(***************************************************************************)
LEMMA SumAdd ==
    ASSUME NEW S, NEW f \in [S -> Int], NEW U \in SUBSET S, NEW x \in U, NEW total,
           IsSum(f, U \ {x}, total)
    PROVE  IsSum(f, U, total + f[x])
<1>1. PICK n, e, c : Certificate(f, U \ {x}, total, n, e, c)
  BY DEF IsSum
<1> DEFINE m == n + 1
           d == [i \in 1..m |-> IF i = m THEN x ELSE e[i]]
           h == [i \in 0..m |-> IF i = m THEN total + f[x] ELSE c[i]]
<1>2. n \in Nat /\ m \in Nat /\ f[x] \in Int /\ total \in Int
  BY <1>1, SumFinite DEF Certificate
<1>3. \A i \in 1..n : e[i] \in U /\ e[i] # x /\ d[i] = e[i]
  BY <1>1, <1>2 DEF Certificate
<1>4. d[m] = x /\ \A i \in 1..m : i = m \/ i \in 1..n
  BY <1>2
<1>5. d \in [1..m -> U]
  <2>1. \A i \in 1..m : d[i] \in U
    BY <1>3, <1>4
  <2> QED
    BY <2>1
<1>6. \A i, j \in 1..m : d[i] = d[j] => i = j
  <2>1. \A i, j \in 1..n : e[i] = e[j] => i = j
    BY <1>1 DEF Certificate
  <2> HIDE DEF d, m
  <2> QED
    BY <2>1, <1>3, <1>4
<1>7. \A s \in U : \E i \in 1..m : d[i] = s
  <2>1. \A s \in U : s = x \/ \E i \in 1..n : e[i] = s
    BY <1>1 DEF Certificate
  <2>2. m \in 1..m /\ 1..n \subseteq 1..m
    BY <1>2
  <2> HIDE DEF d, m
  <2> QED
    BY <2>1, <2>2, <1>3, <1>4
<1>8. /\ \A i \in 0..n : c[i] \in Int /\ h[i] = c[i]
      /\ c[0] = 0 /\ c[n] = total
      /\ \A i \in 1..n : c[i] = c[i - 1] + f[e[i]]
  BY <1>1, <1>2 DEF Certificate
<1>9. h[m] = total + f[x] /\ h[0] = 0
  BY <1>2, <1>8
<1>10. h \in [0..m -> Int]
  <2>1. \A i \in 0..m : i \in 0..n \/ i = m
    BY <1>2
  <2>2. total + f[x] \in Int
    BY <1>2
  <2>3. \A i \in 0..m : h[i] \in Int
    <3> HIDE DEF h, m
    <3> QED
      BY <1>8, <1>9, <2>1, <2>2
  <2> QED
    BY <2>3
<1>11. \A i \in 1..m : h[i] = h[i - 1] + f[d[i]]
  <2>1. SUFFICES ASSUME NEW i \in 1..m PROVE h[i] = h[i - 1] + f[d[i]]
    OBVIOUS
  <2>2. CASE i = m
    <3>1. i - 1 = n /\ n \in 0..n
      BY <1>2, <2>2
    <3>2. h[i - 1] = total
      BY <1>8, <3>1
    <3> QED
      BY <1>4, <1>9, <2>2, <3>2
  <2>3. CASE i \in 1..n
    <3>1. i \in 0..n /\ i - 1 \in 0..n
      BY <1>2, <2>3
    <3> QED
      BY <1>3, <1>8, <2>3, <3>1
  <2> QED
    BY <1>4, <2>2, <2>3
<1> HIDE DEF d, h, m
<1>13. Certificate(f, U, total + f[x], m, d, h)
  <2>1. 0 \in 0..m
    BY <1>2
  <2> QED
    BY <1>2, <1>5, <1>6, <1>7, <1>9, <1>10, <1>11 DEF Certificate
<1> QED
  BY <1>13 DEF IsSum

(***************************************************************************)
(* One element fewer takes its entry from the total.                        *)
(***************************************************************************)
LEMMA SumRemove ==
    ASSUME NEW S, NEW f \in [S -> Int], NEW U \in SUBSET S, NEW x \in U, NEW total,
           IsSum(f, U, total)
    PROVE  total \in Int /\ IsSum(f, U \ {x}, total - f[x])
<1>1. PICK n, e, c : Certificate(f, U, total, n, e, c)
  BY DEF IsSum
<1>2. PICK k \in 1..n : e[k] = x
  BY <1>1 DEF Certificate
<1> DEFINE m == n - 1
           d == [i \in 1..m |-> IF i < k THEN e[i] ELSE e[i + 1]]
           h == [i \in 0..m |-> IF i < k THEN c[i] ELSE c[i + 1] - f[x]]
<1>3. n \in Nat /\ k \in Nat /\ k >= 1 /\ k <= n /\ m \in Nat /\ f[x] \in Int
  BY <1>1, <1>2 DEF Certificate
<1>4. /\ \A i \in 1..n : e[i] \in U
      /\ \A i, j \in 1..n : e[i] = e[j] => i = j
      /\ \A s \in U : \E i \in 1..n : e[i] = s
      /\ \A i \in 0..n : c[i] \in Int
      /\ c[0] = 0 /\ c[n] = total
      /\ \A i \in 1..n : c[i] = c[i - 1] + f[e[i]]
  BY <1>1 DEF Certificate
<1>5. \A i \in 1..m : /\ i < k => d[i] = e[i] /\ i \in 1..n
                      /\ ~ (i < k) => d[i] = e[i + 1] /\ i + 1 \in 1..n
  BY <1>3
<1>6. \A i \in 0..m : /\ i < k => h[i] = c[i] /\ i \in 0..n
                      /\ ~ (i < k) => h[i] = c[i + 1] - f[x] /\ i + 1 \in 0..n
  BY <1>3
<1>7. c[k] = c[k - 1] + f[x] /\ k \in 0..n /\ k - 1 \in 0..n
  BY <1>2, <1>3, <1>4
<1>9. d \in [1..m -> U \ {x}]
  <2>1. SUFFICES ASSUME NEW i \in 1..m PROVE d[i] \in U \ {x}
    OBVIOUS
  <2>2. i # k => e[i] # x \/ i \notin 1..n
    BY <1>2, <1>4
  <2>3. i + 1 # k => e[i + 1] # x \/ i + 1 \notin 1..n
    BY <1>2, <1>4
  <2> HIDE DEF d
  <2> QED
    BY <1>3, <1>4, <1>5, <2>2, <2>3
<1>10. \A i, j \in 1..m : d[i] = d[j] => i = j
  <2> HIDE DEF d, m
  <2>1. SUFFICES ASSUME NEW i \in 1..m, NEW j \in 1..m, d[i] = d[j] PROVE i = j
    OBVIOUS
  <2>2. CASE i < k /\ j < k
    BY <1>4, <1>5, <2>1, <2>2
  <2>3. CASE ~ (i < k) /\ ~ (j < k)
    <3>1. i + 1 = j + 1
      BY <1>4, <1>5, <2>1, <2>3
    <3> QED
      BY <3>1
  <2>4. CASE i < k /\ ~ (j < k)
    <3>1. i = j + 1
      BY <1>4, <1>5, <2>1, <2>4
    <3> QED
      BY <1>3, <2>4, <3>1
  <2>5. CASE ~ (i < k) /\ j < k
    <3>1. i + 1 = j
      BY <1>4, <1>5, <2>1, <2>5
    <3> QED
      BY <1>3, <2>5, <3>1
  <2> QED
    BY <2>2, <2>3, <2>4, <2>5
<1>11. \A s \in U \ {x} : \E i \in 1..m : d[i] = s
  <2>1. SUFFICES ASSUME NEW s \in U, s # x PROVE \E i \in 1..m : d[i] = s
    OBVIOUS
  <2>2. PICK j \in 1..n : e[j] = s
    BY <1>4
  <2>3. j # k
    BY <1>2, <2>1, <2>2
  <2>4. CASE j < k
    <3>1. j \in 1..m
      BY <1>3, <2>4
    <3> QED
      BY <1>5, <2>2, <2>4, <3>1
  <2>5. CASE j > k
    <3>1. j - 1 \in 1..m /\ ~ (j - 1 < k) /\ (j - 1) + 1 = j
      BY <1>3, <2>5
    <3>2. d[j - 1] = e[j]
      BY <1>5, <3>1
    <3> QED
      BY <2>2, <3>1, <3>2
  <2> QED
    BY <1>3, <2>3, <2>4, <2>5
<1>12. total \in Int /\ h[0] = 0 /\ h[m] = total - f[x]
  <2>1. 0 \in 0..m /\ m \in 0..m /\ 0 < k /\ n \in 0..n
    BY <1>3
  <2>2. ~ (m < k) => h[m] = c[n] - f[x]
    BY <1>3, <1>6, <2>1
  <2>3. m < k => k = n /\ h[m] = c[k - 1]
    BY <1>3, <1>6, <2>1
  <2> HIDE DEF h, m
  <2> QED
    BY <1>3, <1>4, <1>6, <1>7, <2>1, <2>2, <2>3
<1>13. \A i \in 0..m : h[i] \in Int
  <2>1. SUFFICES ASSUME NEW i \in 0..m PROVE h[i] \in Int
    OBVIOUS
  <2>2. CASE i < k
    BY <1>4, <1>6, <2>2
  <2>3. CASE ~ (i < k)
    <3>1. i + 1 \in 0..n /\ i + 1 >= k /\ h[i] = c[i + 1] - f[x]
      BY <1>3, <1>6, <2>3
    <3>2. c[i + 1] \in Int /\ c[k - 1] \in Int
      BY <1>4, <1>7, <3>1
    <3> QED
      BY <1>3, <3>1, <3>2
  <2> QED
    BY <2>2, <2>3
<1>14. h \in [0..m -> Int]
  BY <1>13
<1>15. \A i \in 1..m : h[i] = h[i - 1] + f[d[i]]
  <2>1. SUFFICES ASSUME NEW i \in 1..m PROVE h[i] = h[i - 1] + f[d[i]]
    OBVIOUS
  <2>2. i \in 0..m /\ i - 1 \in 0..m
    BY <1>3
  <2> HIDE DEF h, d, m
  <2>3. CASE i < k
    <3>1. i - 1 < k /\ h[i] = c[i] /\ h[i - 1] = c[i - 1] /\ d[i] = e[i] /\ i \in 1..n
      BY <1>3, <1>5, <1>6, <2>2, <2>3
    <3> QED
      BY <1>4, <3>1
  <2>4. CASE i = k
    <3>1. h[i] = c[i + 1] - f[x] /\ h[i - 1] = c[k - 1] /\ d[i] = e[i + 1] /\ i + 1 \in 1..n
      BY <1>3, <1>5, <1>6, <2>2, <2>4
    <3>2. c[i + 1] = c[i] + f[e[i + 1]] /\ c[i] = c[k - 1] + f[x]
      BY <1>4, <1>7, <2>4, <3>1
    <3>3. c[k - 1] \in Int /\ f[e[i + 1]] \in Int
      BY <1>4, <1>7, <3>1
    <3> QED
      BY <1>3, <3>1, <3>2, <3>3
  <2>5. CASE i > k
    <3>1. /\ h[i] = c[i + 1] - f[x] /\ i + 1 \in 1..n /\ d[i] = e[i + 1]
          /\ h[i - 1] = c[i] - f[x] /\ i \in 0..n
      <4>1. ~ (i < k) /\ ~ (i - 1 < k) /\ (i - 1) + 1 = i
        BY <1>3, <2>5
      <4> QED
        BY <1>5, <1>6, <2>2, <4>1
    <3>2. c[i + 1] = c[i] + f[e[i + 1]] /\ c[i] \in Int /\ f[e[i + 1]] \in Int
      BY <1>4, <3>1
    <3> QED
      BY <1>3, <3>1, <3>2
  <2> QED
    BY <1>3, <2>3, <2>4, <2>5
<1> HIDE DEF d, h, m
<1>17. Certificate(f, U \ {x}, total - f[x], m, d, h)
  BY <1>3, <1>9, <1>10, <1>11, <1>12, <1>14, <1>15 DEF Certificate
<1> QED
  BY <1>12, <1>17 DEF IsSum

(***************************************************************************)
(* Where no entry is negative, no total is                                  *)
(***************************************************************************)
LEMMA SumNatural ==
    ASSUME NEW S, NEW f \in [S -> Nat], IsFiniteSet(S), NEW U \in SUBSET S,
           NEW total, IsSum(f, U, total)
    PROVE  total \in Nat
<1> DEFINE Negative(V) == \E t \in Int : t < 0 /\ IsSum(f, V, t)
           Bad == {V \in SUBSET S : Negative(V)}
<1>1. SUFFICES ASSUME Bad # {} PROVE FALSE
  BY SumFinite
<1>2. PICK V \in Bad : \A x \in V : V \ {x} \notin Bad
  <2>1. Bad \subseteq SUBSET S
    OBVIOUS
  <2> HIDE DEF Bad
  <2> QED
    BY <1>1, <2>1, SmallestSubset
<1>3. PICK t \in Int : t < 0 /\ IsSum(f, V, t)
  OBVIOUS
<1>4. PICK x \in V : TRUE
  BY <1>3, SumEmpty
<1>5. f \in [S -> Int] /\ f[x] \in Nat
  BY <1>4
<1>6. IsSum(f, V \ {x}, t - f[x])
  BY <1>3, <1>4, <1>5, SumRemove
<1>7. t - f[x] \in Int /\ t - f[x] < 0
  BY <1>3, <1>5
<1>8. Negative(V \ {x})
  BY <1>6, <1>7
<1>9. V \ {x} \in Bad
  BY <1>8
<1> QED
  BY <1>2, <1>4, <1>9

(***************************************************************************)
(* and no entry is larger than it,                                          *)
(***************************************************************************)
LEMMA SumBound ==
    ASSUME NEW S, NEW f \in [S -> Nat], NEW total, IsSum(f, S, total), NEW a \in S
    PROVE  total \in Nat /\ f[a] <= total
<1>1. f \in [S -> Int] /\ IsFiniteSet(S) /\ S \in SUBSET S /\ S \ {a} \in SUBSET S
  BY SumFinite
<1>2. total \in Nat
  BY <1>1, SumNatural
<1>3. IsSum(f, S \ {a}, total - f[a])
  BY <1>1, SumRemove
<1>4. total - f[a] \in Nat
  BY <1>1, <1>3, SumNatural
<1> QED
  BY <1>2, <1>4

(***************************************************************************)
(* nor are two different entries together.                                  *)
(***************************************************************************)
LEMMA SumBoundTwo ==
    ASSUME NEW S, NEW f \in [S -> Nat], NEW total, IsSum(f, S, total),
           NEW a \in S, NEW b \in S, a # b
    PROVE  f[a] + f[b] <= total
<1>1. f \in [S -> Int] /\ IsFiniteSet(S) /\ f[a] \in Nat /\ f[b] \in Nat
  BY SumFinite
<1>2. IsSum(f, S \ {a}, total - f[a]) /\ total \in Int
  BY <1>1, SumRemove
<1>3. IsSum(f, (S \ {a}) \ {b}, (total - f[a]) - f[b])
  BY <1>1, <1>2, SumRemove
<1>4. (total - f[a]) - f[b] \in Nat
  BY <1>1, <1>3, SumNatural
<1> QED
  BY <1>1, <1>2, <1>4

(***************************************************************************)
(* The entries of a finite set add up to some total                         *)
(***************************************************************************)
LEMMA SumExists ==
    ASSUME NEW S, IsFiniteSet(S), NEW f \in [S -> Int], NEW U \in SUBSET S
    PROVE  \E total \in Int : IsSum(f, U, total)
<1> DEFINE Bad == {V \in SUBSET S : ~ \E total \in Int : IsSum(f, V, total)}
<1>1. SUFFICES ASSUME Bad # {} PROVE FALSE
  OBVIOUS
<1>2. PICK V \in Bad : \A x \in V : V \ {x} \notin Bad
  <2>1. Bad \subseteq SUBSET S
    OBVIOUS
  <2> HIDE DEF Bad
  <2> QED
    BY <1>1, <2>1, SmallestSubset
<1>3. CASE V = {}
  BY <1>3, SumEmpty
<1>4. CASE V # {}
  <2>1. PICK x \in V : TRUE
    BY <1>4
  <2>2. PICK t \in Int : IsSum(f, V \ {x}, t)
    BY <1>2, <2>1
  <2>3. IsSum(f, V, t + f[x]) /\ t + f[x] \in Int
    BY <2>1, <2>2, SumAdd
  <2> QED
    BY <2>3
<1> QED
  BY <1>3, <1>4

(***************************************************************************)
(* and to no other.                                                         *)
(***************************************************************************)
LEMMA SumUnique ==
    ASSUME NEW S, IsFiniteSet(S), NEW f \in [S -> Int], NEW U \in SUBSET S,
           NEW s, IsSum(f, U, s), NEW t, IsSum(f, U, t)
    PROVE  s = t
<1> DEFINE Two(V) == \E y, z : IsSum(f, V, y) /\ IsSum(f, V, z) /\ y # z
           Bad == {V \in SUBSET S : Two(V)}
<1>1. SUFFICES ASSUME Bad # {} PROVE FALSE
  OBVIOUS
<1>2. PICK V \in Bad : \A x \in V : V \ {x} \notin Bad
  <2>1. Bad \subseteq SUBSET S
    OBVIOUS
  <2> HIDE DEF Bad
  <2> QED
    BY <1>1, <2>1, SmallestSubset
<1>3. PICK y, z : IsSum(f, V, y) /\ IsSum(f, V, z) /\ y # z
  OBVIOUS
<1>4. CASE V = {}
  BY <1>3, <1>4, SumEmpty
<1>5. CASE V # {}
  <2>1. PICK x \in V : TRUE
    BY <1>5
  <2>2. /\ y \in Int /\ IsSum(f, V \ {x}, y - f[x])
        /\ z \in Int /\ IsSum(f, V \ {x}, z - f[x])
    BY <1>3, <2>1, SumRemove
  <2>3. f[x] \in Int
    BY <2>1
  <2>4. y - f[x] # z - f[x]
    BY <1>3, <2>2, <2>3
  <2>5. Two(V \ {x})
    BY <2>2, <2>4
  <2>6. V \ {x} \in Bad
    BY <2>5
  <2> QED
    BY <1>2, <2>1, <2>6
<1> QED
  BY <1>4, <1>5

(***************************************************************************)
(* A certified total is what SumFunction computes.                          *)
(***************************************************************************)
LEMMA SumIsSumFunctionInt ==
    ASSUME NEW S, IsFiniteSet(S), NEW f \in [S -> Int], NEW total, IsSum(f, S, total)
    PROVE  SumFunction(f) = total
<1> DEFINE Step(g) == [U \in SUBSET S |->
                         IF U = {} THEN 0
                         ELSE f[CHOOSE x \in U : TRUE] + g[U \ {CHOOSE x \in U : TRUE}]]
           sum == [U \in SUBSET S |-> CHOOSE t : IsSum(f, U, t)]
           iter == CHOOSE g : g = Step(g)
<1>1. \A U \in SUBSET S : IsSum(f, U, sum[U])
  BY SumExists
<1>2. \A U \in SUBSET S : \A t : IsSum(f, U, t) => sum[U] = t
  BY <1>1, SumUnique
<1>3. sum = Step(sum)
  <2>1. ASSUME NEW U \in SUBSET S, U # {}
        PROVE  sum[U] = f[CHOOSE x \in U : TRUE] + sum[U \ {CHOOSE x \in U : TRUE}]
    <3> DEFINE x == CHOOSE y \in U : TRUE
    <3>1. x \in U
      BY <2>1
    <3> HIDE DEF x, sum
    <3>2. U \ {x} \in SUBSET S
      OBVIOUS
    <3>3. IsSum(f, U, sum[U \ {x}] + f[x])
      BY <1>1, <3>1, <3>2, SumAdd
    <3>4. sum[U] = sum[U \ {x}] + f[x]
      BY <1>2, <3>3
    <3>5. sum[U \ {x}] \in Int /\ f[x] \in Int
      <4>1. \E t \in Int : IsSum(f, U \ {x}, t)
        BY <3>2, SumExists
      <4> QED
        BY <1>2, <3>1, <3>2, <4>1
    <3>6. sum[U] = f[x] + sum[U \ {x}]
      BY <3>4, <3>5
    <3> QED
      BY <3>6 DEF x
  <2>2. sum[{}] = 0
    BY <1>2, SumEmpty
  <2>3. \A U \in SUBSET S : sum[U] = Step(sum)[U]
    <3> HIDE DEF sum
    <3> QED
      BY <2>1, <2>2
  <2> QED
    BY <2>3
<1>4. iter = Step(iter)
  <2> HIDE DEF sum, Step
  <2> QED
    BY <1>3
<1>5. iter[S] = sum[S]
  <2> DEFINE Bad == {U \in SUBSET S : iter[U] # sum[U]}
  <2>1. SUFFICES ASSUME Bad # {} PROVE FALSE
    OBVIOUS
  <2>2. PICK U \in Bad : \A x \in U : U \ {x} \notin Bad
    <3>1. Bad \subseteq SUBSET S
      OBVIOUS
    <3> HIDE DEF Bad
    <3> QED
      BY <2>1, <3>1, SmallestSubset
  <2> HIDE DEF iter, sum
  <2>3. CASE U = {}
    <3>1. iter[{}] = 0 /\ sum[{}] = 0
      BY <1>3, <1>4
    <3> QED
      BY <2>2, <2>3, <3>1
  <2>4. CASE U # {}
    <3> DEFINE x == CHOOSE y \in U : TRUE
    <3>1. x \in U
      BY <2>4
    <3>2. iter[U] = f[x] + iter[U \ {x}] /\ sum[U] = f[x] + sum[U \ {x}]
      BY <1>3, <1>4, <2>4
    <3>3. iter[U \ {x}] = sum[U \ {x}]
      BY <2>2, <3>1
    <3> QED
      BY <2>2, <3>2, <3>3
  <2> QED
    BY <2>3, <2>4
<1>6. SumFunction(f) = iter[S]
  BY DEF SumFunction, SumFunctionOnSet, FoldFunctionOnSet, MapThenFoldSet
<1>7. sum[S] = total
  <2> HIDE DEF sum
  <2> QED
    BY <1>2
<1> QED
  BY <1>5, <1>6, <1>7

(***************************************************************************)
(* Also of a ledger whose entries are never negative.                       *)
(***************************************************************************)
LEMMA SumIsSumFunction ==
    ASSUME NEW S, IsFiniteSet(S), NEW f \in [S -> Nat], NEW total, IsSum(f, S, total)
    PROVE  SumFunction(f) = total
<1>1. f \in [S -> Int]
  OBVIOUS
<1> QED
  BY <1>1, SumIsSumFunctionInt

=============================================================================
