------------------------------- MODULE MCPair -------------------------------
(* Small instances of Pair: how many units of each token exist in a run, and  *)
(* the negative amounts that callers may pass.                               *)
EXTENDS RouterLiquidity, TLC

NineOfEach == [t \in Token |-> 9]
NineAndSix == [t \in Token |-> IF t = "A" THEN 9 ELSE 6]
\* A negative output is what a caller passes who asks the pool to take a token.
SignedOuts == -1..2
\* A negative burn creates LP.
SignedBurns == {-2, 2}
Symmetry == Permutations(User)
=============================================================================
