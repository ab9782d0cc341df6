----------------------------- MODULE MCLpToken -----------------------------
(* Small instances of LpToken: amounts of either sign. *)
EXTENDS LpToken

SignedAmounts == {-1, 0, 1, 2}
=============================================================================
