------------------------------ MODULE MCOracle ------------------------------
(* A small instance of Oracle: two prices, and a pool that was emptied. *)
EXTENDS Oracle

SomeReserves == {[A |-> 1, B |-> 3], [A |-> 2, B |-> 1], [A |-> 0, B |-> 1]}
=============================================================================
