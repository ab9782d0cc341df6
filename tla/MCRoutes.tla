------------------------------ MODULE MCRoutes ------------------------------
(***************************************************************************)
(* A small instance of Routes: four assets and the pools of a square, so    *)
(* that neighbours are one or three hops apart and corners two hops, on     *)
(* either side of the square.                                               *)
(***************************************************************************)
EXTENDS Routes

Square == {{1, 2}, {2, 3}, {3, 4}, {1, 4}}
UnitsOfEach == [a \in Asset |-> 24]
\* Two pools are balanced, the other two favour one side.
SquareReserves ==
    [p \in Square |-> IF p = {2, 3} THEN [A |-> 6, B |-> 10]
                      ELSE IF p = {1, 4} THEN [A |-> 12, B |-> 5]
                      ELSE [A |-> 8, B |-> 8]]
\* Every pool holds what it has recorded, or one has recorded more: a pool of 4 and 6
\* units after mint_with_one_token of 4 more, of which it swaps 1 for 1.
SquareStarts ==
    {[pool |-> SquareReserves, res |-> SquareReserves],
     [pool |-> [SquareReserves EXCEPT ![{1, 2}] = [A |-> 8, B |-> 6]],
      res  |-> [SquareReserves EXCEPT ![{1, 2}] = [A |-> 11, B |-> 7]]]}
\* A pool charges less than it quoted and its fee stays, or its fee falls.
FeeChanges == {[charged |-> 1, next |-> 3], [charged |-> 3, next |-> 1]}
HubChoices == {<<>>, <<3, 4, 2, 1>>}
=============================================================================
