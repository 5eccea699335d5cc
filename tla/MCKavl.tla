------------------------------- MODULE MCKavl -------------------------------
(***************************************************************************)
(* Instances of KavlProps for TLC.  In the long session a client fills the *)
(* tree so that one deletion can rotate at two levels, which takes twelve  *)
(* nodes, and then keeps at least ten.                                     *)
(***************************************************************************)
EXTENDS KavlProps

Short ==
  [preload |-> <<>>, keys |-> 1..7, least |-> 0, iterates |-> TRUE]

Long ==
  [preload |-> <<8, 5, 11, 3, 7, 10, 12, 2, 4, 6, 9, 1>>, keys |-> 1..12, least |-> 10,
   iterates |-> FALSE]

MCSession == {Short, Long}

MCShortSession == {Short}
=============================================================================
