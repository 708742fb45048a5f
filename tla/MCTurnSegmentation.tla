------------------------- MODULE MCTurnSegmentation -------------------------
(***************************************************************************)
(* A small instance of TurnSegmentation: half a second and a second are 2  *)
(* frames each, the longest turn is 4.                                     *)
(***************************************************************************)
EXTENDS TurnSegmentation
=============================================================================
