------------------------- MODULE MCPositionService -------------------------
(***************************************************************************)
(* PositionService.tla on a small instance: every order is for one unit,   *)
(* the minimum order size, and at most one unit is held.                   *)
(***************************************************************************)
EXTENDS PositionService

MCLots       == {1}
MCQuantities == {1}

=============================================================================
