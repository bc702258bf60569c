-------------------------- MODULE MCPositionMarks --------------------------
(* PositionMarks.tla on a small instance.  Neither handlers nor rows are told *)
(* apart, and no property is about liveness.                                  *)
EXTENDS PositionMarks, TLC

MCAsked == {{"loss"}, {"profit", "days"}}

MCSymmetry == {p @@ q : p \in Permutations(Handlers), q \in Permutations(RowIds)}

=============================================================================
