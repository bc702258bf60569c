---------------------------- MODULE MCExecutor ----------------------------
(***************************************************************************)
(* Executor.tla on small instances.  A Buy is always for the minimum order  *)
(* of 2 units, so a partial fill leaves nothing, dust or a tradable rest.  *)
(***************************************************************************)
EXTENDS Executor, TLC

MCLots == {2}

MCSymmetry == Permutations(Procs) \cup Permutations(SigIds) \cup Permutations(RowIds)

=============================================================================
