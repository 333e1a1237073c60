-------------------------- MODULE MCSolverRouting --------------------------
(***************************************************************************)
(* Model-checking instance of SolverRouting: the solvers' data.            *)
(***************************************************************************)
EXTENDS SolverRouting, TLC

CONSTANTS i1, i2, small, large

\* Either solver can carry i1, only the large one i2, and nobody both at once.
MCAmount == i1 :> 2 @@ i2 :> 4
MCCapital == small :> 5 @@ large :> 8
MCTierCap == small :> 2 @@ large :> 4
MCSuccessRate == small :> 1 @@ large :> -1
MCAddress == small :> 1 @@ large :> 2

JobSymmetry == Permutations(Job)
=============================================================================
