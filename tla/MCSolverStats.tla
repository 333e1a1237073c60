--------------------------- MODULE MCSolverStats ---------------------------
(***************************************************************************)
(* Model-checking instance of SolverStats: intent 0 is excluded for sol,   *)
(* both solvers were onboarded in the middle tier.                         *)
(***************************************************************************)
EXTENDS SolverStats

CONSTANTS sol, rival

Excluding == [i \in 0 .. (MaxIntents - 1) |-> IF i = 0 THEN sol ELSE NoAccount]
MiddleTier == [s \in Solver |-> 2]
=============================================================================
