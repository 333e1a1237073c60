---------------------------- MODULE MCSettlement ----------------------------
(***************************************************************************)
(* Model-checking instance of Settlement.  Pollers are interchangeable,    *)
(* and the runs that use the symmetry check invariants only.               *)
(***************************************************************************)
EXTENDS Settlement, TLC

PollerSymmetry == Permutations(Poller)
=============================================================================
