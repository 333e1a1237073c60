-------------------------- MODULE MCProverPipeline --------------------------
(***************************************************************************)
(* ProverPipeline for TLC.                                                 *)
(***************************************************************************)
EXTENDS ProverPipeline, TLC

ProverSymmetry == Permutations(Prover)
=============================================================================
