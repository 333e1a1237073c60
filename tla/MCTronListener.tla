--------------------------- MODULE MCTronListener ---------------------------
(***************************************************************************)
(* Model-checking instance of TronListener.                                *)
(***************************************************************************)
EXTENDS TronListener, TLC

RequestSymmetry == Permutations(Request)
=============================================================================
