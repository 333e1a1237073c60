-------------------------- MODULE MCSolanaProgram --------------------------
(***************************************************************************)
(* Model-checking instance of SolanaProgram.                               *)
(***************************************************************************)
EXTENDS SolanaProgram
=============================================================================
