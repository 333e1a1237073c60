-------------------------- MODULE MCIntentManager --------------------------
(***************************************************************************)
(* IntentManager for TLC.                                                  *)
(***************************************************************************)
EXTENDS IntentManager
=============================================================================
