--------------------------- MODULE MCRpcRotation ---------------------------
(***************************************************************************)
(* Model-checking instance of RpcRotation: the listener's client carries   *)
(* the watcher and the finality poller, the settlement's client its own    *)
(* calls.                                                                  *)
(***************************************************************************)
EXTENDS RpcRotation, TLC

CONSTANTS arb, settle, poller, wallet

MCClientOf == Watcher :> arb @@ poller :> arb @@ wallet :> settle
MCClientOfOne == Watcher :> arb @@ poller :> arb
MCClientOfQuiet == Watcher :> arb @@ wallet :> settle
=============================================================================
