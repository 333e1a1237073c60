--------------------------- MODULE CrossChainSwap ---------------------------
(***************************************************************************)
(* What the settlement of intents promises, without saying how: the escrow *)
(* of an intent is opened by a user and locked by a solver's collateral;   *)
(* the destination is paid at most once and only for a lock held by one of *)
(* the solvers this orchestrator pays for; and the escrow is released to   *)
(* the solver only after the payment.  Otherwise it goes back.             *)
(*                                                                         *)
(* Module Settlement implements this specification.                        *)
(***************************************************************************)
CONSTANTS
    Intent,
    Payer,          \* the solvers whose deliveries the orchestrator makes
    Other           \* everybody else who may lock an escrow

VARIABLES
    escrow,         \* [Intent -> "none", "open", "locked", "released" or "returned"]
    holder,         \* [Intent -> the locks' holders, a set with at most one member]
    delivered       \* [Intent -> number of payments to the destination]

swapVars == <<escrow, holder, delivered>>

Open(i) ==
    /\ escrow[i] = "none"
    /\ escrow' = [escrow EXCEPT ![i] = "open"]
    /\ UNCHANGED <<holder, delivered>>

Lock(i, s) ==
    /\ escrow[i] = "open"
    /\ escrow' = [escrow EXCEPT ![i] = "locked"]
    /\ holder' = [holder EXCEPT ![i] = {s}]
    /\ UNCHANGED delivered

\* The payment may come too late for its solver, after the escrow went back, but never
\* before the lock and never twice.
Deliver(i) ==
    /\ escrow[i] \in {"locked", "returned"}
    /\ holder[i] # {} /\ holder[i] \subseteq Payer
    /\ delivered[i] = 0
    /\ delivered' = [delivered EXCEPT ![i] = 1]
    /\ UNCHANGED <<escrow, holder>>

Release(i) ==
    /\ escrow[i] = "locked"
    /\ delivered[i] = 1
    /\ escrow' = [escrow EXCEPT ![i] = "released"]
    /\ UNCHANGED <<holder, delivered>>

Return(i) ==
    /\ escrow[i] \in {"open", "locked"}
    /\ escrow' = [escrow EXCEPT ![i] = "returned"]
    /\ UNCHANGED <<holder, delivered>>

Init ==
    /\ escrow = [i \in Intent |-> "none"]
    /\ holder = [i \in Intent |-> {}]
    /\ delivered = [i \in Intent |-> 0]

Next ==
    \E i \in Intent :
        \/ Open(i)
        \/ \E s \in Payer \cup Other : Lock(i, s)
        \/ Deliver(i)
        \/ Release(i)
        \/ Return(i)

Spec == Init /\ [][Next]_swapVars
=============================================================================
