----------------------------- MODULE PayoutLeg -----------------------------
(***************************************************************************)
(* What the settlement sequence relies on when it calls runSolanaPayout    *)
(* (orchestrator/src/listener.ts): of all the payouts that are signed for  *)
(* a swap, one at most is ever recorded, none is broadcast before it is    *)
(* recorded, and each that lands brings the destination exactly the swap's *)
(* amount.  "settled" is only recorded of a payout that landed.            *)
(***************************************************************************)
EXTENDS Integers

CONSTANTS Swap, Attempt, SwapOf, Wallet, Price, Dest, Nobody

VARIABLES
    sig,        \* by attempt: "none", "signed", "sent" or "landed"
    record,     \* by swap: the attempt whose signature is on disk, or Nobody
    settled,    \* by swap
    received    \* by wallet: lamports

vars == <<sig, record, settled, received>>

Init ==
    /\ sig = [a \in Attempt |-> "none"]
    /\ record = [s \in Swap |-> Nobody]
    /\ settled = [s \in Swap |-> FALSE]
    /\ received = [w \in Wallet |-> 0]

Sign(a) ==
    /\ sig[a] = "none"
    /\ sig' = [sig EXCEPT ![a] = "signed"]
    /\ UNCHANGED <<record, settled, received>>

Record(a) ==
    /\ sig[a] = "signed"
    /\ record[SwapOf[a]] = Nobody
    /\ record' = [record EXCEPT ![SwapOf[a]] = a]
    /\ UNCHANGED <<sig, settled, received>>

Broadcast(a) ==
    /\ sig[a] = "signed"
    /\ record[SwapOf[a]] = a
    /\ sig' = [sig EXCEPT ![a] = "sent"]
    /\ UNCHANGED <<record, settled, received>>

Land(a) ==
    /\ sig[a] = "sent"
    /\ sig' = [sig EXCEPT ![a] = "landed"]
    /\ received' = [received EXCEPT ![Dest[SwapOf[a]]] = @ + Price[SwapOf[a]]]
    /\ UNCHANGED <<record, settled>>

Settle(s) ==
    /\ record[s] # Nobody
    /\ sig[record[s]] = "landed"
    /\ settled' = [settled EXCEPT ![s] = TRUE]
    /\ UNCHANGED <<sig, record, received>>

Next ==
    \/ \E a \in Attempt : Sign(a) \/ Record(a) \/ Broadcast(a) \/ Land(a)
    \/ \E s \in Swap : Settle(s)

Spec == Init /\ [][Next]_vars
=============================================================================
