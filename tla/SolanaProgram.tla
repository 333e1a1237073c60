--------------------------- MODULE SolanaProgram ---------------------------
(***************************************************************************)
(* The destination-side escrow program,                                    *)
(* contracts/solana/maat/programs/maat/src/lib.rs.                         *)
(*                                                                         *)
(* An owner moves lamports into an intent account; the orchestrator's      *)
(* receive_settlement forwards them to the destination, less a remainder   *)
(* within the owner's slippage, which goes back to the owner; cancel_intent *)
(* returns everything after expiry, or at any time while the program is    *)
(* paused.  An instruction that fails has no effect, so each instruction   *)
(* is one action, enabled when its requirements hold.  Accounts are        *)
(* derived addresses: an intent account is its nonce, a circuit breaker    *)
(* its channel.  Rent is left out.                                         *)
(***************************************************************************)
EXTENDS Integers

CONSTANTS
    Wallet,         \* accounts that own lamports and sign
    Orchestrator,   \* the orchestrator recorded by initialize; the admin is left implicit
    Channel,        \* source chain ids
    Supply,         \* lamports each wallet starts with
    Amount, Slippage, Expiry,   \* what submit_intent may be called with
    U64,            \* 2^64 in the program
    MaxIntents,     \* bound: number of intents
    MaxTime         \* bound: last unix_timestamp explored

ASSUME SolanaAssumption ==
    /\ Orchestrator \in Wallet
    /\ Supply \in Nat /\ U64 \in Nat \ {0} /\ MaxIntents \in Nat /\ MaxTime \in Nat
    /\ Amount \subseteq Nat /\ Slippage \subseteq Nat /\ Expiry \subseteq Nat

VARIABLES
    clock,          \* Clock::unix_timestamp
    paused,
    intent_nonce,
    intent,         \* the intent accounts' data, by nonce
    escrowed,       \* the intent accounts' lamports, by nonce
    lamports,       \* the wallets' lamports
    breaker         \* the circuit breaker accounts: "absent", "open" or "halted"

vars == <<clock, paused, intent_nonce, intent, escrowed, lamports, breaker>>

IntentId == 0 .. (MaxIntents - 1)

\* An account that was never initialized.
NoIntent ==
    [owner |-> Orchestrator, amount |-> 0, destination |-> Orchestrator, expiry |-> 0,
     slippage_bps |-> 0, source_chain_id |-> 0, status |-> "Absent", settled_amount |-> 0]

\* Mutant of SlippageDeduction: rounded up.
SlippageDeductionUp(i) == ((intent[i].amount * intent[i].slippage_bps + 9999) \div 10000) % U64

SlippageDeduction(i) == ((intent[i].amount * intent[i].slippage_bps) \div 10000) % U64

\* checked_sub fails when the owner allowed more than 100%: nothing is acceptable then.
Acceptable(i, amount) ==
    /\ SlippageDeduction(i) <= intent[i].amount
    /\ amount >= intent[i].amount - SlippageDeduction(i)
    /\ amount <= intent[i].amount

\* Mutant of Credit: both balances are read before either is written.
CreditFromSnapshot(a, x, b, y) ==
    [lamports EXCEPT ![a] = lamports[a] + x, ![b] = lamports[b] + y]

\* A transfer to two wallets that may be one and the same.
Credit(a, x, b, y) ==
    [w \in Wallet |-> lamports[w] + (IF w = a THEN x ELSE 0) + (IF w = b THEN y ELSE 0)]

----------------------------------------------------------------------------
submit_intent(owner, amount, destination, expiry, slippage, channel) ==
    /\ ~paused
    /\ intent_nonce < MaxIntents
    /\ amount <= lamports[owner]
    /\ intent' = [intent EXCEPT ![intent_nonce] =
            [owner |-> owner, amount |-> amount, destination |-> destination, expiry |-> expiry,
             slippage_bps |-> slippage, source_chain_id |-> channel, status |-> "Pending",
             settled_amount |-> 0]]
    /\ lamports' = [lamports EXCEPT ![owner] = @ - amount]
    /\ escrowed' = [escrowed EXCEPT ![intent_nonce] = @ + amount]
    /\ intent_nonce' = intent_nonce + 1
    /\ UNCHANGED <<clock, paused, breaker>>

\* Mutant of receive_settlement: the remainder is not returned to the owner.
receive_settlement_no_refund(i, amount) ==
    /\ ~paused
    /\ intent[i].status = "Pending"
    /\ clock < intent[i].expiry
    /\ breaker[intent[i].source_chain_id] = "open"
    /\ Acceptable(i, amount)
    /\ intent' = [intent EXCEPT ![i].status = "Settled", ![i].settled_amount = amount]
    /\ escrowed' = [escrowed EXCEPT ![i] = @ - amount]
    /\ lamports' = Credit(intent[i].destination, amount, intent[i].owner, 0)
    /\ UNCHANGED <<clock, paused, intent_nonce, breaker>>

\* Signed by the orchestrator.
receive_settlement(i, amount) ==
    /\ ~paused
    /\ intent[i].status = "Pending"
    /\ clock < intent[i].expiry
    /\ breaker[intent[i].source_chain_id] = "open"
    /\ Acceptable(i, amount)
    /\ intent' = [intent EXCEPT ![i].status = "Settled", ![i].settled_amount = amount]
    /\ escrowed' = [escrowed EXCEPT ![i] = @ - amount - (intent[i].amount - amount)]
    /\ lamports' = Credit(intent[i].destination, amount, intent[i].owner, intent[i].amount - amount)
    /\ UNCHANGED <<clock, paused, intent_nonce, breaker>>

\* Mutant of cancel_intent: whoever settled the intent can still cancel it.
cancel_intent_unlatched(i) ==
    /\ intent[i].status \in {"Pending", "Settled"}
    /\ clock > intent[i].expiry \/ paused
    /\ intent' = [intent EXCEPT ![i].status = "Expired"]
    /\ escrowed' = [escrowed EXCEPT ![i] = @ - intent[i].amount]
    /\ lamports' = [lamports EXCEPT ![intent[i].owner] = @ + intent[i].amount]
    /\ UNCHANGED <<clock, paused, intent_nonce, breaker>>

\* Mutant of cancel_intent: an escape hatch for a paused program only.
cancel_intent_if_paused(i) ==
    /\ intent[i].status = "Pending"
    /\ paused
    /\ intent' = [intent EXCEPT ![i].status = "Expired"]
    /\ escrowed' = [escrowed EXCEPT ![i] = @ - intent[i].amount]
    /\ lamports' = [lamports EXCEPT ![intent[i].owner] = @ + intent[i].amount]
    /\ UNCHANGED <<clock, paused, intent_nonce, breaker>>

\* Signed by the owner.
cancel_intent(i) ==
    /\ intent[i].status = "Pending"
    /\ clock > intent[i].expiry \/ paused
    /\ intent' = [intent EXCEPT ![i].status = "Expired"]
    /\ escrowed' = [escrowed EXCEPT ![i] = @ - intent[i].amount]
    /\ lamports' = [lamports EXCEPT ![intent[i].owner] = @ + intent[i].amount]
    /\ UNCHANGED <<clock, paused, intent_nonce, breaker>>

set_circuit_breaker(channel, halted) ==
    /\ breaker' = [breaker EXCEPT ![channel] = IF halted THEN "halted" ELSE "open"]
    /\ UNCHANGED <<clock, paused, intent_nonce, intent, escrowed, lamports>>

pause ==
    /\ paused' = TRUE
    /\ UNCHANGED <<clock, intent_nonce, intent, escrowed, lamports, breaker>>

unpause ==
    /\ paused' = FALSE
    /\ UNCHANGED <<clock, intent_nonce, intent, escrowed, lamports, breaker>>

Tick ==
    /\ clock < MaxTime
    /\ clock' = clock + 1
    /\ UNCHANGED <<paused, intent_nonce, intent, escrowed, lamports, breaker>>

----------------------------------------------------------------------------
\* After initialize.
Init ==
    /\ clock = 0
    /\ paused = FALSE
    /\ intent_nonce = 0
    /\ intent = [i \in IntentId |-> NoIntent]
    /\ escrowed = [i \in IntentId |-> 0]
    /\ lamports = [w \in Wallet |-> Supply]
    /\ breaker = [c \in Channel |-> "absent"]

Next ==
    \/ \E w, d \in Wallet, a \in Amount, e \in Expiry, s \in Slippage, c \in Channel :
            submit_intent(w, a, d, e, s, c)
    \/ \E i \in IntentId, a \in 0 .. Supply : receive_settlement(i, a)
    \/ \E i \in IntentId : cancel_intent(i)
    \/ \E c \in Channel, halted \in BOOLEAN : set_circuit_breaker(c, halted)
    \/ pause \/ unpause \/ Tick

Spec == Init /\ [][Next]_vars

\* Slots keep coming and an owner who wants the lamports back keeps asking.
FairSpec == Spec /\ WF_vars(Tick) /\ \A i \in IntentId : WF_vars(cancel_intent(i))

----------------------------------------------------------------------------
IntentRecord ==
    [owner : Wallet, amount : Nat, destination : Wallet, expiry : Nat, slippage_bps : Nat,
     source_chain_id : Channel \cup {0}, status : {"Absent", "Pending", "Settled", "Expired"},
     settled_amount : Nat]

\* The accounts' types (lib.rs, ProgramState, Intent, CircuitBreaker); lamports are
\* unsigned, so an account that paid out more than it held would leave the type.
TypeOK ==
    /\ clock \in 0 .. MaxTime
    /\ paused \in BOOLEAN
    /\ intent_nonce \in 0 .. MaxIntents
    /\ intent \in [IntentId -> IntentRecord]
    /\ escrowed \in [IntentId -> Nat]
    /\ lamports \in [Wallet -> Nat]
    /\ breaker \in [Channel -> {"absent", "open", "halted"}]

\* What intent i took from and gave to wallet w: the owner paid the amount in, the
\* destination got settled_amount if Settled, the owner the rest, or all if Expired.
Flow(i, w) ==
    LET rec == intent[i]
    IN  (IF w = rec.destination /\ rec.status = "Settled" THEN rec.settled_amount ELSE 0)
        - (IF w = rec.owner
           THEN CASE rec.status = "Pending" -> rec.amount
                  [] rec.status = "Settled" -> rec.settled_amount
                  [] OTHER -> 0
           ELSE 0)

\* The sum of f over all intents.
Total(f) ==
    LET upTo[n \in 0 .. MaxIntents] == IF n = 0 THEN 0 ELSE upTo[n - 1] + f[n - 1]
    IN  upTo[MaxIntents]

\* Every wallet has what it started with, plus and minus what its intents moved: an
\* owner loses only what was settled for it and what is still pending, a destination
\* gains exactly the settled amounts (lib.rs's direct lamport arithmetic).
WalletsAddUp == \A w \in Wallet : lamports[w] = Supply + Total([i \in IntentId |-> Flow(i, w)])

\* The escrow of a Pending intent is still whole, and a closed intent account keeps
\* nothing back (receive_settlement pays the destination and the remainder, cancel_intent
\* everything): no instruction takes from the account twice.
EscrowIsWhole ==
    \A i \in IntentId :
        escrowed[i] = IF intent[i].status = "Pending" THEN intent[i].amount ELSE 0

\* bps out of 10000 of the amount may be missing, and not more than all of it arrives.
WithinSlippage(amount, bps, arrived) ==
    10000 * (amount - arrived) <= amount * bps /\ arrived <= amount

\* An intent that is Settled paid its destination no less than the owner's slippage
\* allows, in exact arithmetic: neither the rounding of the deduction nor its cast to
\* u64 lowers the floor.
SlippageRespected ==
    \A i \in IntentId :
        intent[i].status = "Settled" =>
            WithinSlippage(intent[i].amount, intent[i].slippage_bps, intent[i].settled_amount)

\* An owner gets out in the end, whatever the admin does with pause and the circuit
\* breaker and whether or not the slippage can be met.
OwnerGetsOut ==
    \A i \in IntentId : intent[i].status = "Pending" ~> intent[i].status # "Pending"
=============================================================================
