---------------------------- MODULE SolanaPayout ----------------------------
(***************************************************************************)
(* The Solana leg of a settlement: runSolanaPayout (orchestrator/src/      *)
(* listener.ts) and its child process settle_intent.js, over the escrow    *)
(* program.                                                                *)
(*                                                                         *)
(* An attempt is one child.  It reads the program's global nonce, escrows  *)
(* the amount in the account of that nonce, reads the nonce again, signs   *)
(* receive_settlement for the account of that nonce less one, prints the   *)
(* signature and waits for GO, which the parent sends once the signature   *)
(* is in the settled ledger; then it broadcasts, polls and exits.  The     *)
(* parent may crash: its children live on, and the next boot knows only    *)
(* the ledger.  RPC nodes may answer late, and other users of the program  *)
(* move the nonce.                                                         *)
(***************************************************************************)
EXTENDS Integers

CONSTANTS
    Wallet, Orchestrator, Supply, U64, MaxIntents, MaxTime,   \* of SolanaProgram
    ArbitrumSepolia,        \* SOURCE_CHAIN_ID, the channel of its circuit breaker
    Swap, Price, Dest,      \* intents to pay out, weiToLamports of their amounts, destinations
    Other,                  \* somebody else's wallet
    EscrowLife,             \* 3600 s
    Lag,                    \* bound: how many submissions an RPC node may be behind
    MaxAttempts,            \* bound: children of each swap
    MaxCrashes,             \* bound: crashes of the parent
    Nobody

ASSUME PayoutAssumption ==
    /\ Orchestrator \in Wallet /\ Other \in Wallet \ {Orchestrator}
    /\ Supply \in Nat /\ U64 \in Nat \ {0} /\ MaxIntents \in Nat \ {0} /\ MaxTime \in Nat
    /\ Price \in [Swap -> Nat] /\ Dest \in [Swap -> Wallet] /\ EscrowLife \in Nat
    /\ Nobody \notin Swap \X Nat

VARIABLES clock, paused, intent_nonce, intent, escrowed, lamports, breaker   \* of SolanaProgram

VARIABLES
    child,      \* the children, by attempt
    ledger,     \* settled_intents.json, by swap
    crashes

programVars == <<clock, paused, intent_nonce, intent, escrowed, lamports, breaker>>
vars == <<programVars, child, ledger, crashes>>

Slippage == 50

Program == INSTANCE SolanaProgram WITH
    Channel <- {ArbitrumSepolia},
    Amount <- {Price[s] : s \in Swap}, Slippage <- {Slippage}, Expiry <- {EscrowLife}

Attempt == {a \in Swap \X (1 .. 3) : a[2] <= MaxAttempts[a[1]]}
SwapOf == [a \in Attempt |-> a[1]]

\* pc: where the script is; owned: the parent that spawned it still runs; nonce, used: the
\* escrow it submitted and the one it releases; escrow, pay: its transactions; go: "GO"
\* is in its stdin.
NoChild ==
    [pc |-> "none", owned |-> FALSE, nonce |-> 0, used |-> 0, escrow |-> "none", pay |-> "none",
     go |-> FALSE]

Ended(a) == child[a].pc \in {"ok", "failed"}
Running(a) == child[a].pc # "none" /\ ~Ended(a)

\* What program_state.intentNonce may read as.
ReadNonce == {n \in 0 .. intent_nonce : n >= intent_nonce - Lag}

Set(a, new) == child' = [child EXCEPT ![a] = new]

----------------------------------------------------------------------------
\* runSolanaPayout, run by one task at a time.
Spawn(a) ==
    /\ child[a].pc = "none"
    /\ \A k \in 1 .. (a[2] - 1) : child[<<a[1], k>>].pc # "none"
    /\ \A b \in Attempt : ~child[b].owned
    /\ ledger[SwapOf[a]].status = "none"
    /\ Set(a, [child[a] EXCEPT !.pc = "fetch", !.owned = TRUE])
    /\ UNCHANGED <<programVars, ledger, crashes>>

\* The nonce is read, and submit_intent sent for its account; .rpc() awaits confirmation.
Submit(a) ==
    /\ child[a].pc = "fetch"
    /\ \E n \in ReadNonce :
            Set(a, [child[a] EXCEPT !.pc = "confirm", !.nonce = n, !.escrow = "sent"])
    /\ UNCHANGED <<programVars, ledger, crashes>>

\* The account passed is the one of the nonce the child read: the program takes only the
\* account of its own.
EscrowLands(a) ==
    LET s == SwapOf[a]
    IN  /\ child[a].escrow = "sent"
        /\ child[a].nonce = intent_nonce
        /\ Program!submit_intent(Orchestrator, Price[s], Dest[s], clock + EscrowLife, Slippage, ArbitrumSepolia)
        /\ Set(a, [child[a] EXCEPT !.escrow = "landed"])
        /\ UNCHANGED <<ledger, crashes>>

\* Mutant of Sign: the confirmation of the escrow is not awaited.
SignAtOnce(a) ==
    /\ child[a].pc = "confirm"
    /\ \E n \in ReadNonce \ {0} :
            Set(a, [child[a] EXCEPT !.pc = "wait", !.used = n - 1, !.pay = "signed"])
    /\ UNCHANGED <<programVars, ledger, crashes>>

\* The escrow is confirmed: the nonce is read again, the payout signed for the account of
\* nonce - 1, which does not exist for nonce 0, and SETTLING_SIG printed.
Sign(a) ==
    /\ child[a].pc = "confirm"
    /\ child[a].escrow = "landed"
    /\ \E n \in ReadNonce \ {0} :
            Set(a, [child[a] EXCEPT !.pc = "wait", !.used = n - 1, !.pay = "signed"])
    /\ UNCHANGED <<programVars, ledger, crashes>>

\* Mutant of ParentRecords: GO is sent before the signature is on disk.
ParentSaysGo(a) ==
    /\ child[a].owned
    /\ child[a].pay = "signed"
    /\ ~child[a].go
    /\ Set(a, [child[a] EXCEPT !.go = TRUE])
    /\ UNCHANGED <<programVars, ledger, crashes>>

\* The parent sees SETTLING_SIG in the child's output, which it reads to the end even if
\* the child is gone: markSettling, then GO.  The write succeeds here; module Settlement has
\* the failure that persistLedger swallows.
ParentRecords(a) ==
    /\ child[a].owned
    /\ child[a].pay = "signed"
    /\ ~child[a].go
    /\ ledger' = [ledger EXCEPT ![SwapOf[a]] = [status |-> "settling", by |-> a]]
    /\ Set(a, [child[a] EXCEPT !.go = TRUE])
    /\ UNCHANGED <<programVars, crashes>>

\* waitForGo ends, and sendRawTransaction is called; its preflight may refuse (Fails).
Broadcast(a) ==
    /\ child[a].pc = "wait"
    /\ child[a].go
    /\ Set(a, [child[a] EXCEPT !.pc = "poll", !.pay = "sent"])
    /\ UNCHANGED <<programVars, ledger, crashes>>

\* The account is derived from the hot wallet and the nonce, and the accounts passed must
\* be the intent's: it is the hot wallet's own, and for this destination.
PaymentLands(a) ==
    LET s == SwapOf[a]
        i == child[a].used
    IN  /\ child[a].pay = "sent"
        /\ intent[i].owner = Orchestrator
        /\ intent[i].destination = Dest[s]
        /\ Program!receive_settlement(i, Price[s])
        /\ Set(a, [child[a] EXCEPT !.pay = "landed"])
        /\ UNCHANGED <<ledger, crashes>>

\* It is included and reverts.
PaymentReverts(a) ==
    LET s == SwapOf[a]
        i == child[a].used
    IN  /\ child[a].pay = "sent"
        /\ ~ENABLED PaymentLands(a)
        /\ Set(a, [child[a] EXCEPT !.pay = "reverted"])
        /\ UNCHANGED <<programVars, ledger, crashes>>

\* Mutant of Confirmed: the status' err is not looked at.
ConfirmedWithoutErr(a) ==
    /\ child[a].pc = "poll"
    /\ child[a].pay \in {"landed", "reverted"}
    /\ Set(a, [child[a] EXCEPT !.pc = "ok"])
    /\ UNCHANGED <<programVars, ledger, crashes>>

\* pollForConfirmation returns: the script exits with code 0.
Confirmed(a) ==
    /\ child[a].pc = "poll"
    /\ child[a].pay = "landed"
    /\ Set(a, [child[a] EXCEPT !.pc = "ok"])
    /\ UNCHANGED <<programVars, ledger, crashes>>

\* Mutant of Fails: waitForGo has no timeout.
FailsUnlessWaiting(a) ==
    /\ Running(a)
    /\ child[a].pc # "wait"
    /\ Set(a, [child[a] EXCEPT !.pc = "failed"])
    /\ UNCHANGED <<programVars, ledger, crashes>>

\* An exception: exit code 1.  What was sent stays sent; a submission or a payout may
\* have thrown and land all the same.
Fails(a) ==
    /\ Running(a)
    /\ Set(a, [child[a] EXCEPT !.pc = "failed"])
    /\ UNCHANGED <<programVars, ledger, crashes>>

\* The "close" event, after all of the output.
ParentSees(a) ==
    LET s == SwapOf[a]
    IN  /\ child[a].owned
        /\ Ended(a)
        /\ child[a].pay = "none" \/ child[a].go
        /\ Set(a, [child[a] EXCEPT !.owned = FALSE])
        /\ ledger' = IF child[a].pc = "ok" THEN [ledger EXCEPT ![s].status = "settled"] ELSE ledger
        /\ UNCHANGED <<programVars, crashes>>

\* reconcileSettlingLedger, at boot and periodically.
Reconcile(s) ==
    /\ ledger[s].status = "settling"
    /\ child[ledger[s].by].pay = "landed"
    /\ ledger' = [ledger EXCEPT ![s].status = "settled"]
    /\ UNCHANGED <<programVars, child, crashes>>

ParentCrashes ==
    /\ crashes < MaxCrashes
    /\ crashes' = crashes + 1
    /\ child' = [a \in Attempt |-> [child[a] EXCEPT !.owned = FALSE]]
    /\ UNCHANGED <<programVars, ledger>>

----------------------------------------------------------------------------
Others ==
    /\ \/ Program!submit_intent(Other, 1, Other, clock + EscrowLife, Slippage, ArbitrumSepolia)
       \/ Program!Tick
    /\ UNCHANGED <<child, ledger, crashes>>

\* The program runs and the channel is open; a pause or a halted channel would only keep
\* transactions from landing, which need not land anyway.
Init ==
    /\ clock = 0
    /\ paused = FALSE
    /\ intent_nonce = 0
    /\ intent = [i \in Program!IntentId |-> Program!NoIntent]
    /\ escrowed = [i \in Program!IntentId |-> 0]
    /\ lamports = [w \in Wallet |-> Supply]
    /\ breaker = [c \in {ArbitrumSepolia} |-> "open"]
    /\ child = [a \in Attempt |-> NoChild]
    /\ ledger = [s \in Swap |-> [status |-> "none", by |-> Nobody]]
    /\ crashes = 0

Next ==
    \/ \E a \in Attempt :
            \/ Spawn(a) \/ Submit(a) \/ EscrowLands(a) \/ Sign(a)
            \/ ParentRecords(a) \/ Broadcast(a) \/ PaymentLands(a)
            \/ PaymentReverts(a) \/ Confirmed(a) \/ Fails(a) \/ ParentSees(a)
    \/ \E s \in Swap : Reconcile(s)
    \/ ParentCrashes
    \/ Others

Spec == Init /\ [][Next]_vars

\* The steps of a child after its signature: waitForGo, withTimeout and the deadline of
\* pollForConfirmation bound them.
TimedStep(a) ==
    /\ child[a].pc \in {"wait", "poll"}
    /\ Broadcast(a) \/ Confirmed(a) \/ Fails(a)

FairSpec == Spec /\ \A a \in Attempt : WF_vars(TimedStep(a))

----------------------------------------------------------------------------
ChildRecord ==
    [pc : {"none", "fetch", "confirm", "wait", "poll", "ok", "failed"},
     owned : BOOLEAN, nonce : 0 .. MaxIntents, used : 0 .. (MaxIntents - 1),
     escrow : {"none", "sent", "landed"},
     pay : {"none", "signed", "sent", "landed", "reverted"}, go : BOOLEAN]

\* The types of the program's accounts, the script's locals and the ledger's entries.  The
\* parent has one child at a time, and no child signs before its escrow is confirmed.
TypeOK ==
    /\ Program!TypeOK
    /\ child \in [Attempt -> ChildRecord]
    /\ ledger \in [Swap -> [status : {"none", "settling", "settled"}, by : Attempt \cup {Nobody}]]
    /\ \A a, b \in Attempt : child[a].owned /\ child[b].owned => a = b
    /\ \A a \in Attempt : child[a].pay # "none" => child[a].escrow = "landed"
    /\ \A s \in Swap : ledger[s].status = "none" <=> ledger[s].by = Nobody

Mine(status) == {i \in Program!IntentId : intent[i].owner = Orchestrator /\ intent[i].status = status}

\* What wallet w got of each of the hot wallet's intents.
Received(w) ==
    [i \in Program!IntentId |-> IF i \in Mine("Settled") /\ intent[i].destination = w
                               THEN intent[i].settled_amount ELSE 0]

Got == [w \in Wallet |-> Program!Total(Received(w))]
SigOf == [a \in Attempt |-> IF child[a].pay = "reverted" THEN "sent" ELSE child[a].pay]
RecordOf == [s \in Swap |-> ledger[s].by]
IsSettled == [s \in Swap |-> ledger[s].status = "settled"]

Leg == INSTANCE PayoutLeg WITH
    sig <- SigOf, record <- RecordOf, settled <- IsSettled, received <- Got

\* The child and its parent keep the promise the settlement sequence relies on, through
\* crashes, orphans, late transactions, stale nonces and other users' intents: see PayoutLeg.
ImplementsLeg == Leg!Spec

Sent(a) == child[a].pay \in {"sent", "landed", "reverted"}

\* A swap is paid by one transaction at most, however many children signed one, whoever
\* crashed in between and whatever lands late; and "settled" is said only of a swap whose
\* payout landed (listener.ts, runSolanaPayout).
OnePayoutPerSwap ==
    /\ \A a, b \in Attempt : Sent(a) /\ Sent(b) /\ SwapOf[a] = SwapOf[b] => a = b
    /\ \A s \in Swap : ledger[s].status = "settled" =>
            \E a \in Attempt : ledger[s].by = a /\ child[a].pay = "landed"

Locked == [i \in Program!IntentId |-> IF i \in Mine("Pending") THEN escrowed[i] ELSE 0]

\* The escrows that the attempts in A made.
EscrowedBy(A) ==
    [i \in Program!IntentId |-> IF \E a \in A : child[a].nonce = i THEN intent[i].amount ELSE 0]

Landed == {a \in Attempt : child[a].escrow = "landed"}

\* Lamports stay behind in the escrow program only where an attempt failed or still runs:
\* one that ended with exit code 0 released as much as it had escrowed, be it from an
\* escrow that an earlier attempt left behind (settle_intent.js:261-279 escrows first).
\* Nothing in the orchestrator ever takes the rest back with cancel_intent.
LockedByFailuresOnly ==
    Program!Total(Locked) <= Program!Total(EscrowedBy({a \in Landed : child[a].pc # "ok"}))

\* A child that signed ends, whether or not its parent lives to answer (settle_intent.js:
\* "so the process always terminates"; "must EXIT on success too, explicitly").
SignedChildrenEnd ==
    \A a \in Attempt : child[a].pc = "wait" ~> Ended(a)

\* Not so of the child as a whole: the nonce is read and submit_intent sent without a timeout.
ChildrenEnd ==
    \A a \in Attempt : child[a].pc = "fetch" ~> Ended(a)

\* Nor is the payout signed always for the escrow made for it.
SignsForOwnEscrow ==
    \A a \in Attempt : child[a].pay # "none" => child[a].used = child[a].nonce
=============================================================================
