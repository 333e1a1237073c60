----------------------------- MODULE Settlement -----------------------------
(***************************************************************************)
(* The orchestrator's settlement of an intent across two chains:           *)
(* orchestrator/src/arbitrum_settlement.ts with its ledger                 *)
(* (arbitrum_ledger.ts), the Solana payout and its ledger (listener.ts,    *)
(* prover_pipeline.ts, settle_intent.js), the two pollers and the boot     *)
(* reconciliation (listener.ts main), running against the escrow contract  *)
(* (module IntentManager).                                                 *)
(*                                                                         *)
(* One Node process runs several asynchronous tasks; control moves from    *)
(* one to another only at an await, so a step here is the code between two *)
(* awaits.  Task Sequencer is the prover queue's single job (or the boot   *)
(* resume, which is awaited the same way); each Poller stands for one      *)
(* entry of one slash-poll pass, each Reconciler for one entry of one      *)
(* periodic reconciliation pass: setInterval starts a pass whether or not  *)
(* the previous one is over.                                               *)
(***************************************************************************)
EXTENDS Integers, Sequences, FiniteSets

CONSTANTS
    \* the contract's parameters (see IntentManager)
    Account, NoAccount, treasury, owner, NonPayable, Eth, Token, Amount, Expiry, Limit, MaxLimit,
    REFUND_GRACE, VOLUME_WINDOW, MaxIntents, MaxTime,
    \* the deployment
    User,                   \* the accounts that open intents
    Solver,                 \* the configured ARBITRUM_SOLVER_PRIVATE_KEY* accounts
    Rival,                  \* approved solvers this process does not run
    OrchestratorKey,
    Sequencer, Poller, Reconciler,        \* the tasks
    \* timing
    DELIVERY_MARGIN_SEC,
    CONFIRM_RETRY_MAX_SEC_AFTER_EXPIRY,
    Backoff,                \* longest sleep between two confirm attempts
    SigValidity,            \* how long a signed Solana transaction can still land
    Patience,               \* longest time a task takes between two looks at the clock
    \* faults
    StaleReads,             \* an RPC node may answer from an older block
    DiskMayFail,            \* the settled ledger's write may fail
    ArbDiskMayFail,         \* the Arbitrum ledger's write may fail
    MaxCrashes,             \* bound: process crashes
    MaxTx,                  \* bound: Arbitrum transactions signed per intent
    MaxSigs                 \* bound: Solana payouts signed per intent

\* Who is who, and the boot check on the confirmation deadline.
ASSUME SettlementAssumption ==
    /\ User \cup Solver \cup Rival \cup {OrchestratorKey} \subseteq Account
    /\ Solver \cap Rival = {}
    /\ Sequencer \notin Poller \cup Reconciler /\ Poller \cap Reconciler = {}
    /\ {DELIVERY_MARGIN_SEC, CONFIRM_RETRY_MAX_SEC_AFTER_EXPIRY, Backoff, SigValidity, Patience} \subseteq Nat
    /\ {StaleReads, DiskMayFail, ArbDiskMayFail} \subseteq BOOLEAN
    /\ {MaxCrashes, MaxTx, MaxSigs} \subseteq Nat
    /\ CONFIRM_RETRY_MAX_SEC_AFTER_EXPIRY < REFUND_GRACE

VARIABLES
    \* the contract and the clock
    now, intents, intentNonce, orchestrator, approvedSolvers, pendingTreasuryWithdrawals,
    dailyVolume, dailyVolumeLimit, lastVolumeReset, paused, balance, paid,
    \* the process
    arb,            \* the Arbitrum ledger in memory ...
    arbDisk,        \* ... and in the file
    settled,        \* the settled ledger in memory ...
    settledDisk,    \* ... and in the file
    task,           \* the asynchronous tasks
    phase,          \* "down", the passes of the boot reconciliation, or "up"
    bootTodo,       \* the intents the current boot pass has not handled yet
    crashes,
    \* the chains, as far as this process's transactions are concerned
    txs,            \* signed Arbitrum transactions of each intent
    sigs            \* signed Solana payouts of each intent

Chain == INSTANCE IntentManager

ASSUME ContractAssumption == Chain!AccountAssumption /\ Chain!NumberAssumption

chainVars == <<now, intents, intentNonce, pendingTreasuryWithdrawals, balance, paid, orchestrator,
               approvedSolvers, dailyVolumeLimit, paused, dailyVolume, lastVolumeReset>>
arbVars == <<arb, arbDisk>>
ledgerVars == <<arbVars, settled, settledDisk>>
wireVars == <<txs, sigs>>
bootVars == <<phase, bootTodo, crashes>>
vars == <<chainVars, ledgerVars, task, bootVars, wireVars>>

Intent == Chain!Intent
Task == {Sequencer} \cup Poller \cup Reconciler

ArbitrumStage ==
    {"none", "posting_collateral", "collateral_posted", "collateral_failed", "confirming",
     "confirmed", "awaiting_expiry_slash", "slashing", "slashed"}

\* A transaction hash or signature is an index into txs[i] or sigs[i]; 0 is none.
NoEntry == [stage |-> "none", solver |-> NoAccount, collateralTx |-> 0, confirmTx |-> 0, slashTx |-> 0]
NotSettled == [status |-> "none", sig |-> 0]
Idle == [pc |-> "idle", intent |-> 0, solver |-> NoAccount, ref |-> 0, due |-> 0]

DeadlineOf(i) == intents[i].expiry - DELIVERY_MARGIN_SEC
Landed(i) == \E n \in DOMAIN sigs[i] : sigs[i][n].st = "landed"

\* Due times only serve to limit how far the clock moves while a task is busy.
DueIn(d) == IF now + d + Patience < MaxTime THEN now + d + Patience ELSE MaxTime

At(t, pc) == task[t].pc = pc
Goto(t, pc) == task' = [task EXCEPT ![t].pc = pc]
GotoAfterClock(t, pc, d) == task' = [task EXCEPT ![t].pc = pc, ![t].due = DueIn(d)]
Finish(t) == task' = [task EXCEPT ![t] = Idle]
Begin(t, pc, i, s, ref) ==
    /\ At(t, "idle")
    /\ task' = [task EXCEPT ![t] = [pc |-> pc, intent |-> i, solver |-> s, ref |-> ref, due |-> DueIn(0)]]

\* What publicClient.readContract(intents) may answer: the truth or, from a node that
\* lags, the record before the last call on it.
ReadIntent(i) ==
    LET st == intents[i].status
        s == intents[i].solver
    IN  {[status |-> st, solver |-> s]}
            \cup (IF StaleReads
                  THEN {[status |-> "Pending", solver |-> s], [status |-> "Pending", solver |-> NoAccount]}
                  ELSE {})

----------------------------------------------------------------------------
(***************************************************************************)
(* The ledgers.                                                            *)
(***************************************************************************)
\* The file gets the whole map.  A failed write throws after the map was changed.
setArbitrumStage(i, patched) ==
    /\ arb' = [arb EXCEPT ![i] = patched]
    /\ arbDisk' = arb'

setArbitrumStageThrows(i, patched) ==
    /\ ArbDiskMayFail
    /\ arb' = [arb EXCEPT ![i] = patched]
    /\ UNCHANGED arbDisk

\* The last thing a task does: it ends either way.
setArbitrumStageAndEnd(t, i, patched) ==
    /\ setArbitrumStage(i, patched) \/ setArbitrumStageThrows(i, patched)
    /\ Finish(t)

\* persistLedger swallows a failed write: memory has the entry, the file may not.
persistSettled(i, entry) ==
    /\ settled' = [settled EXCEPT ![i] = entry]
    /\ \/ settledDisk' = [settledDisk EXCEPT ![i] = entry]
       \/ DiskMayFail /\ UNCHANGED settledDisk

markSettling(i, sig) == persistSettled(i, [status |-> "settling", sig |-> sig])
markSettled(i) == persistSettled(i, [settled[i] EXCEPT !.status = "settled"])

----------------------------------------------------------------------------
(***************************************************************************)
(* signAndSend: prepare (estimates gas, may throw), sign, onSigned writes  *)
(* the ledger, broadcast, wait for the receipt.  Any error after signing   *)
(* loses track of a transaction that may still be mined.                   *)
(***************************************************************************)
Sign(t, fn, from, pc) ==
    LET i == task[t].intent
    IN  /\ Len(txs[i]) < MaxTx
        /\ txs' = [txs EXCEPT ![i] = Append(@, [fn |-> fn, from |-> from, st |-> "signed"])]
        /\ task' = [task EXCEPT ![t].pc = pc, ![t].ref = Len(txs[i]) + 1]

\* A transaction that was signed and will not be broadcast.
SignInVain(i, fn) ==
    /\ Len(txs[i]) < MaxTx
    /\ txs' = [txs EXCEPT ![i] = Append(@, [fn |-> fn, from |-> OrchestratorKey, st |-> "signed"])]

Waiting(t) == task[t].pc \in {"postWait", "cwait", "swait"}
Receipt(t) == txs[task[t].intent][task[t].ref].st

Broadcast(t) ==
    /\ Waiting(t)
    /\ Receipt(t) = "signed"
    /\ txs' = [txs EXCEPT ![task[t].intent][task[t].ref].st = "mempool"]
    /\ UNCHANGED <<chainVars, ledgerVars, task, bootVars, sigs>>

\* The chain executes a transaction it was sent, successfully or not.
Mine(i, n) ==
    LET tx == txs[i][n]
        Mined(result) == txs' = [txs EXCEPT ![i][n].st = result]
        value == Chain!Collateral(intents[i].amount)
    IN  /\ tx.st = "mempool"
        /\ \/ tx.fn = "post" /\ Chain!postCollateral(tx.from, i, value) /\ Mined("success")
           \/ tx.fn = "confirm" /\ Chain!confirmSettlement(tx.from, i) /\ Mined("success")
           \/ tx.fn = "slash" /\ Chain!slashSolver(tx.from, i) /\ Mined("success")
           \/ /\ tx.fn = "post" => ~Chain!CanPostCollateral(tx.from, i, value)
              /\ tx.fn = "confirm" => ~Chain!CanConfirm(tx.from, i)
              /\ tx.fn = "slash" => ~Chain!CanSlash(tx.from, i)
              /\ Mined("reverted")
              /\ UNCHANGED chainVars
        /\ UNCHANGED <<ledgerVars, task, bootVars, sigs>>

----------------------------------------------------------------------------
(***************************************************************************)
(* runArbitrumSettlementSequence, step 1.                                  *)
(***************************************************************************)
\* triggerZKVerification hands a proven intent to the sequence with the solver routing
\* chose, unless either ledger shows it was started before.  The prover queue runs one
\* job at a time.
Dispatch(i) ==
    /\ phase = "up"
    /\ Chain!Exists(i)
    /\ settled[i].status = "none"
    /\ arb[i].stage \in {"none", "collateral_failed"}
    /\ \E s \in Solver : Begin(Sequencer, "gate", i, s, 0)
    /\ UNCHANGED <<chainVars, ledgerVars, bootVars, wireVars>>

\* evaluateArbitrumGate after the balance read: refusal by balance or amount is data
\* the model does not follow, refusal by the clock is.
Gate ==
    LET i == task[Sequencer].intent
    IN  /\ At(Sequencer, "gate")
        /\ \/ setArbitrumStageAndEnd(Sequencer, i, [arb[i] EXCEPT !.stage = "collateral_failed"])
           \/ /\ intents[i].tokenAddress = Eth
              /\ now < DeadlineOf(i)
              /\ GotoAfterClock(Sequencer, "post", 0)
              /\ UNCHANGED arbVars
        /\ UNCHANGED <<chainVars, settled, settledDisk, bootVars, wireVars>>

PostSign ==
    LET i == task[Sequencer].intent
    IN  /\ At(Sequencer, "post")
        /\ Sign(Sequencer, "post", task[Sequencer].solver, "postWait")
        /\ setArbitrumStage(i, [arb[i] EXCEPT !.stage = "posting_collateral", !.solver = task[Sequencer].solver,
                                              !.collateralTx = Len(txs[i]) + 1])
        /\ UNCHANGED <<chainVars, settled, settledDisk, bootVars, sigs>>

\* onSigned throws: nothing is broadcast, and the failure is recorded, if it can be.
PostUnrecorded ==
    LET i == task[Sequencer].intent
    IN  /\ ArbDiskMayFail
        /\ At(Sequencer, "post")
        /\ setArbitrumStageAndEnd(Sequencer, i,
                [arb[i] EXCEPT !.stage = "collateral_failed", !.solver = task[Sequencer].solver,
                               !.collateralTx = 0])
        /\ UNCHANGED <<chainVars, settled, settledDisk, bootVars, wireVars>>

\* The outcome of an error carries no hash, and the merge erases the recorded one.
PostFails ==
    LET i == task[Sequencer].intent
    IN  /\ \E hash \in {0, task[Sequencer].ref} :
            /\ \/ hash = 0 /\ task[Sequencer].pc \in {"post", "postWait"}
               \/ At(Sequencer, "postWait") /\ Receipt(Sequencer) = "reverted"
            /\ setArbitrumStageAndEnd(Sequencer, i,
                    [arb[i] EXCEPT !.stage = "collateral_failed", !.collateralTx = hash])
        /\ UNCHANGED <<chainVars, settled, settledDisk, bootVars, wireVars>>

PostSucceeds ==
    LET i == task[Sequencer].intent
    IN  /\ At(Sequencer, "postWait")
        /\ Receipt(Sequencer) = "success"
        /\ LET posted == [arb[i] EXCEPT !.stage = "collateral_posted", !.collateralTx = task[Sequencer].ref]
           IN  \/ setArbitrumStage(i, posted) /\ Goto(Sequencer, "verify")
               \/ setArbitrumStageThrows(i, posted) /\ Finish(Sequencer)
        /\ UNCHANGED <<chainVars, settled, settledDisk, bootVars, wireVars>>

----------------------------------------------------------------------------
(***************************************************************************)
(* resumeArbitrumSettlementFromCollateralPosted, steps 2 and 3.            *)
(***************************************************************************)
\* The collateral must be this solver's and the intent still Pending.
Verify ==
    LET i == task[Sequencer].intent
    IN  /\ At(Sequencer, "verify")
        /\ \E r \in ReadIntent(i) :
              IF r.solver = task[Sequencer].solver /\ r.status = "Pending"
              THEN Goto(Sequencer, "pay") ELSE Finish(Sequencer)
        /\ UNCHANGED <<chainVars, ledgerVars, bootVars, wireVars>>

\* Mutant of PayoutFailed: no deadline.
PayoutRetriedForever(i) == GotoAfterClock(Sequencer, "pay", 0) /\ UNCHANGED arbVars

\* A failed payout is retried until DELIVERY_MARGIN_SEC before expiry.
PayoutFailed(i) ==
    IF now < DeadlineOf(i)
    THEN GotoAfterClock(Sequencer, "pay", 0) /\ UNCHANGED arbVars
    ELSE setArbitrumStageAndEnd(Sequencer, i, [arb[i] EXCEPT !.stage = "awaiting_expiry_slash"])

\* Mutant of Pay: "settling" is taken for "not settled".
PayAgainIfUnconfirmed ==
    LET i == task[Sequencer].intent
    IN  /\ At(Sequencer, "pay")
        /\ IF settled[i].status = "settled" THEN Goto(Sequencer, "cread") ELSE Goto(Sequencer, "child")
        /\ UNCHANGED <<chainVars, ledgerVars, bootVars, wireVars>>

\* runSolanaPayout consults the settled ledger, then spawns settle_intent.js.
Pay ==
    LET i == task[Sequencer].intent
    IN  /\ At(Sequencer, "pay")
        /\ CASE settled[i].status = "settled" -> Goto(Sequencer, "cread") /\ UNCHANGED arbVars
             [] settled[i].status = "settling" -> PayoutFailed(i)
             [] OTHER -> Goto(Sequencer, "child") /\ UNCHANGED arbVars
        /\ UNCHANGED <<chainVars, settled, settledDisk, bootVars, wireVars>>

\* Mutant of ChildSigns: nothing is recorded until the payout is confirmed.
ChildSignsUnrecorded ==
    LET i == task[Sequencer].intent
    IN  /\ At(Sequencer, "child")
        /\ Len(sigs[i]) < MaxSigs
        /\ sigs' = [sigs EXCEPT ![i] = Append(@, [st |-> "signed", until |-> now + SigValidity])]
        /\ task' = [task EXCEPT ![Sequencer].pc = "childWait", ![Sequencer].ref = Len(sigs[i]) + 1]
        /\ UNCHANGED <<chainVars, ledgerVars, bootVars, txs>>

\* The child escrows on Solana, signs the payout and prints SETTLING_SIG; the parent
\* records "settling" and answers GO.
ChildSigns ==
    LET i == task[Sequencer].intent
    IN  /\ At(Sequencer, "child")
        /\ Len(sigs[i]) < MaxSigs
        /\ sigs' = [sigs EXCEPT ![i] = Append(@, [st |-> "signed", until |-> now + SigValidity])]
        /\ markSettling(i, Len(sigs[i]) + 1)
        /\ task' = [task EXCEPT ![Sequencer].pc = "childWait", ![Sequencer].ref = Len(sigs[i]) + 1]
        /\ UNCHANGED <<chainVars, arbVars, bootVars, txs>>

\* With GO in its pipe the child broadcasts, whether or not the parent still runs.
ChildSends(i, n) ==
    /\ sigs[i][n].st = "signed"
    /\ now <= sigs[i][n].until
    /\ sigs' = [sigs EXCEPT ![i][n].st = "sent"]
    /\ UNCHANGED <<chainVars, ledgerVars, task, bootVars, txs>>

\* The Solana program pays the destination, as long as the blockhash is recent.
PayoutLands(i, n) ==
    /\ sigs[i][n].st = "sent"
    /\ now <= sigs[i][n].until
    /\ sigs' = [sigs EXCEPT ![i][n].st = "landed"]
    /\ UNCHANGED <<chainVars, ledgerVars, task, bootVars, txs>>

\* Exit code 0: pollForConfirmation saw the signature confirmed.
ChildSucceeds ==
    LET i == task[Sequencer].intent
    IN  /\ At(Sequencer, "childWait")
        /\ sigs[i][task[Sequencer].ref].st = "landed"
        /\ markSettled(i)
        /\ Goto(Sequencer, "cread")
        /\ UNCHANGED <<chainVars, arbVars, bootVars, wireVars>>

\* Any other exit, before signing or after: a signature the child did not broadcast
\* dies with it, one it did may still land.
ChildFails ==
    LET i == task[Sequencer].intent
        n == task[Sequencer].ref
    IN  /\ task[Sequencer].pc \in {"child", "childWait"}
        /\ sigs' = IF At(Sequencer, "childWait") /\ sigs[i][n].st = "signed"
                   THEN [sigs EXCEPT ![i][n].st = "dead"] ELSE sigs
        /\ PayoutFailed(i)
        /\ UNCHANGED <<chainVars, settled, settledDisk, bootVars, txs>>

----------------------------------------------------------------------------
(***************************************************************************)
(* confirmSettlementWithRetry, run by the sequence (step 4), by the slash  *)
(* poller and by the periodic reconciliation.                              *)
(***************************************************************************)
ConfirmRead(t) ==
    LET i == task[t].intent
    IN  /\ At(t, "cread")
        /\ \E r \in ReadIntent(i) :
              CASE r.status = "Settled" ->
                        setArbitrumStageAndEnd(t, i, [arb[i] EXCEPT !.stage = "confirmed"])
                [] r.status \in {"Slashed", "Refunded"} -> Finish(t) /\ UNCHANGED arbVars
                [] OTHER -> Goto(t, "csign") /\ UNCHANGED arbVars
        /\ UNCHANGED <<chainVars, settled, settledDisk, bootVars, wireVars>>

ConfirmSign(t) ==
    LET i == task[t].intent
    IN  /\ At(t, "csign")
        /\ Sign(t, "confirm", OrchestratorKey, "cwait")
        /\ setArbitrumStage(i, [arb[i] EXCEPT !.stage = "confirming", !.confirmTx = Len(txs[i]) + 1])
        /\ UNCHANGED <<chainVars, settled, settledDisk, bootVars, sigs>>

ConfirmSucceeds(t) ==
    LET i == task[t].intent
    IN  /\ At(t, "cwait")
        /\ Receipt(t) = "success"
        /\ setArbitrumStageAndEnd(t, i, [arb[i] EXCEPT !.stage = "confirmed", !.confirmTx = task[t].ref])
        /\ UNCHANGED <<chainVars, settled, settledDisk, bootVars, wireVars>>

\* Mutant of ConfirmFails: the retries stop only when claimRefund opens.
ConfirmFailsLate(t) ==
    /\ task[t].pc \in {"csign", "cwait"}
    /\ IF now >= intents[task[t].intent].expiry + REFUND_GRACE
       THEN Finish(t) ELSE GotoAfterClock(t, "cread", Backoff)
    /\ UNCHANGED <<chainVars, ledgerVars, bootVars, wireVars>>

RetryOrEnd(t) ==
    IF now >= intents[task[t].intent].expiry + CONFIRM_RETRY_MAX_SEC_AFTER_EXPIRY
    THEN Finish(t) ELSE GotoAfterClock(t, "cread", Backoff)

\* onSigned throws: memory holds the hash of a transaction that is never broadcast.
ConfirmUnrecorded(t) ==
    LET i == task[t].intent
    IN  /\ At(t, "csign")
        /\ SignInVain(i, "confirm")
        /\ setArbitrumStageThrows(i, [arb[i] EXCEPT !.stage = "confirming", !.confirmTx = Len(txs[i]) + 1])
        /\ RetryOrEnd(t)
        /\ UNCHANGED <<chainVars, settled, settledDisk, bootVars, sigs>>

\* Prepare threw, the broadcast or the wait threw, or the call reverted.
ConfirmFails(t) ==
    /\ task[t].pc \in {"csign", "cwait"}
    /\ RetryOrEnd(t)
    /\ UNCHANGED <<chainVars, ledgerVars, bootVars, wireVars>>

----------------------------------------------------------------------------
(***************************************************************************)
(* pollAwaitingSlash.                                                      *)
(***************************************************************************)
\* The pass takes its list of entries first; by the time it comes to this one another
\* task may have moved it on, and nothing looks again.
PollStart(w, i) ==
    /\ phase = "up"
    /\ arb[i].stage = "awaiting_expiry_slash"
    /\ Begin(w, "pcheck", i, NoAccount, 0)
    /\ UNCHANGED <<chainVars, ledgerVars, bootVars, wireVars>>

\* Up to the first await of resumeConfirmIfSolanaLanded.
PollCheck(w) ==
    LET i == task[w].intent
    IN  /\ At(w, "pcheck")
        /\ IF now < intents[i].expiry THEN Finish(w)
           ELSE GotoAfterClock(w, CASE settled[i].status = "none" -> "ssign"
                                    [] settled[i].status = "settled" -> "cread"
                                    [] OTHER -> "psig", 0)
        /\ UNCHANGED <<chainVars, ledgerVars, bootVars, wireVars>>

\* Mutant of PollSig: slash without asking Solana.
PollSigUnchecked(w) ==
    /\ At(w, "psig")
    /\ Goto(w, "ssign")
    /\ UNCHANGED <<chainVars, ledgerVars, bootVars, wireVars>>

\* checkSolanaSignatureLanded on the recorded signature, fresh.
PollSig(w) ==
    LET i == task[w].intent
    IN  /\ At(w, "psig")
        /\ IF sigs[i][settled[i].sig].st = "landed"
           THEN markSettled(i) /\ Goto(w, "cread")
           ELSE Goto(w, "ssign") /\ UNCHANGED <<settled, settledDisk>>
        /\ UNCHANGED <<chainVars, arbVars, bootVars, wireVars>>

SlashSign(w) ==
    LET i == task[w].intent
    IN  /\ At(w, "ssign")
        /\ Sign(w, "slash", OrchestratorKey, "swait")
        /\ setArbitrumStage(i, [arb[i] EXCEPT !.stage = "slashing", !.slashTx = Len(txs[i]) + 1])
        /\ UNCHANGED <<chainVars, settled, settledDisk, bootVars, sigs>>

\* As ConfirmUnrecorded; the file still says "awaiting_expiry_slash".
SlashUnrecorded(w) ==
    LET i == task[w].intent
    IN  /\ At(w, "ssign")
        /\ SignInVain(i, "slash")
        /\ setArbitrumStageThrows(i, [arb[i] EXCEPT !.stage = "slashing", !.slashTx = Len(txs[i]) + 1])
        /\ Finish(w)
        /\ UNCHANGED <<chainVars, settled, settledDisk, bootVars, sigs>>

SlashSucceeds(w) ==
    LET i == task[w].intent
    IN  /\ At(w, "swait")
        /\ Receipt(w) = "success"
        /\ setArbitrumStageAndEnd(w, i, [arb[i] EXCEPT !.stage = "slashed", !.slashTx = task[w].ref])
        /\ UNCHANGED <<chainVars, settled, settledDisk, bootVars, wireVars>>

\* The ledger is left as it is: "slashing" if the transaction was signed.
SlashFails(w) ==
    /\ task[w].pc \in {"ssign", "swait"}
    /\ Finish(w)
    /\ UNCHANGED <<chainVars, ledgerVars, bootVars, wireVars>>

----------------------------------------------------------------------------
(***************************************************************************)
(* The periodic reconcileSettlingLedger and what follows it in listener.ts.*)
(***************************************************************************)
ReconcileStart(w, i) ==
    /\ phase = "up"
    /\ settled[i].status = "settling"
    /\ Begin(w, "rcheck", i, NoAccount, settled[i].sig)
    /\ UNCHANGED <<chainVars, ledgerVars, bootVars, wireVars>>

\* Mutant of ReconcileCheck: a landed signature is not written back.
ReconcileCheckForgets(w) ==
    LET i == task[w].intent
    IN  /\ At(w, "rcheck")
        /\ IF sigs[i][task[w].ref].st = "landed" THEN Goto(w, "rresume") ELSE Finish(w)
        /\ UNCHANGED <<chainVars, ledgerVars, bootVars, wireVars>>

ReconcileCheck(w) ==
    LET i == task[w].intent
    IN  /\ At(w, "rcheck")
        /\ IF sigs[i][task[w].ref].st = "landed"
           THEN markSettled(i) /\ Goto(w, "rresume")
           ELSE Finish(w) /\ UNCHANGED <<settled, settledDisk>>
        /\ UNCHANGED <<chainVars, arbVars, bootVars, wireVars>>

\* resumeCollateralPostedIntent: the intent is settled by now, so the resume goes
\* straight to the confirmation.
ReconcileResume(w) ==
    LET i == task[w].intent
    IN  /\ At(w, "rresume")
        /\ IF arb[i].stage = "collateral_posted" THEN GotoAfterClock(w, "cread", 0) ELSE Finish(w)
        /\ UNCHANGED <<chainVars, ledgerVars, bootVars, wireVars>>

\* An RPC error, or a proof file that is missing, ends the task where it stands: the
\* error is caught and logged at the top of each task, and no ledger is touched.
TaskAborts(t) ==
    /\ task[t].pc \in {"gate", "verify", "cread", "psig", "rcheck", "rresume"}
    /\ Finish(t)
    /\ UNCHANGED <<chainVars, ledgerVars, bootVars, wireVars>>

----------------------------------------------------------------------------
(***************************************************************************)
(* The process: crash, and the boot reconciliation that main awaits before *)
(* it starts the watchers and the pollers.                                 *)
(***************************************************************************)
MidSequence == {"posting_collateral", "confirming", "slashing"}

Crash ==
    /\ phase # "down"
    /\ crashes < MaxCrashes
    /\ crashes' = crashes + 1
    /\ phase' = "down"
    /\ bootTodo' = {}
    /\ task' = [t \in Task |-> Idle]
    /\ UNCHANGED <<chainVars, ledgerVars, wireVars>>

Boot ==
    /\ phase = "down"
    /\ phase' = "settling"
    /\ settled' = settledDisk
    /\ arb' = arbDisk
    /\ bootTodo' = {i \in Intent : settledDisk[i].status = "settling"}
    /\ UNCHANGED <<chainVars, arbDisk, settledDisk, task, crashes, wireVars>>

\* Mutant of BootSettling: what was signed before the crash is taken for landed.
BootSettlingTrusting(i) ==
    /\ phase = "settling"
    /\ i \in bootTodo
    /\ bootTodo' = bootTodo \ {i}
    /\ markSettled(i)
    /\ UNCHANGED <<chainVars, arbVars, task, phase, crashes, wireVars>>

\* One entry of reconcileSettlingLedger; a failed check leaves it "settling".
BootSettling(i) ==
    /\ phase = "settling"
    /\ i \in bootTodo
    /\ bootTodo' = bootTodo \ {i}
    /\ \/ sigs[i][settled[i].sig].st = "landed" /\ markSettled(i)
       \/ UNCHANGED <<settled, settledDisk>>
    /\ UNCHANGED <<chainVars, arbVars, task, phase, crashes, wireVars>>

\* One entry of reconcileArbitrumLedger's first loop: the chain's status decides, then,
\* for a postCollateral, its receipt.  Everything else is left for manual review.  A write
\* that throws here ends main, and with it the process: that is Crash.
BootMid(i) ==
    LET MidTx == CASE arb[i].stage = "posting_collateral" -> arb[i].collateralTx
                   [] arb[i].stage = "confirming" -> arb[i].confirmTx
                   [] OTHER -> arb[i].slashTx
        Or(hash) == IF hash = 0 THEN MidTx ELSE hash
        Posting(result, stage) ==
            /\ arb[i].stage = "posting_collateral"
            /\ txs[i][MidTx].st = result
            /\ setArbitrumStage(i, [arb[i] EXCEPT !.stage = stage])
    IN  /\ phase = "mid"
        /\ i \in bootTodo
        /\ bootTodo' = bootTodo \ {i}
        /\ \E r \in ReadIntent(i) :
              CASE r.status = "Settled" ->
                        setArbitrumStage(i, [arb[i] EXCEPT !.stage = "confirmed", !.confirmTx = Or(@)])
                [] r.status = "Slashed" ->
                        setArbitrumStage(i, [arb[i] EXCEPT !.stage = "slashed", !.slashTx = Or(@)])
                [] r.status = "Refunded" -> UNCHANGED arbVars
                [] OTHER -> \/ Posting("success", "collateral_posted")
                            \/ Posting("reverted", "collateral_failed")
                            \/ UNCHANGED arbVars   \* no receipt yet, or a later stage
        /\ UNCHANGED <<chainVars, settled, settledDisk, task, phase, crashes, wireVars>>

\* The second loop runs resumeCollateralPostedIntent to its end for each entry: step 4
\* if the payout is known to have landed, else from step 2 with the recorded solver.
BootResume(i) ==
    /\ phase = "resume"
    /\ i \in bootTodo
    /\ bootTodo' = bootTodo \ {i}
    /\ IF settled[i].status = "settled"
       THEN Begin(Sequencer, "cread", i, NoAccount, 0)
       ELSE Begin(Sequencer, "verify", i, arb[i].solver, 0)
    /\ UNCHANGED <<chainVars, ledgerVars, phase, crashes, wireVars>>

BootNextPass ==
    /\ bootTodo = {}
    /\ At(Sequencer, "idle")
    /\ \/ /\ phase = "settling"
          /\ phase' = "mid"
          /\ bootTodo' = {i \in Intent : arb[i].stage \in MidSequence}
       \/ /\ phase = "mid"
          /\ phase' = "resume"
          /\ bootTodo' = {i \in Intent : arb[i].stage = "collateral_posted"}
       \/ /\ phase = "resume"
          /\ phase' = "up"
          /\ UNCHANGED bootTodo
    /\ UNCHANGED <<chainVars, ledgerVars, task, crashes, wireVars>>

----------------------------------------------------------------------------
(***************************************************************************)
(* Everybody else.                                                         *)
(***************************************************************************)
Others ==
    /\ \/ \E u \in User : Chain!Submit(u)
       \/ \E i \in Intent :
            \/ \E s \in Rival : Chain!postCollateral(s, i, Chain!Collateral(intents[i].amount))
            \/ \E u \in User : Chain!cancelIntent(u, i) \/ Chain!claimRefund(u, i)
    /\ UNCHANGED <<ledgerVars, task, bootVars, wireVars>>

\* No task is slower between two looks at the clock than Patience allows.
Tick ==
    /\ \A t \in Task : At(t, "idle") \/ now < task[t].due
    /\ Chain!Tick
    /\ UNCHANGED <<ledgerVars, task, bootVars, wireVars>>

Init ==
    /\ Chain!InitWith(OrchestratorKey, Solver \cup Rival)
    /\ arb = [i \in Intent |-> NoEntry]
    /\ arbDisk = arb
    /\ settled = [i \in Intent |-> NotSettled]
    /\ settledDisk = settled
    /\ task = [t \in Task |-> Idle]
    /\ phase = "down"
    /\ bootTodo = {}
    /\ crashes = 0
    /\ txs = [i \in Intent |-> <<>>]
    /\ sigs = [i \in Intent |-> <<>>]

Confirming(t) ==
    \/ ConfirmRead(t) \/ ConfirmSign(t) \/ ConfirmUnrecorded(t)
    \/ ConfirmSucceeds(t) \/ ConfirmFails(t)

SequencerStep ==
    \/ Gate \/ PostSign \/ PostUnrecorded \/ PostFails \/ PostSucceeds
    \/ Verify \/ Pay \/ ChildSigns \/ ChildSucceeds \/ ChildFails
    \/ Confirming(Sequencer)
    \/ TaskAborts(Sequencer)

PollerStep(w) ==
    \/ \E i \in Intent : PollStart(w, i)
    \/ PollCheck(w) \/ PollSig(w) \/ SlashSign(w) \/ SlashUnrecorded(w) \/ SlashSucceeds(w) \/ SlashFails(w)
    \/ Confirming(w)
    \/ TaskAborts(w)

ReconcilerStep(w) ==
    \/ \E i \in Intent : ReconcileStart(w, i)
    \/ ReconcileCheck(w) \/ ReconcileResume(w)
    \/ Confirming(w)
    \/ TaskAborts(w)

BootStep ==
    \/ Boot
    \/ BootNextPass
    \/ \E i \in Intent : BootSettling(i) \/ BootMid(i) \/ BootResume(i)

Wire ==
    \/ \E t \in Task : Broadcast(t)
    \/ \E i \in Intent :
        \/ \E n \in DOMAIN txs[i] : Mine(i, n)
        \/ \E n \in DOMAIN sigs[i] : ChildSends(i, n) \/ PayoutLands(i, n)

Next ==
    \/ \E i \in Intent : Dispatch(i)
    \/ SequencerStep
    \/ \E w \in Poller : PollerStep(w)
    \/ \E w \in Reconciler : ReconcilerStep(w)
    \/ Wire \/ Crash \/ BootStep \/ Others \/ Tick

Spec == Init /\ [][Next]_vars

(***************************************************************************)
(* Fairness.  The runtime keeps running the tasks it has started and the   *)
(* supervisor restarts a process that died; setInterval keeps starting     *)
(* reconciliation passes, and a check of a signature does not fail forever *)
(* (SF: each pass asks again, through rotating RPC endpoints).  Time       *)
(* passes.  Nothing is assumed of the chains, of the users, of the solvers *)
(* or of the success of any call.                                          *)
(***************************************************************************)
FairSpec ==
    /\ Spec
    /\ SF_vars(Tick)
    /\ WF_vars(SequencerStep)
    /\ WF_vars(BootStep)
    /\ \A w \in Reconciler :
        /\ WF_vars(ReconcilerStep(w))
        /\ SF_vars(ReconcileCheck(w))

----------------------------------------------------------------------------
(***************************************************************************)
(* Properties.                                                             *)
(***************************************************************************)
SigState == {"signed", "sent", "landed", "dead"}
TxState == {"signed", "mempool", "success", "reverted"}

Pc == {"idle", "gate", "post", "postWait", "verify", "pay", "child", "childWait", "cread", "csign", "cwait",
       "pcheck", "psig", "ssign", "swait", "rcheck", "rresume"}

Entry == [stage : ArbitrumStage, solver : Solver \cup {NoAccount},
          collateralTx : Nat, confirmTx : Nat, slashTx : Nat]
SettledEntry == [status : {"none", "settling", "settled"}, sig : Nat]
Transaction == [fn : {"post", "confirm", "slash"}, from : Solver \cup {OrchestratorKey}, st : TxState]
Signature == [st : SigState, until : Nat]
TaskRecord == [pc : Pc, intent : Nat, solver : Solver \cup {NoAccount}, ref : Nat, due : Nat]

\* The shape of the ledgers (arbitrum_ledger.ts, prover_pipeline.ts), of the tasks and of
\* what was signed.
TypeOK ==
    /\ Chain!TypeOK
    /\ txs \in [Intent -> Seq(Transaction)] /\ sigs \in [Intent -> Seq(Signature)]
    /\ arb \in [Intent -> Entry] /\ arbDisk \in [Intent -> Entry]
    /\ settled \in [Intent -> SettledEntry] /\ settledDisk \in [Intent -> SettledEntry]
    /\ task \in [Task -> TaskRecord]
    /\ \A t \in Task : At(t, "idle") \/ task[t].intent \in Intent
    /\ phase \in {"down", "settling", "mid", "resume", "up"}
    /\ bootTodo \subseteq Intent /\ crashes \in Nat

Payouts(i) == Cardinality({n \in DOMAIN sigs[i] : sigs[i][n].st = "landed"})

\* The escrow's life as the settlement's clients see it.
EscrowState(i) ==
    IF ~Chain!Exists(i) THEN "none"
    ELSE CASE intents[i].status = "Settled" -> "released"
           [] intents[i].status = "Pending" -> IF intents[i].solver = NoAccount THEN "open" ELSE "locked"
           [] OTHER -> "returned"

Swap == INSTANCE CrossChainSwap WITH
            Payer <- Solver, Other <- Rival,
            escrow <- [i \in Intent |-> EscrowState(i)],
            holder <- [i \in Intent |-> {intents[i].solver} \ {NoAccount}],
            delivered <- [i \in Intent |-> Payouts(i)]

\* The orchestrator keeps the promise of CrossChainSwap through crashes, lost answers,
\* lagging RPC nodes and overlapping pollers: the Solana destination is paid at most
\* once per intent, only after one of its own solvers' collateral locked the escrow,
\* and confirmSettlement releases an escrow only after the payment landed.
ImplementsSwap == Swap!Spec

\* What the ledgers assert is so on the chains, in memory and in the files, although any
\* write of the Arbitrum ledger may fail and leave its file behind.  "confirmed" and
\* "slashed" are only recorded of an intent that is Settled or Slashed; from
\* "collateral_posted" on the chain's solver is the recorded one; "settled" means the
\* payout landed.
LedgersTellTheTruth ==
    \A i \in Intent :
        /\ \A e \in {arb[i], arbDisk[i]} :
            /\ e.stage = "confirmed" => intents[i].status = "Settled"
            /\ e.stage = "slashed" => intents[i].status = "Slashed"
            /\ e.stage \in {"collateral_posted", "confirming", "awaiting_expiry_slash", "slashing"}
                    => intents[i].solver = e.solver
        /\ "settled" \in {settled[i].status, settledDisk[i].status} => Landed(i)

\* A payout that landed, or may still land, is on record where the next boot finds it:
\* markSettling writes the signature to the file before the child may broadcast it.
NoUnrecordedPayout ==
    \A i \in Intent : \A n \in DOMAIN sigs[i] :
        sigs[i][n].st # "dead" => settledDisk[i].sig = n

\* The destination is never paid twice for one intent (prover_pipeline.ts: the settled
\* ledger stops this orchestrator from settling an intent again after a restart).
NeverPaidTwice == \A i \in Intent : Payouts(i) <= 1

\* A solver whose payout landed is never slashed: pollAwaitingSlash asks Solana for the
\* recorded signature right before it slashes, and a payout is not attempted so late
\* that its transaction could land after that.
DeliveredNeverSlashed ==
    \A i \in Intent : ~(Landed(i) /\ intents[i].status = "Slashed")

\* The settlement sequence never still tries to confirm when the user can already take
\* the escrow back with claimRefund.  Slash and reconciliation passes call the same
\* confirmSettlementWithRetry whenever they find a payout landed, after the deadline too, and
\* it makes one attempt before it looks at the clock: the property is not about them.
ConfirmEndsBeforeRefund ==
    task[Sequencer].pc \in {"cread", "csign", "cwait"}
        => now < intents[task[Sequencer].intent].expiry + REFUND_GRACE

\* A postCollateral whose outcome this process never learned stays on record as one, for
\* the boot reconciliation to resolve from the chain: an intent written off as
\* "collateral_failed" has no postCollateral that is still pending or that succeeded.
UnknownOutcomeStaysOnRecord ==
    \A i \in Intent : \A n \in DOMAIN txs[i] :
        txs[i][n].fn = "post" /\ txs[i][n].st \in {"mempool", "success"}
            => arb[i].stage # "collateral_failed"

\* A payout that landed gets recorded as settled in the end, although the child that
\* sent it may have reported a failure, the process may have crashed at any point, and
\* any check may fail: the reconciliation of the settled ledger does not give up.
DeliveryGetsRecorded ==
    \A i \in Intent : Landed(i) ~> settled[i].status = "settled"

\* The prover queue is not blocked for ever by one intent: every sequence, the retries
\* of payout and confirmation included, comes to an end.
SequenceEnds == ~At(Sequencer, "idle") ~> At(Sequencer, "idle")
=============================================================================
