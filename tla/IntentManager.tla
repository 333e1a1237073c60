--------------------------- MODULE IntentManager ---------------------------
(***************************************************************************)
(* The source-chain escrow contract, contracts/evm/src/IntentManager.sol.  *)
(*                                                                         *)
(* A user escrows an amount and opens an intent; an approved solver locks  *)
(* 150% of it as collateral; the orchestrator then either confirms the     *)
(* settlement (escrow and collateral go to the solver) or, after expiry,   *)
(* slashes the solver (escrow back to the user, collateral credited to the *)
(* treasury).  Without the orchestrator the owner gets the escrow back     *)
(* with cancelIntent (no solver) or claimRefund (REFUND_GRACE after        *)
(* expiry).                                                                *)
(*                                                                         *)
(* Every external function is one atomic action: a revert undoes the whole *)
(* call, so a call that reverts is an action that is not enabled, and      *)
(* nonReentrant keeps a recipient's callback out of the fund movers.       *)
(***************************************************************************)
EXTENDS Integers

CONSTANTS
    Account,        \* addresses that may call the contract
    NoAccount,      \* address(0)
    treasury,       \* immutable
    owner,          \* immutable administrator
    NonPayable,     \* accounts that reject a bare ETH transfer
    Eth,            \* tokenAddress == address(0)
    Token,          \* ERC20 contracts
    Amount,         \* amounts a caller may name
    Expiry,         \* expiries a caller may name
    Limit,          \* limits setDailyVolumeLimit may be called with
    MaxLimit,       \* type(uint256).max, the initial limit
    REFUND_GRACE,
    VOLUME_WINDOW,
    MaxIntents,     \* bound: number of submitIntent calls
    MaxTime         \* bound: last block.timestamp explored

COLLATERAL_RATIO == 150

Asset == Token \cup {Eth}
Intent == 0 .. (MaxIntents - 1)
IntentStatus == {"Pending", "Settled", "Expired", "Slashed", "Refunded"}

ASSUME AccountAssumption ==
    /\ NoAccount \notin Account
    /\ treasury \in Account
    /\ owner \in Account
    /\ NonPayable \subseteq Account
    /\ Eth \notin Token
ASSUME NumberAssumption ==
    /\ Amount \subseteq Nat
    /\ Expiry \subseteq Nat
    /\ Limit \subseteq Nat
    /\ MaxLimit \in Nat
    /\ REFUND_GRACE \in Nat
    /\ VOLUME_WINDOW \in Nat
    /\ MaxIntents \in Nat
    /\ MaxTime \in Nat

VARIABLES
    now,                        \* block.timestamp
    intents,
    intentNonce,
    orchestrator,
    approvedSolvers,
    pendingTreasuryWithdrawals,
    dailyVolume,
    dailyVolumeLimit,
    lastVolumeReset,
    paused,
    balance,                    \* what the contract holds of each asset
    paid                        \* history: what each intent has paid out, to whom

adminVars == <<orchestrator, approvedSolvers, dailyVolumeLimit, paused>>
volumeVars == <<dailyVolume, lastVolumeReset>>
contractVars == <<intents, intentNonce, pendingTreasuryWithdrawals, balance, paid,
                  adminVars, volumeVars>>
vars == <<now, contractVars>>

\* The record a mapping holds at a key nobody wrote.
EmptyIntent ==
    [owner |-> NoAccount, amount |-> 0, tokenAddress |-> Eth, expiry |-> 0,
     status |-> "Pending", solver |-> NoAccount, collateralPosted |-> 0,
     createdAt |-> 0]

NothingPaid == [escrow |-> 0, escrowTo |-> NoAccount, collateral |-> 0, collateralTo |-> NoAccount]

Exists(i) == intents[i].owner # NoAccount
Collateral(amount) == (amount * COLLATERAL_RATIO) \div 100

----------------------------------------------------------------------------
\* _releaseFunds: only the native leg can be refused by its recipient.
CanReceive(to, asset) == asset = Eth => to \notin NonPayable

\* Mutant of CanPostCollateral: the expiry is not looked at.
CanPostCollateralAnyTime(s, i, value) ==
    /\ ~paused
    /\ s \in approvedSolvers
    /\ Exists(i)
    /\ intents[i].solver = NoAccount
    /\ value = Collateral(intents[i].amount)

\* The preconditions of the three calls the orchestrator process sends; the
\* composition needs them on their own to tell a landed call from a reverted one.
CanPostCollateral(s, i, value) ==
    /\ ~paused
    /\ s \in approvedSolvers
    /\ Exists(i)
    /\ intents[i].solver = NoAccount
    /\ now < intents[i].expiry
    /\ value = Collateral(intents[i].amount)

CanConfirm(caller, i) ==
    /\ caller = orchestrator
    /\ intents[i].status = "Pending"
    /\ intents[i].solver # NoAccount
    /\ CanReceive(intents[i].solver, intents[i].tokenAddress)
    /\ CanReceive(intents[i].solver, Eth)

CanSlash(caller, i) ==
    /\ caller = orchestrator
    /\ intents[i].status = "Pending"
    /\ now >= intents[i].expiry
    /\ intents[i].solver # NoAccount
    /\ CanReceive(intents[i].owner, intents[i].tokenAddress)

\* What the native balance and the escrowed asset's balance become when escrow
\* leaves in the intent's asset and out leaves in ETH.
BalanceAfter(asset, escrow, out) ==
    [a \in Asset |-> balance[a] - (IF a = asset THEN escrow ELSE 0)
                                - (IF a = Eth THEN out ELSE 0)]

\* The three terminal dispositions of a collateralized intent share one shape:
\* the status latch, collateralPosted zeroed, escrow to one party.
Resolve(i, status, escrowTo, collateralTo) ==
    /\ intents' = [intents EXCEPT ![i].status = status, ![i].collateralPosted = 0]
    /\ paid' = [paid EXCEPT ![i] =
                    [escrow |-> @.escrow + intents[i].amount, escrowTo |-> escrowTo,
                     collateral |-> @.collateral + intents[i].collateralPosted,
                     collateralTo |-> collateralTo]]

\* Forfeited collateral is credited for withdrawTreasury, never pushed.
ForfeitToTreasury(i, status) ==
    /\ Resolve(i, status, intents[i].owner, treasury)
    /\ balance' = BalanceAfter(intents[i].tokenAddress, intents[i].amount, 0)
    /\ pendingTreasuryWithdrawals' =
            [pendingTreasuryWithdrawals EXCEPT ![treasury] = @ + intents[i].collateralPosted]

----------------------------------------------------------------------------
\* Mutant of submitIntent: a new window does not move lastVolumeReset.
submitIntentStaleReset(sender, asset, amount, expiry) ==
    LET volume == (IF now > lastVolumeReset + VOLUME_WINDOW THEN 0 ELSE dailyVolume) + amount
    IN  /\ ~paused
        /\ intentNonce < MaxIntents
        /\ amount # 0
        /\ expiry > now
        /\ volume <= dailyVolumeLimit
        /\ dailyVolume' = volume
        /\ intents' = [intents EXCEPT ![intentNonce] =
                [EmptyIntent EXCEPT !.owner = sender, !.amount = amount, !.tokenAddress = asset,
                                    !.expiry = expiry, !.createdAt = now]]
        /\ intentNonce' = intentNonce + 1
        /\ balance' = [balance EXCEPT ![asset] = @ + amount]
        /\ UNCHANGED <<now, pendingTreasuryWithdrawals, paid, adminVars, lastVolumeReset>>

\* Recording an escrow of `amount` units that actually arrived.  The id is
\* keccak256(sender, intentNonce, timestamp), a new one for every nonce.
submitIntent(sender, asset, amount, expiry) ==
    LET windowOver == now > lastVolumeReset + VOLUME_WINDOW
        volume == (IF windowOver THEN 0 ELSE dailyVolume) + amount
    IN  /\ ~paused
        /\ intentNonce < MaxIntents
        /\ amount # 0
        /\ expiry > now
        /\ volume <= dailyVolumeLimit
        /\ dailyVolume' = volume
        /\ lastVolumeReset' = IF windowOver THEN now ELSE lastVolumeReset
        /\ intents' = [intents EXCEPT ![intentNonce] =
                [EmptyIntent EXCEPT !.owner = sender, !.amount = amount, !.tokenAddress = asset,
                                    !.expiry = expiry, !.createdAt = now]]
        /\ intentNonce' = intentNonce + 1
        /\ balance' = [balance EXCEPT ![asset] = @ + amount]
        /\ UNCHANGED <<now, pendingTreasuryWithdrawals, paid, adminVars>>

\* msg.value must equal the amount of a native intent; an ERC20 may deliver less
\* than it was asked for (fee on transfer), and what arrived is what is recorded.
Submit(sender) ==
    \E asked \in Amount, expiry \in Expiry :
        \/ submitIntent(sender, Eth, asked, expiry)
        \/ \E token \in Token, arrived \in 0 .. asked : submitIntent(sender, token, arrived, expiry)

postCollateral(s, i, value) ==
    /\ CanPostCollateral(s, i, value)
    /\ intents' = [intents EXCEPT ![i].solver = s, ![i].collateralPosted = value]
    /\ balance' = [balance EXCEPT ![Eth] = @ + value]
    /\ UNCHANGED <<now, intentNonce, pendingTreasuryWithdrawals, paid, adminVars, volumeVars>>

confirmSettlement(caller, i) ==
    /\ CanConfirm(caller, i)
    /\ Resolve(i, "Settled", intents[i].solver, intents[i].solver)
    /\ balance' = BalanceAfter(intents[i].tokenAddress, intents[i].amount, intents[i].collateralPosted)
    /\ UNCHANGED <<now, intentNonce, pendingTreasuryWithdrawals, adminVars, volumeVars>>

slashSolver(caller, i) ==
    /\ CanSlash(caller, i)
    /\ ForfeitToTreasury(i, "Slashed")
    /\ UNCHANGED <<now, intentNonce, adminVars, volumeVars>>

cancelIntent(caller, i) ==
    /\ intents[i].owner = caller
    /\ intents[i].status = "Pending"
    /\ now >= intents[i].expiry
    /\ intents[i].solver = NoAccount
    /\ CanReceive(caller, intents[i].tokenAddress)
    /\ intents' = [intents EXCEPT ![i].status = "Expired"]
    /\ paid' = [paid EXCEPT ![i].escrow = @ + intents[i].amount, ![i].escrowTo = caller]
    /\ balance' = BalanceAfter(intents[i].tokenAddress, intents[i].amount, 0)
    /\ UNCHANGED <<now, intentNonce, pendingTreasuryWithdrawals, adminVars, volumeVars>>

\* Mutant of claimRefund: whenNotPaused.
claimRefundUnlessPaused(caller, i) ==
    /\ ~paused
    /\ intents[i].owner = caller
    /\ intents[i].status = "Pending"
    /\ intents[i].solver # NoAccount
    /\ now >= intents[i].expiry + REFUND_GRACE
    /\ CanReceive(caller, intents[i].tokenAddress)
    /\ ForfeitToTreasury(i, "Refunded")
    /\ UNCHANGED <<now, intentNonce, adminVars, volumeVars>>

claimRefund(caller, i) ==
    /\ intents[i].owner = caller
    /\ intents[i].status = "Pending"
    /\ intents[i].solver # NoAccount
    /\ now >= intents[i].expiry + REFUND_GRACE
    /\ CanReceive(caller, intents[i].tokenAddress)
    /\ ForfeitToTreasury(i, "Refunded")
    /\ UNCHANGED <<now, intentNonce, adminVars, volumeVars>>

\* Mutant of withdrawTreasury: the credit is not zeroed.
withdrawTreasuryKeepsCredit(caller) ==
    /\ caller \notin NonPayable
    /\ balance' = [balance EXCEPT ![Eth] = @ - pendingTreasuryWithdrawals[caller]]
    /\ UNCHANGED <<now, pendingTreasuryWithdrawals, intents, intentNonce, paid, adminVars, volumeVars>>

withdrawTreasury(caller) ==
    /\ caller \notin NonPayable
    /\ pendingTreasuryWithdrawals' = [pendingTreasuryWithdrawals EXCEPT ![caller] = 0]
    /\ balance' = [balance EXCEPT ![Eth] = @ - pendingTreasuryWithdrawals[caller]]
    /\ UNCHANGED <<now, intents, intentNonce, paid, adminVars, volumeVars>>

----------------------------------------------------------------------------
\* onlyAdmin: the caller is always `owner`, so it is left implicit.
pause ==
    /\ ~paused
    /\ paused' = TRUE
    /\ UNCHANGED <<now, intents, intentNonce, pendingTreasuryWithdrawals, balance, paid,
                   orchestrator, approvedSolvers, dailyVolumeLimit, volumeVars>>

unpause ==
    /\ paused
    /\ paused' = FALSE
    /\ UNCHANGED <<now, intents, intentNonce, pendingTreasuryWithdrawals, balance, paid,
                   orchestrator, approvedSolvers, dailyVolumeLimit, volumeVars>>

setDailyVolumeLimit(newLimit) ==
    /\ dailyVolumeLimit' = newLimit
    /\ UNCHANGED <<now, intents, intentNonce, pendingTreasuryWithdrawals, balance, paid,
                   orchestrator, approvedSolvers, paused, volumeVars>>

\* Mutant of setOrchestrator: the zero address is accepted.
setOrchestratorUnchecked(newOrchestrator) ==
    /\ orchestrator' \in {newOrchestrator, NoAccount}
    /\ UNCHANGED <<now, intents, intentNonce, pendingTreasuryWithdrawals, balance, paid,
                   approvedSolvers, dailyVolumeLimit, paused, volumeVars>>

setOrchestrator(newOrchestrator) ==
    /\ orchestrator' = newOrchestrator
    /\ UNCHANGED <<now, intents, intentNonce, pendingTreasuryWithdrawals, balance, paid,
                   approvedSolvers, dailyVolumeLimit, paused, volumeVars>>

setSolver(s, approved) ==
    /\ approvedSolvers' = IF approved THEN approvedSolvers \cup {s} ELSE approvedSolvers \ {s}
    /\ UNCHANGED <<now, intents, intentNonce, pendingTreasuryWithdrawals, balance, paid,
                   orchestrator, dailyVolumeLimit, paused, volumeVars>>

\* Blocks carry a non-decreasing timestamp.
Tick ==
    /\ now < MaxTime
    /\ now' = now + 1
    /\ UNCHANGED contractVars

----------------------------------------------------------------------------
\* The constructor's state, under an orchestrator key and with some solvers approved.
InitWith(key, solvers) ==
    /\ now = 0
    /\ intents = [i \in Intent |-> EmptyIntent]
    /\ intentNonce = 0
    /\ orchestrator = key
    /\ approvedSolvers = solvers
    /\ pendingTreasuryWithdrawals = [a \in Account |-> 0]
    /\ dailyVolume = 0
    /\ dailyVolumeLimit = MaxLimit
    /\ lastVolumeReset = now
    /\ paused = FALSE
    /\ balance = [a \in Asset |-> 0]
    /\ paid = [i \in Intent |-> NothingPaid]

Init == \E key \in Account : InitWith(key, {})

Admin ==
    \/ pause
    \/ unpause
    \/ \E l \in Limit : setDailyVolumeLimit(l)
    \/ \E a \in Account : setOrchestrator(a)
    \/ \E a \in Account, approved \in BOOLEAN : setSolver(a, approved)

Call(caller) ==
    \/ Submit(caller)
    \/ withdrawTreasury(caller)
    \/ \E i \in Intent :
        \/ postCollateral(caller, i, Collateral(intents[i].amount))
        \/ confirmSettlement(caller, i)
        \/ slashSolver(caller, i)
        \/ cancelIntent(caller, i)
        \/ claimRefund(caller, i)

Next == Tick \/ Admin \/ \E a \in Account : Call(a)

Spec == Init /\ [][Next]_vars

\* Time passes, and an owner who wants the escrow back keeps asking for it.
Reclaim(i) == \E a \in Account : cancelIntent(a, i) \/ claimRefund(a, i)

FairSpec ==
    /\ Spec
    /\ WF_vars(Tick)
    /\ \A i \in Intent : WF_vars(Reclaim(i))

----------------------------------------------------------------------------
IntentRecord ==
    [owner : Account \cup {NoAccount}, amount : Nat, tokenAddress : Asset, expiry : Nat,
     status : IntentStatus, solver : Account \cup {NoAccount}, collateralPosted : Nat,
     createdAt : Nat]

PaidRecord ==
    [escrow : Nat, escrowTo : Account \cup {NoAccount},
     collateral : Nat, collateralTo : Account \cup {NoAccount}]

\* The types of the contract's storage (IntentManager.sol, struct Intent and the
\* state variables below it).
TypeOK ==
    /\ now \in Nat
    /\ intents \in [Intent -> IntentRecord]
    /\ intentNonce \in 0 .. MaxIntents
    /\ orchestrator \in Account
    /\ approvedSolvers \subseteq Account
    /\ pendingTreasuryWithdrawals \in [Account -> Nat]
    /\ dailyVolume \in Nat
    /\ dailyVolumeLimit \in Nat
    /\ lastVolumeReset \in Nat
    /\ paused \in BOOLEAN
    /\ balance \in [Asset -> Int]
    /\ paid \in [Intent -> PaidRecord]

\* What intent i must have paid out so far, given its status.
Due(i) ==
    LET rec == intents[i]
        col == Collateral(rec.amount)
    IN  CASE rec.status = "Pending" -> NothingPaid
          [] rec.status = "Settled" ->
                [escrow |-> rec.amount, escrowTo |-> rec.solver,
                 collateral |-> col, collateralTo |-> rec.solver]
          [] rec.status = "Expired" ->
                [NothingPaid EXCEPT !.escrow = rec.amount, !.escrowTo = rec.owner]
          [] OTHER ->
                [escrow |-> rec.amount, escrowTo |-> rec.owner,
                 collateral |-> col, collateralTo |-> treasury]

\* Escrow and collateral leave the contract exactly once, in full, and to the
\* party the final status names: the solver gets both when Settled, the owner the
\* escrow and the treasury the collateral when Slashed or Refunded, the owner the
\* escrow when Expired.  The collateral still locked is exactly 150% of the escrow
\* while a collateralized intent is Pending and nothing otherwise; in particular
\* nobody can lock collateral on an intent that cancelIntent already closed,
\* although postCollateral never looks at the status.
PaidExactlyOnce ==
    \A i \in Intent :
        /\ paid[i] = Due(i)
        /\ intents[i].collateralPosted =
                IF intents[i].status = "Pending" /\ intents[i].solver # NoAccount
                THEN Collateral(intents[i].amount) ELSE 0
        /\ intents[i].status = "Expired" => intents[i].solver = NoAccount

\* Why PaidExactlyOnce is preserved.  An intent closed with a solver keeps it, so the
\* solver guard of postCollateral stays shut; an intent closed without one is past its
\* expiry, so the expiry guard does; and an id not handed out yet is untouched storage.
ClosedForGood ==
    \A i \in Intent :
        /\ intents[i].status \in {"Settled", "Slashed", "Refunded"} => intents[i].solver # NoAccount
        /\ intents[i].status = "Expired" => now >= intents[i].expiry
        /\ i >= intentNonce => intents[i] = EmptyIntent

EscrowInv == TypeOK /\ PaidExactlyOnce /\ ClosedForGood

\* A solver posts collateral only for an intent that was submitted.
SolverHasIntent == \A i \in Intent : intents[i].solver # NoAccount => Exists(i)

\* The sum of f over all intents.
Total(f) ==
    LET upTo[n \in 0 .. MaxIntents] == IF n = 0 THEN 0 ELSE upTo[n - 1] + f[n - 1]
    IN  upTo[MaxIntents]

Escrowed(asset) ==
    [i \in Intent |-> IF intents[i].status = "Pending" /\ intents[i].tokenAddress = asset
                      THEN intents[i].amount ELSE 0]
Locked == [i \in Intent |-> intents[i].collateralPosted]
Counted == [i \in Intent |-> IF intents[i].createdAt >= lastVolumeReset THEN intents[i].amount ELSE 0]

\* The contract holds exactly what it owes: of every asset the escrow of the
\* Pending intents in it, and in ETH also the locked collateral and the credit the
\* treasury did not withdraw yet, which nobody else has.  A payout that is too large,
\* taken twice or taken in the wrong asset eats another intent's escrow.
Solvency ==
    /\ \A a \in Asset :
        balance[a] = Total(Escrowed(a))
            + (IF a = Eth THEN Total(Locked) + pendingTreasuryWithdrawals[treasury] ELSE 0)
    /\ \A c \in Account \ {treasury} : pendingTreasuryWithdrawals[c] = 0

\* The circuit breaker counts every escrow accepted since the last reset, and none
\* from before it: a reset never forgets volume of the window it opens.
VolumeCountsTheWindow == dailyVolume = Total(Counted)

\* No call changes an intent that was closed, nor takes its solver away: the status moves
\* one way, from Pending to one of the others (IntentManager.sol, IntentStatus).
OneWay ==
    \A i \in Intent : intents[i].status # "Pending" => intents'[i] = intents[i]

\* The escrow of every intent is returned or released in the end, whatever the
\* administrator does with pause, the solver list and the orchestrator key: the
\* escape hatches cancelIntent and claimRefund depend on none of them ("a pause must
\* never trap user funds").  An owner that cannot receive ETH is on its own.
EscrowNeverTrapped ==
    \A i \in Intent :
        (Exists(i) /\ CanReceive(intents[i].owner, intents[i].tokenAddress))
            ~> (intents[i].status # "Pending")
=============================================================================
