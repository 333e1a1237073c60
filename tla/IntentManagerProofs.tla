------------------------ MODULE IntentManagerProofs ------------------------
(***************************************************************************)
(* Proofs about the escrow contract, for any number of intents, accounts,  *)
(* tokens, any amounts and any timing.                                     *)
(***************************************************************************)
EXTENDS IntentManager, WellFoundedInduction, TLAPS

\* Why VolumeCountsTheWindow is preserved: when a window is over, all intents are older
\* than the new one.
WindowInv ==
    /\ lastVolumeReset <= now
    /\ \A i \in Intent : intents[i].createdAt <= lastVolumeReset + VOLUME_WINDOW

\* Collateral is a natural number, whatever the integer division rounds away.
LEMMA CollateralNat == ASSUME NEW n \in Nat PROVE Collateral(n) \in Nat
BY DEF Collateral, COLLATERAL_RATIO

\* Untouched storage is a well-typed intent, and so is an empty payout record.
LEMMA EmptyIntentType == EmptyIntent \in IntentRecord
BY DEF EmptyIntent, IntentRecord, Asset, IntentStatus

LEMMA NothingPaidType == NothingPaid \in PaidRecord
BY DEF NothingPaid, PaidRecord

\* Resolve changes one record to one of the right type.
LEMMA ResolveType ==
    ASSUME TypeOK, NEW i \in Intent, NEW st \in IntentStatus,
           NEW e \in Account \cup {NoAccount}, NEW c \in Account \cup {NoAccount},
           Resolve(i, st, e, c)
    PROVE  /\ intents' \in [Intent -> IntentRecord]
           /\ paid' \in [Intent -> PaidRecord]
<1>1. intents[i] \in IntentRecord /\ paid[i] \in PaidRecord
  BY DEF TypeOK
<1>2. [intents[i] EXCEPT !.status = st, !.collateralPosted = 0] \in IntentRecord
  BY <1>1 DEF IntentRecord
<1>3. [escrow |-> paid[i].escrow + intents[i].amount, escrowTo |-> e,
       collateral |-> paid[i].collateral + intents[i].collateralPosted,
       collateralTo |-> c] \in PaidRecord
  BY <1>1 DEF IntentRecord, PaidRecord
<1>4. QED
  BY <1>2, <1>3 DEF Resolve, TypeOK

\* What a payout leaves is a balance of every asset.
LEMMA BalanceAfterType ==
    ASSUME TypeOK, NEW a \in Asset, NEW x \in Nat, NEW y \in Nat
    PROVE  BalanceAfter(a, x, y) \in [Asset -> Int]
BY DEF BalanceAfter, TypeOK

\* The constructor establishes the types.
LEMMA InitWithType ==
    ASSUME NEW key \in Account, NEW solvers \in SUBSET Account, InitWith(key, solvers)
    PROVE  TypeOK
<1>1. intents \in [Intent -> IntentRecord]
  BY EmptyIntentType DEF InitWith
<1>2. paid \in [Intent -> PaidRecord]
  BY NothingPaidType DEF InitWith
<1>3. intentNonce \in 0 .. MaxIntents /\ dailyVolumeLimit \in Nat
  BY NumberAssumption DEF InitWith
<1>4. now \in Nat /\ dailyVolume \in Nat /\ lastVolumeReset \in Nat
  BY DEF InitWith
<1>5. balance \in [Asset -> Int] /\ pendingTreasuryWithdrawals \in [Account -> Nat]
  BY DEF InitWith
<1>6. paused \in BOOLEAN /\ approvedSolvers \subseteq Account /\ orchestrator \in Account
  BY Zenon DEF InitWith
<1>7. QED
  BY <1>1, <1>2, <1>3, <1>4, <1>5, <1>6 DEF TypeOK

LEMMA InitType == Init => TypeOK
BY InitWithType DEF Init

\* submitIntent keeps the types: the id it hands out is below MaxIntents.
LEMMA SubmitType ==
    ASSUME TypeOK, NEW s \in Account, NEW a \in Asset, NEW n \in Nat, NEW e \in Nat,
           submitIntent(s, a, n, e)
    PROVE  TypeOK'
<1> DEFINE rec == [EmptyIntent EXCEPT !.owner = s, !.amount = n, !.tokenAddress = a,
                                      !.expiry = e, !.createdAt = now]
<1>1. rec \in IntentRecord
  BY EmptyIntentType DEF TypeOK, IntentRecord
<1>2. intents' \in [Intent -> IntentRecord]
  BY <1>1 DEF submitIntent, TypeOK
<1>3. dailyVolume' \in Nat /\ lastVolumeReset' \in Nat
  BY DEF submitIntent, TypeOK
<1>4. intentNonce' \in 0 .. MaxIntents
  BY NumberAssumption DEF submitIntent, TypeOK
<1>5. balance' \in [Asset -> Int]
  BY DEF submitIntent, TypeOK
<1>6. QED
  BY <1>2, <1>3, <1>4, <1>5 DEF submitIntent, adminVars, TypeOK

\* postCollateral keeps the types.
LEMMA PostType ==
    ASSUME TypeOK, NEW s \in Account, NEW i \in Intent,
           postCollateral(s, i, Collateral(intents[i].amount))
    PROVE  TypeOK'
<1>1. intents[i] \in IntentRecord
  BY DEF TypeOK
<1>2. Collateral(intents[i].amount) \in Nat
  BY <1>1, CollateralNat DEF IntentRecord
<1>3. [intents[i] EXCEPT !.solver = s, !.collateralPosted = Collateral(intents[i].amount)]
        \in IntentRecord
  BY <1>1, <1>2 DEF IntentRecord
<1>4. intents' \in [Intent -> IntentRecord]
  BY <1>3 DEF postCollateral, TypeOK
<1>5. balance' \in [Asset -> Int]
  BY <1>2 DEF postCollateral, TypeOK, Asset
<1>6. QED
  BY <1>4, <1>5 DEF postCollateral, adminVars, volumeVars, TypeOK

\* The three resolutions and the cancellation.
LEMMA ConfirmType ==
    ASSUME TypeOK, NEW a \in Account, NEW i \in Intent, confirmSettlement(a, i)
    PROVE  TypeOK'
<1>1. intents[i] \in IntentRecord
  BY DEF TypeOK
<1>2. intents' \in [Intent -> IntentRecord] /\ paid' \in [Intent -> PaidRecord]
  BY <1>1, ResolveType DEF confirmSettlement, IntentRecord, IntentStatus
<1>3. balance' \in [Asset -> Int]
  BY <1>1, BalanceAfterType DEF confirmSettlement, IntentRecord
<1>4. QED
  BY <1>2, <1>3 DEF confirmSettlement, adminVars, volumeVars, TypeOK

\* slashSolver and claimRefund keep the types.
LEMMA ForfeitType ==
    ASSUME TypeOK, NEW i \in Intent, NEW st \in {"Slashed", "Refunded"}, ForfeitToTreasury(i, st)
    PROVE  /\ intents' \in [Intent -> IntentRecord]
           /\ paid' \in [Intent -> PaidRecord]
           /\ balance' \in [Asset -> Int]
           /\ pendingTreasuryWithdrawals' \in [Account -> Nat]
<1>1. intents[i] \in IntentRecord
  BY DEF TypeOK
<1>2. intents' \in [Intent -> IntentRecord] /\ paid' \in [Intent -> PaidRecord]
  BY <1>1, ResolveType, AccountAssumption DEF ForfeitToTreasury, IntentRecord, IntentStatus
<1>3. balance' \in [Asset -> Int]
  BY <1>1, BalanceAfterType DEF ForfeitToTreasury, IntentRecord
<1>4. pendingTreasuryWithdrawals' \in [Account -> Nat]
  BY <1>1, AccountAssumption DEF ForfeitToTreasury, IntentRecord, TypeOK
<1>5. QED
  BY <1>2, <1>3, <1>4

\* cancelIntent keeps the types.
LEMMA CancelType ==
    ASSUME TypeOK, NEW a \in Account, NEW i \in Intent, cancelIntent(a, i)
    PROVE  TypeOK'
<1>1. intents[i] \in IntentRecord /\ paid[i] \in PaidRecord
  BY DEF TypeOK
<1>2. [intents[i] EXCEPT !.status = "Expired"] \in IntentRecord
  BY <1>1 DEF IntentRecord, IntentStatus
<1>3. [paid[i] EXCEPT !.escrow = paid[i].escrow + intents[i].amount, !.escrowTo = a]
        \in PaidRecord
  <2>1. paid[i].escrow + intents[i].amount \in Nat
    BY <1>1 DEF IntentRecord, PaidRecord
  <2>2. QED
    BY <1>1, <2>1 DEF PaidRecord
<1>4. balance' \in [Asset -> Int]
  BY <1>1, BalanceAfterType DEF cancelIntent, IntentRecord
<1>5. intents' \in [Intent -> IntentRecord] /\ paid' \in [Intent -> PaidRecord]
  BY <1>2, <1>3 DEF cancelIntent, TypeOK
<1>6. QED
  BY <1>4, <1>5 DEF cancelIntent, adminVars, volumeVars, TypeOK

\* withdrawTreasury keeps the types.
LEMMA WithdrawType ==
    ASSUME TypeOK, NEW a \in Account, withdrawTreasury(a)
    PROVE  TypeOK'
<1>1. balance' \in [Asset -> Int]
  BY DEF withdrawTreasury, TypeOK, Asset
<1>2. pendingTreasuryWithdrawals' \in [Account -> Nat]
  BY DEF withdrawTreasury, TypeOK
<1>3. QED
  BY <1>1, <1>2 DEF withdrawTreasury, adminVars, volumeVars, TypeOK

\* The administrator's calls keep the types.
LEMMA AdminType ==
    ASSUME TypeOK, Admin
    PROVE  TypeOK'
<1>1. CASE pause
  BY <1>1 DEF pause, volumeVars, TypeOK
<1>2. CASE unpause
  BY <1>2 DEF unpause, volumeVars, TypeOK
<1>3. ASSUME NEW l \in Limit, setDailyVolumeLimit(l) PROVE TypeOK'
  BY <1>3, NumberAssumption DEF setDailyVolumeLimit, volumeVars, TypeOK
<1>4. ASSUME NEW a \in Account, setOrchestrator(a) PROVE TypeOK'
  BY <1>4 DEF setOrchestrator, volumeVars, TypeOK
<1>5. ASSUME NEW a \in Account, NEW b \in BOOLEAN, setSolver(a, b) PROVE TypeOK'
  BY <1>5 DEF setSolver, volumeVars, TypeOK
<1>6. QED
  BY <1>1, <1>2, <1>3, <1>4, <1>5 DEF Admin

\* Every step keeps the types: one case per call.
LEMMA NextType == TypeOK /\ [Next]_vars => TypeOK'
<1> SUFFICES ASSUME TypeOK, [Next]_vars PROVE TypeOK'
  OBVIOUS
<1>1. CASE Tick
  BY <1>1 DEF Tick, contractVars, adminVars, volumeVars, TypeOK
<1>2. CASE Admin
  BY <1>2, AdminType
<1>3. ASSUME NEW a \in Account, Call(a) PROVE TypeOK'
  <2>1. CASE Submit(a)
    <3>1. PICK n \in Amount, e \in Expiry :
            \/ submitIntent(a, Eth, n, e)
            \/ \E token \in Token, arrived \in 0 .. n : submitIntent(a, token, arrived, e)
      BY <2>1 DEF Submit
    <3>2. n \in Nat /\ e \in Nat
      BY NumberAssumption
    <3>3. CASE submitIntent(a, Eth, n, e)
      BY <3>2, <3>3, SubmitType DEF Asset
    <3>4. ASSUME NEW token \in Token, NEW arrived \in 0 .. n, submitIntent(a, token, arrived, e)
          PROVE  TypeOK'
      BY <3>2, <3>4, SubmitType DEF Asset
    <3>5. QED
      BY <3>1, <3>3, <3>4
  <2>2. CASE withdrawTreasury(a)
    BY <2>2, WithdrawType
  <2>3. ASSUME NEW i \in Intent, postCollateral(a, i, Collateral(intents[i].amount)) PROVE TypeOK'
    BY <2>3, PostType
  <2>4. ASSUME NEW i \in Intent, confirmSettlement(a, i) PROVE TypeOK'
    BY <2>4, ConfirmType
  <2>5. ASSUME NEW i \in Intent, slashSolver(a, i) PROVE TypeOK'
    <3>1. ForfeitToTreasury(i, "Slashed")
      BY <2>5 DEF slashSolver
    <3>2. QED
      BY <3>1, <2>5, ForfeitType DEF slashSolver, adminVars, volumeVars, TypeOK
  <2>6. ASSUME NEW i \in Intent, cancelIntent(a, i) PROVE TypeOK'
    BY <2>6, CancelType
  <2>7. ASSUME NEW i \in Intent, claimRefund(a, i) PROVE TypeOK'
    <3>1. ForfeitToTreasury(i, "Refunded")
      BY <2>7 DEF claimRefund
    <3>2. QED
      BY <3>1, <2>7, ForfeitType DEF claimRefund, adminVars, volumeVars, TypeOK
  <2>8. QED
    BY <1>3, <2>1, <2>2, <2>3, <2>4, <2>5, <2>6, <2>7 DEF Call
<1>4. CASE UNCHANGED vars
  BY <1>4 DEF vars, contractVars, adminVars, volumeVars, TypeOK
<1>5. QED
  BY <1>1, <1>2, <1>3, <1>4 DEF Next

\* The contract's storage keeps its types (IntentManager.sol's struct and state
\* variables) under every sequence of calls.
THEOREM TypeCorrect == Spec => []TypeOK
<1>1. QED
  BY InitType, NextType, PTL DEF Spec

----------------------------------------------------------------------------
(***************************************************************************)
(* PaidExactlyOnce, one intent at a time: EscrowOK(i) is intent i's share  *)
(* of PaidExactlyOnce and ClosedForGood.                                   *)
(***************************************************************************)
EscrowOK(i) ==
    /\ paid[i] = Due(i)
    /\ intents[i].collateralPosted =
            IF intents[i].status = "Pending" /\ intents[i].solver # NoAccount
            THEN Collateral(intents[i].amount) ELSE 0
    /\ intents[i].status = "Expired" => intents[i].solver = NoAccount
    /\ intents[i].status \in {"Settled", "Slashed", "Refunded"} => intents[i].solver # NoAccount
    /\ intents[i].status = "Expired" => now >= intents[i].expiry
    /\ i >= intentNonce => intents[i] = EmptyIntent

\* EscrowInv is a statement about each intent on its own, which is how it is proved.
LEMMA EscrowInvPointwise == EscrowInv <=> TypeOK /\ \A i \in Intent : EscrowOK(i)
BY DEF EscrowInv, EscrowOK, PaidExactlyOnce, ClosedForGood

\* An intent that no call touches stays right as time and the nonce advance.
LEMMA Untouched ==
    ASSUME TypeOK, TypeOK', NEW i \in Intent, EscrowOK(i),
           intents'[i] = intents[i], paid'[i] = paid[i],
           now' >= now, intentNonce' >= intentNonce
    PROVE  EscrowOK(i)'
<1>1. Due(i)' = Due(i)
  BY DEF Due
<1>2. /\ intents[i].expiry \in Nat
      /\ now \in Nat /\ now' \in Nat
      /\ intentNonce \in Nat /\ intentNonce' \in Nat
  BY DEF TypeOK, IntentRecord
<1>3. intents[i].status = "Expired" => now' >= intents[i].expiry
  BY <1>2 DEF EscrowOK
<1>4. i >= intentNonce' => intents[i] = EmptyIntent
  BY <1>2 DEF EscrowOK, Intent
<1>5. QED
  BY <1>1, <1>3, <1>4 DEF EscrowOK

\* Initially nothing was escrowed and nothing paid.
LEMMA InitWithEscrow ==
    ASSUME NEW key \in Account, NEW solvers \in SUBSET Account, InitWith(key, solvers)
    PROVE  EscrowInv
<1> SUFFICES ASSUME NEW i \in Intent PROVE EscrowOK(i)
  BY InitWithType, EscrowInvPointwise
<1>1. intents[i] = EmptyIntent /\ paid[i] = NothingPaid
  BY DEF InitWith
<1>2. QED
  BY <1>1 DEF EscrowOK, Due, EmptyIntent, NothingPaid

LEMMA InitEscrow == Init => EscrowInv
BY InitWithEscrow DEF Init

\* Opening an intent under a fresh id.
LEMMA SubmitEscrow ==
    ASSUME EscrowInv, TypeOK', NEW s \in Account, NEW a \in Asset, NEW n \in Nat, NEW e \in Nat,
           submitIntent(s, a, n, e), NEW i \in Intent
    PROVE  EscrowOK(i)'
<1>1. TypeOK /\ EscrowOK(i)
  BY EscrowInvPointwise
<1>2. CASE i # intentNonce
  <2>1. intents'[i] = intents[i] /\ paid'[i] = paid[i] /\ now' = now
    BY <1>1, <1>2 DEF submitIntent, TypeOK
  <2>2. now' >= now /\ intentNonce' >= intentNonce
    BY <1>1, <2>1 DEF submitIntent, TypeOK
  <2>3. QED
    BY <1>1, <2>1, <2>2, Untouched
<1>3. CASE i = intentNonce
  <2>1. /\ intents'[i] = [EmptyIntent EXCEPT !.owner = s, !.amount = n, !.tokenAddress = a,
                                             !.expiry = e, !.createdAt = now]
        /\ paid'[i] = paid[i]
    BY <1>1, <1>3 DEF submitIntent, TypeOK
  <2>2. /\ intents'[i].status = "Pending"
        /\ intents'[i].solver = NoAccount
        /\ intents'[i].collateralPosted = 0
    BY <2>1 DEF EmptyIntent
  <2>3. paid'[i] = NothingPaid
    <3>1. i >= intentNonce
      BY <1>3 DEF Intent
    <3>2. intents[i] = EmptyIntent
      BY <3>1, <1>1 DEF EscrowOK
    <3>3. QED
      BY <3>2, <2>1, <1>1 DEF EscrowOK, Due, EmptyIntent
  <2>4. ~(i >= intentNonce')
    BY <1>1, <1>3 DEF submitIntent, TypeOK, Intent
  <2>5. QED
    BY <2>2, <2>3, <2>4 DEF EscrowOK, Due
<1>4. QED
  BY <1>2, <1>3

\* postCollateral finds the intent Pending although it does not look: a closed
\* intent has a solver already or is past its expiry.
LEMMA PostFindsPending ==
    ASSUME TypeOK, NEW s \in Account, NEW i \in Intent, NEW v, EscrowOK(i), CanPostCollateral(s, i, v)
    PROVE  intents[i].status = "Pending" /\ i < intentNonce
<1>1. /\ intents[i] \in IntentRecord
      /\ intents[i].solver = NoAccount
      /\ now \in Nat
      /\ now < intents[i].expiry
      /\ intents[i].owner # NoAccount
  BY DEF CanPostCollateral, Exists, TypeOK
<1>2. ~(now >= intents[i].expiry)
  BY <1>1 DEF IntentRecord
<1>3. intents[i].status \in IntentStatus
  BY <1>1 DEF IntentRecord
<1>4. intents[i].status = "Pending"
  BY <1>1, <1>2, <1>3 DEF EscrowOK, IntentStatus
<1>5. intents[i] # EmptyIntent
  BY <1>1 DEF EmptyIntent
<1>6. QED
  BY <1>4, <1>5 DEF EscrowOK, TypeOK, Intent

\* Locking collateral: the intent is Pending and owes nothing yet (PostFindsPending).
LEMMA PostEscrow ==
    ASSUME EscrowInv, TypeOK', NEW s \in Account, NEW j \in Intent,
           postCollateral(s, j, Collateral(intents[j].amount)), NEW i \in Intent
    PROVE  EscrowOK(i)'
<1>1. TypeOK /\ EscrowOK(i) /\ EscrowOK(j)
  BY EscrowInvPointwise
<1>2. CASE i # j
  <2>1. intents'[i] = intents[i] /\ paid'[i] = paid[i]
    BY <1>1, <1>2 DEF postCollateral, TypeOK
  <2>2. now' >= now /\ intentNonce' >= intentNonce
    BY <1>1 DEF postCollateral, TypeOK
  <2>3. QED
    BY <1>1, <2>1, <2>2, Untouched
<1>3. CASE i = j
  <2>1. intents[i].status = "Pending" /\ i < intentNonce
    <3>1. CanPostCollateral(s, i, Collateral(intents[i].amount))
      BY <1>3 DEF postCollateral
    <3>2. QED
      BY <1>1, <3>1, PostFindsPending
  <2>2. /\ intents'[i] = [intents[i] EXCEPT !.solver = s,
                                            !.collateralPosted = Collateral(intents[i].amount)]
        /\ paid'[i] = paid[i]
        /\ intentNonce' = intentNonce
    BY <1>1, <1>3 DEF postCollateral, TypeOK
  <2>3. /\ intents'[i].status = "Pending"
        /\ intents'[i].solver = s
        /\ intents'[i].amount = intents[i].amount
        /\ intents'[i].collateralPosted = Collateral(intents[i].amount)
    BY <1>1, <2>1, <2>2 DEF TypeOK, IntentRecord
  <2>4. paid'[i] = NothingPaid
    BY <1>1, <2>1, <2>2 DEF EscrowOK, Due
  <2>5. ~(i >= intentNonce')
    BY <1>1, <2>1, <2>2 DEF TypeOK, Intent
  <2>6. s # NoAccount
    BY AccountAssumption
  <2>7. QED
    BY <2>3, <2>4, <2>5, <2>6 DEF EscrowOK, Due
<1>4. QED
  BY <1>2, <1>3

\* Resolving a collateralized Pending intent pays out what its new status asks for.
LEMMA ResolveEscrow ==
    ASSUME EscrowInv, TypeOK', NEW j \in Intent, NEW st, NEW e, NEW c, Resolve(j, st, e, c),
           intents[j].status = "Pending", intents[j].solver # NoAccount,
           \/ st = "Settled" /\ e = intents[j].solver /\ c = intents[j].solver
           \/ st \in {"Slashed", "Refunded"} /\ e = intents[j].owner /\ c = treasury,
           now' = now, intentNonce' = intentNonce, NEW i \in Intent
    PROVE  EscrowOK(i)'
<1>1. TypeOK /\ EscrowOK(i) /\ EscrowOK(j)
  BY EscrowInvPointwise
<1>2. CASE i # j
  <2>1. intents'[i] = intents[i] /\ paid'[i] = paid[i]
    BY <1>1, <1>2 DEF Resolve, TypeOK
  <2>2. now' >= now /\ intentNonce' >= intentNonce
    BY <1>1 DEF TypeOK
  <2>3. QED
    BY <1>1, <2>1, <2>2, Untouched
<1>3. CASE i = j
  <2> DEFINE col == Collateral(intents[i].amount)
  <2>1. intents[i] \in IntentRecord /\ intents[i].amount \in Nat /\ col \in Nat
    BY <1>1, CollateralNat DEF TypeOK, IntentRecord
  <2>2. paid[i] = NothingPaid /\ intents[i].collateralPosted = col
    BY <1>1, <1>3 DEF EscrowOK, Due
  <2>3. /\ intents'[i] = [intents[i] EXCEPT !.status = st, !.collateralPosted = 0]
        /\ paid'[i] = [escrow |-> paid[i].escrow + intents[i].amount, escrowTo |-> e,
                       collateral |-> paid[i].collateral + intents[i].collateralPosted,
                       collateralTo |-> c]
    BY <1>1, <1>3 DEF Resolve, TypeOK
  <2>4. /\ intents'[i].status = st
        /\ intents'[i].solver = intents[i].solver
        /\ intents'[i].owner = intents[i].owner
        /\ intents'[i].amount = intents[i].amount
        /\ intents'[i].collateralPosted = 0
    BY <2>1, <2>3 DEF IntentRecord
  <2>5. paid[i].escrow + intents[i].amount = intents[i].amount
    BY <2>1, <2>2 DEF NothingPaid
  <2>6. paid[i].collateral + intents[i].collateralPosted = col
    <3> HIDE DEF col
    <3>1. QED
      BY <2>1, <2>2 DEF NothingPaid
  <2>7. paid'[i] = [escrow |-> intents[i].amount, escrowTo |-> e,
                    collateral |-> col, collateralTo |-> c]
    BY <2>3, <2>5, <2>6
  <2>8. intents[i] # EmptyIntent
    BY <1>3 DEF EmptyIntent
  <2>9. ~(i >= intentNonce')
    BY <1>1, <2>8 DEF EscrowOK
  <2>10. Due(i)' = paid'[i]
    BY <1>3, <2>4, <2>7 DEF Due
  <2>11. QED
    BY <1>3, <2>4, <2>9, <2>10 DEF EscrowOK
<1>4. QED
  BY <1>2, <1>3

\* cancelIntent closes an intent without solver, at or after its expiry.
LEMMA CancelEscrow ==
    ASSUME EscrowInv, TypeOK', NEW a \in Account, NEW j \in Intent, cancelIntent(a, j), NEW i \in Intent
    PROVE  EscrowOK(i)'
<1>1. TypeOK /\ EscrowOK(i) /\ EscrowOK(j)
  BY EscrowInvPointwise
<1>2. CASE i # j
  <2>1. intents'[i] = intents[i] /\ paid'[i] = paid[i]
    BY <1>1, <1>2 DEF cancelIntent, TypeOK
  <2>2. now' >= now /\ intentNonce' >= intentNonce
    BY <1>1 DEF cancelIntent, TypeOK
  <2>3. QED
    BY <1>1, <2>1, <2>2, Untouched
<1>3. CASE i = j
  <2>1. intents[i] \in IntentRecord /\ intents[i].amount \in Nat
    BY <1>1 DEF TypeOK, IntentRecord
  <2>2. /\ intents[i].status = "Pending"
        /\ intents[i].solver = NoAccount
        /\ intents[i].owner = a
        /\ now' = now /\ now >= intents[i].expiry
        /\ intentNonce' = intentNonce
    BY <1>3 DEF cancelIntent
  <2>3. paid[i] = NothingPaid /\ intents[i].collateralPosted = 0
    BY <1>1, <2>2 DEF EscrowOK, Due
  <2>4. /\ intents'[i] = [intents[i] EXCEPT !.status = "Expired"]
        /\ paid'[i] = [paid[i] EXCEPT !.escrow = paid[i].escrow + intents[i].amount,
                                      !.escrowTo = a]
    BY <1>1, <1>3 DEF cancelIntent, TypeOK
  <2>5. paid'[i] = [NothingPaid EXCEPT !.escrow = intents[i].amount, !.escrowTo = a]
    <3>1. paid[i].escrow + intents[i].amount = intents[i].amount
      BY <2>1, <2>3 DEF NothingPaid
    <3>2. QED
      BY <3>1, <2>3, <2>4
  <2>6. /\ intents'[i].status = "Expired"
        /\ intents'[i].solver = NoAccount
        /\ intents'[i].owner = a
        /\ intents'[i].amount = intents[i].amount
        /\ intents'[i].expiry = intents[i].expiry
        /\ intents'[i].collateralPosted = 0
    BY <2>1, <2>2, <2>3, <2>4 DEF IntentRecord
  <2>7. ~(i >= intentNonce')
    <3>1. intents[i] # EmptyIntent
      BY <2>2, AccountAssumption DEF EmptyIntent
    <3>2. QED
      BY <1>1, <2>2, <3>1 DEF EscrowOK
  <2>8. QED
    BY <2>2, <2>5, <2>6, <2>7 DEF EscrowOK, Due
<1>4. QED
  BY <1>2, <1>3

\* Every step preserves EscrowInv: one case per call that touches an intent.
LEMMA NextEscrow == EscrowInv /\ [Next]_vars => EscrowInv'
<1> SUFFICES ASSUME EscrowInv, [Next]_vars PROVE EscrowInv'
  OBVIOUS
<1>1. TypeOK /\ TypeOK'
  BY NextType DEF EscrowInv
<1> SUFFICES ASSUME NEW i \in Intent PROVE EscrowOK(i)'
  BY <1>1 DEF EscrowInv, EscrowOK, PaidExactlyOnce, ClosedForGood
<1>2. EscrowOK(i)
  BY EscrowInvPointwise
<1>3. CASE Tick \/ Admin \/ UNCHANGED vars \/ (\E a \in Account : withdrawTreasury(a))
  <2>1. intents' = intents /\ paid' = paid /\ intentNonce' = intentNonce
    BY <1>3 DEF Tick, Admin, pause, unpause, setDailyVolumeLimit, setOrchestrator, setSolver,
                withdrawTreasury, vars, contractVars
  <2>2. now' = now \/ now' = now + 1
    BY <1>3 DEF Tick, Admin, pause, unpause, setDailyVolumeLimit, setOrchestrator, setSolver,
                withdrawTreasury, vars
  <2>3. now' >= now /\ intentNonce' >= intentNonce
    BY <1>1, <2>1, <2>2 DEF TypeOK
  <2>4. QED
    BY <1>1, <1>2, <2>1, <2>3, Untouched
<1>4. ASSUME NEW a \in Account, Submit(a) PROVE EscrowOK(i)'
  <2>1. PICK n \in Amount, e \in Expiry :
          \/ submitIntent(a, Eth, n, e)
          \/ \E token \in Token, arrived \in 0 .. n : submitIntent(a, token, arrived, e)
    BY <1>4 DEF Submit
  <2>2. n \in Nat /\ e \in Nat
    BY NumberAssumption
  <2>3. CASE submitIntent(a, Eth, n, e)
    BY <1>1, <2>2, <2>3, SubmitEscrow DEF Asset
  <2>4. ASSUME NEW token \in Token, NEW arrived \in 0 .. n, submitIntent(a, token, arrived, e)
        PROVE  EscrowOK(i)'
    BY <1>1, <2>2, <2>4, SubmitEscrow DEF Asset
  <2>5. QED
    BY <2>1, <2>3, <2>4
<1>5. ASSUME NEW a \in Account, NEW j \in Intent,
             postCollateral(a, j, Collateral(intents[j].amount))
      PROVE  EscrowOK(i)'
  BY <1>1, <1>5, PostEscrow
<1>6. ASSUME NEW a \in Account, NEW j \in Intent, confirmSettlement(a, j) PROVE EscrowOK(i)'
  <2>1. /\ Resolve(j, "Settled", intents[j].solver, intents[j].solver)
        /\ intents[j].status = "Pending" /\ intents[j].solver # NoAccount
        /\ now' = now /\ intentNonce' = intentNonce
    BY <1>6 DEF confirmSettlement, CanConfirm
  <2>2. QED
    BY <1>1, <2>1, ResolveEscrow
<1>7. ASSUME NEW a \in Account, NEW j \in Intent, slashSolver(a, j) \/ claimRefund(a, j)
      PROVE  EscrowOK(i)'
  <2>1. PICK st \in {"Slashed", "Refunded"} : Resolve(j, st, intents[j].owner, treasury)
    BY <1>7 DEF slashSolver, claimRefund, ForfeitToTreasury
  <2>2. /\ intents[j].status = "Pending" /\ intents[j].solver # NoAccount
        /\ now' = now /\ intentNonce' = intentNonce
    BY <1>7 DEF slashSolver, CanSlash, claimRefund
  <2>3. QED
    BY <1>1, <2>1, <2>2, ResolveEscrow
<1>8. ASSUME NEW a \in Account, NEW j \in Intent, cancelIntent(a, j) PROVE EscrowOK(i)'
  BY <1>1, <1>8, CancelEscrow
<1>9. QED
  BY <1>3, <1>4, <1>5, <1>6, <1>7, <1>8 DEF Next, Call

\* Whatever the callers, the administrator and the clock do, each intent's escrow and
\* collateral leave IntentManager.sol once, in full, to the party its final status
\* names (confirmSettlement, slashSolver, cancelIntent, claimRefund).
THEOREM EscrowPaidExactlyOnce == Spec => []PaidExactlyOnce
<1>1. Init => EscrowInv
  BY InitEscrow
<1>2. EscrowInv /\ [Next]_vars => EscrowInv'
  BY NextEscrow
<1>3. EscrowInv => PaidExactlyOnce
  BY DEF EscrowInv
<1>4. QED
  BY <1>1, <1>2, <1>3, PTL DEF Spec

\* An id not handed out yet is Pending, so submitIntent overwrites no closed record.
LEMMA NextOneWay == EscrowInv /\ [Next]_vars => OneWay
<1> SUFFICES ASSUME EscrowInv, [Next]_vars, NEW i \in Intent, intents[i].status # "Pending"
             PROVE  intents'[i] = intents[i]
  BY DEF OneWay
<1>1. TypeOK /\ EscrowOK(i)
  BY EscrowInvPointwise
<1>2. i # intentNonce
  BY <1>1 DEF EscrowOK, EmptyIntent, Intent, TypeOK
<1>3. CASE Tick \/ Admin \/ vars' = vars \/ \E a \in Account : withdrawTreasury(a)
  BY <1>3 DEF Tick, contractVars, Admin, pause, unpause, setDailyVolumeLimit, setOrchestrator,
              setSolver, withdrawTreasury, vars
<1>4. ASSUME NEW a \in Account, Submit(a) PROVE intents'[i] = intents[i]
  BY <1>1, <1>2, <1>4 DEF Submit, submitIntent, TypeOK
<1>5. ASSUME NEW a \in Account, NEW j \in Intent,
             postCollateral(a, j, Collateral(intents[j].amount))
      PROVE  intents'[i] = intents[i]
  <2>1. CanPostCollateral(a, j, Collateral(intents[j].amount)) /\ EscrowOK(j)
    BY <1>5, EscrowInvPointwise DEF postCollateral
  <2>2. j # i
    BY <1>1, <2>1, PostFindsPending
  <2>3. QED
    BY <1>1, <1>5, <2>2 DEF postCollateral, TypeOK
<1>6. ASSUME NEW a \in Account, NEW j \in Intent,
             \/ confirmSettlement(a, j) \/ slashSolver(a, j)
             \/ cancelIntent(a, j) \/ claimRefund(a, j)
      PROVE  intents'[i] = intents[i]
  <2>1. j # i
    BY <1>6 DEF confirmSettlement, CanConfirm, slashSolver, CanSlash, cancelIntent, claimRefund
  <2>2. QED
    BY <1>1, <1>6, <2>1 DEF confirmSettlement, slashSolver, cancelIntent, claimRefund,
                            ForfeitToTreasury, Resolve, TypeOK
<1>7. QED
  BY <1>3, <1>4, <1>5, <1>6 DEF Next, Call

\* No call takes an intent's owner away, and a new intent has no solver.
LEMMA NextSolverHasIntent == EscrowInv /\ SolverHasIntent /\ [Next]_vars => SolverHasIntent'
<1> SUFFICES ASSUME EscrowInv, SolverHasIntent, [Next]_vars,
                    NEW i \in Intent, intents'[i].solver # NoAccount
             PROVE  intents'[i].owner # NoAccount
  BY DEF SolverHasIntent, Exists, Intent
<1>1. TypeOK
  BY DEF EscrowInv
<1>2. intents[i].solver # NoAccount => intents[i].owner # NoAccount
  BY DEF SolverHasIntent, Exists
<1>3. CASE Tick \/ Admin \/ vars' = vars \/ \E a \in Account : withdrawTreasury(a)
  BY <1>2, <1>3 DEF Tick, contractVars, Admin, pause, unpause, setDailyVolumeLimit, setOrchestrator,
              setSolver, withdrawTreasury, vars
<1>4. ASSUME NEW a \in Account, Submit(a) PROVE intents'[i].owner # NoAccount
  <2>1. a # NoAccount
    BY AccountAssumption DEF AccountAssumption
  <2>2. CASE i # intentNonce
    BY <1>1, <1>2, <1>4, <2>2 DEF Submit, submitIntent, TypeOK
  <2>3. CASE i = intentNonce
    <3>1. PICK asset, n, e : submitIntent(a, asset, n, e)
      BY <1>4 DEF Submit
    <3>2. intents'[i] = [EmptyIntent EXCEPT !.owner = a, !.amount = n, !.tokenAddress = asset,
                                            !.expiry = e, !.createdAt = now]
      BY <1>1, <2>3, <3>1 DEF submitIntent, TypeOK
    <3>3. intents'[i].owner = a
      BY <3>2 DEF EmptyIntent
    <3>4. QED
      BY <2>1, <3>3
  <2>4. QED
    BY <2>2, <2>3
<1>5. ASSUME NEW a \in Account, NEW j \in Intent,
             postCollateral(a, j, Collateral(intents[j].amount))
      PROVE  intents'[i].owner # NoAccount
  <2>1. intents[j].owner # NoAccount
    BY <1>5 DEF postCollateral, CanPostCollateral, Exists
  <2>2. intents'[i].owner = intents[i].owner /\ (i # j => intents'[i] = intents[i])
    BY <1>1, <1>5 DEF postCollateral, TypeOK, IntentRecord
  <2>3. QED
    BY <1>2, <2>1, <2>2
<1>6. ASSUME NEW a \in Account, NEW j \in Intent,
             \/ confirmSettlement(a, j) \/ slashSolver(a, j)
             \/ cancelIntent(a, j) \/ claimRefund(a, j)
      PROVE  intents'[i].owner # NoAccount
  <2>1. CASE cancelIntent(a, j)
    <3>1. intents' = [intents EXCEPT ![j].status = "Expired"]
      BY <2>1 DEF cancelIntent
    <3>2. intents'[i].owner = intents[i].owner /\ intents'[i].solver = intents[i].solver
      BY <1>1, <3>1 DEF TypeOK, IntentRecord
    <3>3. QED
      BY <1>2, <3>2
  <2>2. CASE confirmSettlement(a, j) \/ slashSolver(a, j) \/ claimRefund(a, j)
    <3>1. PICK st \in {"Settled", "Slashed", "Refunded"} :
            intents' = [intents EXCEPT ![j].status = st, ![j].collateralPosted = 0]
      BY <2>2 DEF confirmSettlement, slashSolver, claimRefund, ForfeitToTreasury, Resolve
    <3>2. intents'[i].owner = intents[i].owner /\ intents'[i].solver = intents[i].solver
      BY <1>1, <3>1 DEF TypeOK, IntentRecord
    <3>3. QED
      BY <1>2, <3>2
  <2>3. QED
    BY <1>6, <2>1, <2>2
<1>7. QED
  BY <1>3, <1>4, <1>5, <1>6 DEF Next, Call

\* No sequence of calls, administrator's ones included, reopens an intent or changes how
\* it ended; clients may remember a final status (solver_stats.ts does).
THEOREM StatusIsOneWay == Spec => [][OneWay]_vars
<1>1. Init => EscrowInv
  BY InitEscrow
<1>2. EscrowInv /\ [Next]_vars => EscrowInv'
  BY NextEscrow
<1>3. EscrowInv /\ [Next]_vars => OneWay
  BY NextOneWay
<1>4. QED
  BY <1>1, <1>2, <1>3, PTL DEF Spec
----------------------------------------------------------------------------
(***************************************************************************)
(* What the contract holds and what its circuit breaker counts are sums    *)
(* over all intents.  A sum is a recursive function of the number of       *)
(* intents; what is needed of it is how it changes with one summand, which *)
(* takes an induction over the ids.                                        *)
(***************************************************************************)
\* The least-number principle, from the well-foundedness of < on the naturals.
LEMMA LeastNatural ==
    ASSUME NEW T \in SUBSET Nat, T # {}
    PROVE  \E m \in T : \A k \in T : m <= k
<1> DEFINE R == OpToRel(<, Nat)
<1>1. \E m \in T : \A k \in T : ~ (<<k, m>> \in R)
  <2> HIDE DEF R
  <2>1. IsWellFoundedOn(R, Nat)
    BY NatLessThanWellFounded DEF R
  <2>2. QED
    BY <2>1, WFMin
<1>2. \A k, m \in Nat : k < m => <<k, m>> \in R
  BY DEF OpToRel
<1> HIDE DEF R
<1>3. PICK m \in T : \A k \in T : ~ (<<k, m>> \in R)
  BY <1>1
<1>4. ASSUME NEW k \in T PROVE m <= k
  <2>1. k \in Nat /\ m \in Nat /\ ~ (k < m)
    BY <1>2, <1>3
  <2>2. QED
    BY <2>1
<1>5. QED
  BY <1>4

\* s holds the sums of the first 0, 1, ... n of the f's.
PartialSums(s, f, n) ==
    /\ s \in [0 .. n -> Int]
    /\ s[0] = 0
    /\ \A k \in 1 .. n : s[k] = s[k - 1] + f[k - 1]

\* The partial sums exist, up to any number of intents.
LEMMA PartialSumsExist ==
    ASSUME NEW f \in [Intent -> Int]
    PROVE  \E s : PartialSums(s, f, MaxIntents)
<1> DEFINE Bad == {n \in 0 .. MaxIntents : ~ \E s : PartialSums(s, f, n)}
<1>1. MaxIntents \in Nat
  BY NumberAssumption
<1>2. SUFFICES Bad = {}
  BY <1>1
<1>3. SUFFICES ASSUME Bad # {} PROVE FALSE
  OBVIOUS
<1>4. PICK m \in Bad : \A k \in Bad : m <= k
  <2>1. Bad \in SUBSET Nat
    BY <1>1
  <2> HIDE DEF Bad
  <2>2. QED
    BY <1>3, <2>1, LeastNatural
<1>5. CASE m = 0
  <2>1. PartialSums([n \in 0 .. 0 |-> 0], f, 0)
    BY DEF PartialSums
  <2>2. QED
    BY <1>4, <1>5, <2>1
<1>6. CASE m # 0
  <2>1. m \in 1 .. MaxIntents /\ m - 1 \in 0 .. MaxIntents /\ m - 1 \notin Bad
    BY <1>1, <1>4, <1>6
  <2>2. PICK s : PartialSums(s, f, m - 1)
    BY <2>1
  <2> DEFINE t == [n \in 0 .. m |-> IF n = m THEN s[m - 1] + f[m - 1] ELSE s[n]]
  <2>3. m - 1 \in Intent /\ f[m - 1] \in Int
    BY <1>1, <2>1 DEF Intent
  <2>4. /\ s \in [0 .. m - 1 -> Int] /\ s[0] = 0
        /\ \A k \in 1 .. m - 1 : s[k] = s[k - 1] + f[k - 1]
    BY <2>2 DEF PartialSums
  <2>5. t \in [0 .. m -> Int] /\ t[0] = 0
    BY <1>6, <2>1, <2>3, <2>4
  <2>6. ASSUME NEW k \in 1 .. m PROVE t[k] = t[k - 1] + f[k - 1]
    <3>1. CASE k = m
      BY <1>1, <2>1, <3>1
    <3>2. CASE k # m
      BY <1>1, <2>1, <2>4, <3>2
    <3>3. QED
      BY <3>1, <3>2
  <2> HIDE DEF t
  <2>7. PartialSums(t, f, m)
    BY <2>5, <2>6 DEF PartialSums
  <2>8. QED
    BY <1>4, <2>7
<1>7. QED
  BY <1>5, <1>6

\* Total is the last of them.
LEMMA TotalIsASum ==
    ASSUME NEW f \in [Intent -> Int]
    PROVE  \E s : PartialSums(s, f, MaxIntents) /\ Total(f) = s[MaxIntents]
<1> DEFINE Step(s) == [n \in 0 .. MaxIntents |-> IF n = 0 THEN 0 ELSE s[n - 1] + f[n - 1]]
           upTo == CHOOSE s : s = Step(s)
<1>1. MaxIntents \in Nat
  BY NumberAssumption
<1>2. PICK s : PartialSums(s, f, MaxIntents)
  BY PartialSumsExist
<1>3. s = Step(s)
  BY <1>1, <1>2 DEF PartialSums
<1>4. upTo = Step(upTo)
  BY <1>3
<1>5. Total(f) = upTo[MaxIntents]
  BY DEF Total
<1> HIDE DEF upTo
<1>6. /\ upTo[0] = 0
      /\ \A k \in 1 .. MaxIntents : upTo[k] = upTo[k - 1] + f[k - 1]
      /\ DOMAIN upTo = 0 .. MaxIntents
  BY <1>1, <1>4
<1>7. PartialSums(upTo, f, MaxIntents)
  <2> DEFINE Bad == {n \in 0 .. MaxIntents : upTo[n] \notin Int}
  <2>1. SUFFICES ASSUME Bad # {} PROVE FALSE
    BY <1>4, <1>6 DEF PartialSums
  <2>2. PICK m \in Bad : \A k \in Bad : m <= k
    <3>1. Bad \in SUBSET Nat
      BY <1>1
    <3> HIDE DEF Bad
    <3>2. QED
      BY <2>1, <3>1, LeastNatural
  <2>3. m # 0 /\ m \in 1 .. MaxIntents /\ m - 1 \in 0 .. MaxIntents
    BY <1>1, <1>6, <2>2
  <2>4. upTo[m - 1] \in Int
    BY <1>1, <2>2, <2>3
  <2>5. f[m - 1] \in Int
    BY <1>1, <2>3 DEF Intent
  <2>6. QED
    BY <1>6, <2>2, <2>3, <2>4, <2>5
<1>8. QED
  BY <1>5, <1>7

\* A sum is a number, and 0 if all summands are.
LEMMA TotalType == ASSUME NEW f \in [Intent -> Int] PROVE Total(f) \in Int
<1>1. PICK s : PartialSums(s, f, MaxIntents) /\ Total(f) = s[MaxIntents]
  BY TotalIsASum
<1>2. QED
  BY <1>1, NumberAssumption DEF PartialSums

\* One summand changes: so does the sum, by as much.
LEMMA TotalChanges ==
    ASSUME NEW f \in [Intent -> Int], NEW g \in [Intent -> Int], NEW i \in Intent,
           \A j \in Intent \ {i} : g[j] = f[j]
    PROVE  Total(g) = Total(f) + g[i] - f[i]
<1>1. PICK s : PartialSums(s, f, MaxIntents) /\ Total(f) = s[MaxIntents]
  BY TotalIsASum
<1>2. PICK t : PartialSums(t, g, MaxIntents) /\ Total(g) = t[MaxIntents]
  BY TotalIsASum
<1> DEFINE Diff(n) == IF i < n THEN g[i] - f[i] ELSE 0
           Bad == {n \in 0 .. MaxIntents : t[n] # s[n] + Diff(n)}
<1>3. MaxIntents \in Nat /\ i \in 0 .. MaxIntents - 1 /\ f[i] \in Int /\ g[i] \in Int
  BY NumberAssumption DEF Intent
<1>4. /\ s \in [0 .. MaxIntents -> Int] /\ s[0] = 0
      /\ \A k \in 1 .. MaxIntents : s[k] = s[k - 1] + f[k - 1]
      /\ t \in [0 .. MaxIntents -> Int] /\ t[0] = 0
      /\ \A k \in 1 .. MaxIntents : t[k] = t[k - 1] + g[k - 1]
  BY <1>1, <1>2 DEF PartialSums
<1>5. Bad = {}
  <2>1. SUFFICES ASSUME Bad # {} PROVE FALSE
    OBVIOUS
  <2>2. PICK m \in Bad : \A k \in Bad : m <= k
    <3>1. Bad \in SUBSET Nat
      BY <1>3
    <3> HIDE DEF Bad
    <3>2. QED
      BY <2>1, <3>1, LeastNatural
  <2>3. m # 0
    BY <1>3, <1>4, <2>2
  <2>4. m \in 1 .. MaxIntents /\ m - 1 \in 0 .. MaxIntents /\ m - 1 \in Intent
    BY <1>3, <2>2, <2>3 DEF Intent
  <2>5. m - 1 \notin Bad
    BY <1>3, <2>2, <2>4
  <2>6. t[m - 1] = s[m - 1] + Diff(m - 1)
    BY <2>4, <2>5
  <2>7. /\ t[m] = t[m - 1] + g[m - 1]
        /\ s[m] = s[m - 1] + f[m - 1]
        /\ f[m - 1] \in Int /\ g[m - 1] \in Int
    BY <1>4, <2>4
  <2>8. CASE m - 1 = i
    BY <1>3, <1>4, <2>2, <2>4, <2>6, <2>7, <2>8
  <2>9. CASE m - 1 # i
    <3>1. g[m - 1] = f[m - 1]
      BY <2>4, <2>9
    <3>2. Diff(m) = Diff(m - 1)
      BY <1>3, <2>4, <2>9
    <3>3. Diff(m) \in Int
      BY <1>3
    <3> HIDE DEF Diff
    <3>4. QED
      BY <1>4, <2>2, <2>4, <2>6, <2>7, <3>1, <3>2, <3>3
  <2>10. QED
    BY <2>8, <2>9
<1>6. t[MaxIntents] = s[MaxIntents] + Diff(MaxIntents)
  BY <1>3, <1>5
<1>7. QED
  BY <1>1, <1>2, <1>3, <1>4, <1>6

\* Nothing to add up.
LEMMA TotalOfZeros ==
    ASSUME NEW f \in [Intent -> Int], \A j \in Intent : f[j] = 0
    PROVE  Total(f) = 0
<1>1. PICK s : PartialSums(s, f, MaxIntents) /\ Total(f) = s[MaxIntents]
  BY TotalIsASum
<1> DEFINE Bad == {n \in 0 .. MaxIntents : s[n] # 0}
<1>2. MaxIntents \in Nat
  BY NumberAssumption
<1>3. Bad = {}
  <2>1. SUFFICES ASSUME Bad # {} PROVE FALSE
    OBVIOUS
  <2>2. PICK m \in Bad : \A k \in Bad : m <= k
    <3>1. Bad \in SUBSET Nat
      BY <1>2
    <3> HIDE DEF Bad
    <3>2. QED
      BY <2>1, <3>1, LeastNatural
  <2>3. m \in 1 .. MaxIntents /\ m - 1 \in 0 .. MaxIntents /\ m - 1 \in Intent /\ m - 1 \notin Bad
    BY <1>1, <1>2, <2>2 DEF Intent, PartialSums
  <2>4. QED
    BY <1>1, <2>2, <2>3 DEF PartialSums
<1>4. QED
  BY <1>1, <1>2, <1>3

\* The summands are numbers.
SummandsOK ==
    /\ \A a \in Asset : Escrowed(a) \in [Intent -> Int]
    /\ Locked \in [Intent -> Int]
    /\ Counted \in [Intent -> Int]

LEMMA SummandTypes == TypeOK => SummandsOK
<1> SUFFICES ASSUME TypeOK PROVE SummandsOK
  OBVIOUS
<1>1. \A i \in Intent : intents[i].amount \in Int /\ intents[i].collateralPosted \in Int
  BY DEF TypeOK, IntentRecord
<1>2. QED
  BY <1>1 DEF SummandsOK, Escrowed, Locked, Counted

\* A call that touches at most intent i moves the sums by what it does to i.
LEMMA SumsChange ==
    ASSUME TypeOK, TypeOK', NEW i \in Intent, \A j \in Intent \ {i} : intents'[j] = intents[j]
    PROVE  /\ \A a \in Asset :
                /\ Total(Escrowed(a)) \in Int
                /\ Total(Escrowed(a))' = Total(Escrowed(a)) + Escrowed(a)'[i] - Escrowed(a)[i]
           /\ Total(Locked) \in Int
           /\ Total(Locked)' = Total(Locked) + Locked'[i] - Locked[i]
<1>1. /\ \A a \in Asset : Escrowed(a) \in [Intent -> Int] /\ Escrowed(a)' \in [Intent -> Int]
      /\ Locked \in [Intent -> Int] /\ Locked' \in [Intent -> Int]
  <2>1. TypeOK' => SummandsOK'
    BY SummandTypes, PTL
  <2>2. QED
    BY SummandTypes, <2>1 DEF SummandsOK
<1>2. ASSUME NEW a \in Asset
      PROVE  /\ Total(Escrowed(a)) \in Int
             /\ Total(Escrowed(a))' = Total(Escrowed(a)) + Escrowed(a)'[i] - Escrowed(a)[i]
  <2>1. \A j \in Intent \ {i} : Escrowed(a)'[j] = Escrowed(a)[j]
    BY DEF Escrowed
  <2>2. QED
    BY <1>1, <2>1, TotalType, TotalChanges
<1>3. \A j \in Intent \ {i} : Locked'[j] = Locked[j]
  BY DEF Locked
<1>4. QED
  BY <1>1, <1>2, <1>3, TotalType, TotalChanges

\* The contract owes nothing before the first call.
LEMMA InitSolvent == Init => Solvency
<1> SUFFICES ASSUME Init PROVE Solvency
  OBVIOUS
<1>1. TypeOK
  BY InitType
<1>2. PICK key \in Account : InitWith(key, {})
  BY DEF Init
<1>3. /\ \A i \in Intent : intents[i] = EmptyIntent
      /\ balance = [a \in Asset |-> 0]
      /\ pendingTreasuryWithdrawals = [a \in Account |-> 0]
  BY <1>2 DEF InitWith
<1>4. Total(Locked) = 0
  BY <1>1, <1>3, SummandTypes, TotalOfZeros DEF SummandsOK, Locked, EmptyIntent
<1>5. ASSUME NEW a \in Asset PROVE Total(Escrowed(a)) = 0
  BY <1>1, <1>3, SummandTypes, TotalOfZeros DEF SummandsOK, Escrowed, EmptyIntent
<1>6. QED
  BY <1>3, <1>4, <1>5, AccountAssumption DEF Solvency

\* submitIntent escrows what arrived.
LEMMA SubmitSolvent ==
    ASSUME EscrowInv, TypeOK', Solvency, NEW s \in Account, NEW a \in Asset, NEW n \in Nat, NEW e \in Nat,
           submitIntent(s, a, n, e)
    PROVE  Solvency'
<1>1. TypeOK /\ intentNonce \in Intent /\ EscrowOK(intentNonce)
  <2>1. TypeOK /\ \A i \in Intent : EscrowOK(i)
    BY EscrowInvPointwise
  <2>2. intentNonce \in Intent
    BY <2>1, NumberAssumption DEF submitIntent, TypeOK, Intent
  <2>3. QED
    BY <2>1, <2>2
<1>2. intents[intentNonce] = EmptyIntent
  BY <1>1 DEF EscrowOK, Intent
<1> DEFINE i == intentNonce
<1>3. /\ intents'[i] = [EmptyIntent EXCEPT !.owner = s, !.amount = n, !.tokenAddress = a,
                                           !.expiry = e, !.createdAt = now]
      /\ \A j \in Intent \ {i} : intents'[j] = intents[j]
      /\ balance' = [balance EXCEPT ![a] = @ + n]
      /\ UNCHANGED pendingTreasuryWithdrawals
  BY <1>1 DEF submitIntent, TypeOK
<1>4. Locked'[i] = 0 /\ Locked[i] = 0
  BY <1>1, <1>2, <1>3 DEF Locked, EmptyIntent
<1>5. \A b \in Asset : /\ Escrowed(b)[i] = 0
                       /\ Escrowed(b)'[i] = IF b = a THEN n ELSE 0
  <2>1. /\ intents[i].amount = 0
        /\ intents'[i].status = "Pending" /\ intents'[i].tokenAddress = a /\ intents'[i].amount = n
    BY <1>2, <1>3 DEF EmptyIntent
  <2>2. QED
    BY <1>1, <2>1 DEF Escrowed
<1>6. /\ \A b \in Asset :
            /\ Total(Escrowed(b)) \in Int
            /\ Total(Escrowed(b))' = Total(Escrowed(b)) + Escrowed(b)'[i] - Escrowed(b)[i]
      /\ Total(Locked) \in Int
      /\ Total(Locked)' = Total(Locked) + Locked'[i] - Locked[i]
  BY <1>1, <1>3, SumsChange
<1>7. \A b \in Asset : balance'[b] = balance[b] + (IF b = a THEN n ELSE 0) /\ balance[b] \in Int
  BY <1>1, <1>3 DEF TypeOK
<1>8. pendingTreasuryWithdrawals[treasury] \in Int
  BY <1>1, AccountAssumption DEF TypeOK
<1>9. Total(Locked)' = Total(Locked)
  BY <1>4, <1>6
<1>10. ASSUME NEW b \in Asset PROVE Total(Escrowed(b))' = Total(Escrowed(b)) + (IF b = a THEN n ELSE 0)
  BY <1>5, <1>6
<1>11. QED
  BY <1>3, <1>6, <1>7, <1>8, <1>9, <1>10 DEF Solvency

\* What intent i adds to the sums: its escrow while it is Pending, and its collateral.
LEMMA CloseSums ==
    ASSUME TypeOK, TypeOK', NEW i \in Intent, intents[i].status = "Pending",
           \A j \in Intent \ {i} : intents'[j] = intents[j], intents'[i].status # "Pending"
    PROVE  /\ \A b \in Asset :
                /\ Total(Escrowed(b)) \in Int
                /\ Total(Escrowed(b))' = Total(Escrowed(b))
                        - (IF b = intents[i].tokenAddress THEN intents[i].amount ELSE 0)
           /\ Total(Locked) \in Int
           /\ Total(Locked)' = Total(Locked) + intents'[i].collateralPosted - intents[i].collateralPosted
<1>1. /\ \A b \in Asset :
            /\ Total(Escrowed(b)) \in Int
            /\ Total(Escrowed(b))' = Total(Escrowed(b)) + Escrowed(b)'[i] - Escrowed(b)[i]
      /\ Total(Locked) \in Int
      /\ Total(Locked)' = Total(Locked) + Locked'[i] - Locked[i]
  BY SumsChange
<1>2. intents[i].amount \in Int
  BY DEF TypeOK, IntentRecord
<1>3. Locked'[i] = intents'[i].collateralPosted /\ Locked[i] = intents[i].collateralPosted
  BY DEF Locked
<1>4. ASSUME NEW b \in Asset
      PROVE  Escrowed(b)'[i] = 0
             /\ Escrowed(b)[i] = IF b = intents[i].tokenAddress THEN intents[i].amount ELSE 0
  BY DEF Escrowed
<1>5. QED
  BY <1>1, <1>2, <1>3, <1>4

\* confirmSettlement pays out what the intent added, in its asset and in ETH.
LEMMA ConfirmSolvent ==
    ASSUME EscrowInv, TypeOK', Solvency, NEW a \in Account, NEW i \in Intent, confirmSettlement(a, i)
    PROVE  Solvency'
<1>1. TypeOK /\ intents[i] \in IntentRecord
  BY DEF EscrowInv, TypeOK
<1>2. /\ intents[i].status = "Pending"
      /\ intents' = [intents EXCEPT ![i].status = "Settled", ![i].collateralPosted = 0]
      /\ balance' = BalanceAfter(intents[i].tokenAddress, intents[i].amount, intents[i].collateralPosted)
      /\ UNCHANGED pendingTreasuryWithdrawals
  BY DEF confirmSettlement, CanConfirm, Resolve
<1>3. /\ intents'[i].status = "Settled" /\ intents'[i].collateralPosted = 0
      /\ \A j \in Intent \ {i} : intents'[j] = intents[j]
  BY <1>1, <1>2 DEF TypeOK, IntentRecord
<1>4. /\ \A b \in Asset :
            /\ Total(Escrowed(b)) \in Int
            /\ Total(Escrowed(b))' = Total(Escrowed(b))
                    - (IF b = intents[i].tokenAddress THEN intents[i].amount ELSE 0)
      /\ Total(Locked) \in Int
      /\ Total(Locked)' = Total(Locked) + intents'[i].collateralPosted - intents[i].collateralPosted
  BY <1>1, <1>2, <1>3, CloseSums
<1>5. intents[i].amount \in Int /\ intents[i].collateralPosted \in Int
  BY <1>1 DEF IntentRecord
<1>6. \A b \in Asset :
        /\ balance'[b] = balance[b] - (IF b = intents[i].tokenAddress THEN intents[i].amount ELSE 0)
                                    - (IF b = Eth THEN intents[i].collateralPosted ELSE 0)
        /\ balance[b] \in Int
  BY <1>1, <1>2 DEF BalanceAfter, TypeOK
<1>7. pendingTreasuryWithdrawals[treasury] \in Int
  BY <1>1, AccountAssumption DEF TypeOK
<1>8. Total(Locked)' = Total(Locked) - intents[i].collateralPosted
  BY <1>3, <1>4, <1>5
<1>9. QED
  BY <1>2, <1>4, <1>5, <1>6, <1>7, <1>8 DEF Solvency

\* slashSolver and claimRefund: the collateral becomes the treasury's credit.
LEMMA ForfeitSolvent ==
    ASSUME EscrowInv, TypeOK', Solvency, NEW i \in Intent, NEW st \in {"Slashed", "Refunded"},
           ForfeitToTreasury(i, st), intents[i].status = "Pending"
    PROVE  Solvency'
<1>1. TypeOK /\ intents[i] \in IntentRecord
  BY DEF EscrowInv, TypeOK
<1>2. /\ intents' = [intents EXCEPT ![i].status = st, ![i].collateralPosted = 0]
      /\ balance' = BalanceAfter(intents[i].tokenAddress, intents[i].amount, 0)
      /\ pendingTreasuryWithdrawals' =
            [pendingTreasuryWithdrawals EXCEPT ![treasury] = @ + intents[i].collateralPosted]
  BY DEF ForfeitToTreasury, Resolve
<1>3. /\ intents'[i].status # "Pending" /\ intents'[i].collateralPosted = 0
      /\ \A j \in Intent \ {i} : intents'[j] = intents[j]
  BY <1>1, <1>2 DEF TypeOK, IntentRecord
<1>4. /\ \A b \in Asset :
            /\ Total(Escrowed(b)) \in Int
            /\ Total(Escrowed(b))' = Total(Escrowed(b))
                    - (IF b = intents[i].tokenAddress THEN intents[i].amount ELSE 0)
      /\ Total(Locked) \in Int
      /\ Total(Locked)' = Total(Locked) + intents'[i].collateralPosted - intents[i].collateralPosted
  BY <1>1, <1>3, CloseSums
<1>5. intents[i].amount \in Int /\ intents[i].collateralPosted \in Int
  BY <1>1 DEF IntentRecord
<1>6. \A b \in Asset :
        /\ balance'[b] = balance[b] - (IF b = intents[i].tokenAddress THEN intents[i].amount ELSE 0)
        /\ balance[b] \in Int
  BY <1>1, <1>2, <1>5 DEF BalanceAfter, TypeOK
<1>7. /\ pendingTreasuryWithdrawals[treasury] \in Int
      /\ pendingTreasuryWithdrawals'[treasury]
            = pendingTreasuryWithdrawals[treasury] + intents[i].collateralPosted
      /\ \A c \in Account \ {treasury} : pendingTreasuryWithdrawals'[c] = pendingTreasuryWithdrawals[c]
  BY <1>1, <1>2, AccountAssumption DEF TypeOK
<1>8. Total(Locked)' = Total(Locked) - intents[i].collateralPosted
  BY <1>3, <1>4, <1>5
<1>9. QED
  BY <1>4, <1>5, <1>6, <1>7, <1>8 DEF Solvency

\* cancelIntent returns the escrow; there is no collateral.
LEMMA CancelSolvent ==
    ASSUME EscrowInv, TypeOK', Solvency, NEW a \in Account, NEW i \in Intent, cancelIntent(a, i)
    PROVE  Solvency'
<1>1. TypeOK /\ intents[i] \in IntentRecord
  BY DEF EscrowInv, TypeOK
<1>2. /\ intents[i].status = "Pending"
      /\ intents' = [intents EXCEPT ![i].status = "Expired"]
      /\ balance' = BalanceAfter(intents[i].tokenAddress, intents[i].amount, 0)
      /\ UNCHANGED pendingTreasuryWithdrawals
  BY DEF cancelIntent
<1>3. /\ intents'[i].status = "Expired" /\ intents'[i].collateralPosted = intents[i].collateralPosted
      /\ \A j \in Intent \ {i} : intents'[j] = intents[j]
  BY <1>1, <1>2 DEF TypeOK, IntentRecord
<1>4. /\ \A b \in Asset :
            /\ Total(Escrowed(b)) \in Int
            /\ Total(Escrowed(b))' = Total(Escrowed(b))
                    - (IF b = intents[i].tokenAddress THEN intents[i].amount ELSE 0)
      /\ Total(Locked) \in Int
      /\ Total(Locked)' = Total(Locked) + intents'[i].collateralPosted - intents[i].collateralPosted
  BY <1>1, <1>2, <1>3, CloseSums
<1>5. intents[i].amount \in Int /\ intents[i].collateralPosted \in Int
  BY <1>1 DEF IntentRecord
<1>6. \A b \in Asset :
        /\ balance'[b] = balance[b] - (IF b = intents[i].tokenAddress THEN intents[i].amount ELSE 0)
        /\ balance[b] \in Int
  BY <1>1, <1>2, <1>5 DEF BalanceAfter, TypeOK
<1>7. pendingTreasuryWithdrawals[treasury] \in Int
  BY <1>1, AccountAssumption DEF TypeOK
<1>8. Total(Locked)' = Total(Locked)
  BY <1>3, <1>4, <1>5
<1>9. QED
  BY <1>2, <1>4, <1>5, <1>6, <1>7, <1>8 DEF Solvency

\* postCollateral finds no collateral on the intent, and what it locks is what came in.
LEMMA PostSolvent ==
    ASSUME EscrowInv, TypeOK', Solvency, NEW s \in Account, NEW i \in Intent,
           postCollateral(s, i, Collateral(intents[i].amount))
    PROVE  Solvency'
<1> DEFINE value == Collateral(intents[i].amount)
<1>1. TypeOK /\ intents[i] \in IntentRecord /\ EscrowOK(i)
  BY EscrowInvPointwise DEF EscrowInv, TypeOK
<1>2. value \in Nat
  BY <1>1, CollateralNat DEF IntentRecord
<1>3. /\ CanPostCollateral(s, i, value)
      /\ intents' = [intents EXCEPT ![i].solver = s, ![i].collateralPosted = value]
      /\ balance' = [balance EXCEPT ![Eth] = @ + value]
      /\ UNCHANGED pendingTreasuryWithdrawals
  BY DEF postCollateral
<1>4. intents[i].collateralPosted = 0
  BY <1>1, <1>3 DEF EscrowOK, CanPostCollateral
<1> HIDE DEF value
<1>5. /\ intents'[i].collateralPosted = value
      /\ intents'[i].status = intents[i].status
      /\ intents'[i].tokenAddress = intents[i].tokenAddress
      /\ intents'[i].amount = intents[i].amount
      /\ \A j \in Intent \ {i} : intents'[j] = intents[j]
  BY <1>1, <1>3 DEF TypeOK, IntentRecord
<1>6. /\ \A b \in Asset :
            /\ Total(Escrowed(b)) \in Int
            /\ Total(Escrowed(b))' = Total(Escrowed(b)) + Escrowed(b)'[i] - Escrowed(b)[i]
      /\ Total(Locked) \in Int
      /\ Total(Locked)' = Total(Locked) + Locked'[i] - Locked[i]
  BY <1>1, <1>5, SumsChange
<1>7. ASSUME NEW b \in Asset PROVE Total(Escrowed(b))' = Total(Escrowed(b))
  <2>1. Escrowed(b)'[i] = Escrowed(b)[i] /\ Escrowed(b)[i] \in Int
    BY <1>1, <1>5 DEF Escrowed, IntentRecord
  <2>2. QED
    BY <1>6, <2>1
<1>8. Total(Locked)' = Total(Locked) + value
  BY <1>2, <1>4, <1>5, <1>6 DEF Locked
<1>9. \A b \in Asset : balance'[b] = balance[b] + (IF b = Eth THEN value ELSE 0) /\ balance[b] \in Int
  BY <1>1, <1>2, <1>3 DEF TypeOK
<1>10. pendingTreasuryWithdrawals[treasury] \in Int
  BY <1>1, AccountAssumption DEF TypeOK
<1>11. QED
  BY <1>2, <1>3, <1>6, <1>7, <1>8, <1>9, <1>10 DEF Solvency

\* withdrawTreasury pays the caller its credit, which is nothing unless it is the treasury.
LEMMA WithdrawSolvent ==
    ASSUME EscrowInv, TypeOK', Solvency, NEW a \in Account, withdrawTreasury(a)
    PROVE  Solvency'
<1>1. TypeOK /\ TypeOK' /\ UNCHANGED intents
  BY DEF EscrowInv, withdrawTreasury
<1>2. Total(Locked) \in Int /\ \A b \in Asset : Total(Escrowed(b)) \in Int
  BY <1>1, SummandTypes, TotalType DEF SummandsOK
<1>3. Total(Locked)' = Total(Locked) /\ \A b \in Asset : Total(Escrowed(b))' = Total(Escrowed(b))
  BY <1>1 DEF Total, Locked, Escrowed
<1>4. /\ \A c \in Account : pendingTreasuryWithdrawals[c] \in Int
      /\ \A c \in Account : pendingTreasuryWithdrawals'[c]
                                = IF c = a THEN 0 ELSE pendingTreasuryWithdrawals[c]
      /\ \A b \in Asset : /\ balance[b] \in Int
                          /\ balance'[b] = balance[b] - (IF b = Eth THEN pendingTreasuryWithdrawals[a] ELSE 0)
  BY <1>1 DEF withdrawTreasury, TypeOK
<1>5. CASE a = treasury
  BY <1>2, <1>3, <1>4, <1>5 DEF Solvency
<1>6. CASE a # treasury
  <2>1. pendingTreasuryWithdrawals[a] = 0
    BY <1>6 DEF Solvency
  <2>2. QED
    BY <1>2, <1>3, <1>4, <1>6, <2>1, AccountAssumption DEF Solvency
<1>7. QED
  BY <1>5, <1>6

\* Every call keeps the contract solvent.
LEMMA NextSolvent == EscrowInv /\ Solvency /\ [Next]_vars => Solvency'
<1> SUFFICES ASSUME EscrowInv, Solvency, [Next]_vars PROVE Solvency'
  OBVIOUS
<1>1. TypeOK /\ TypeOK'
  BY NextType DEF EscrowInv
<1>2. CASE Tick \/ Admin \/ UNCHANGED vars
  <2>1. UNCHANGED <<intents, balance, pendingTreasuryWithdrawals>>
    BY <1>2 DEF Tick, contractVars, Admin, pause, unpause, setDailyVolumeLimit, setOrchestrator,
                setSolver, vars
  <2>2. Total(Locked)' = Total(Locked) /\ \A b \in Asset : Total(Escrowed(b))' = Total(Escrowed(b))
    BY <2>1 DEF Total, Locked, Escrowed
  <2>3. QED
    BY <2>1, <2>2 DEF Solvency
<1>3. ASSUME NEW a \in Account, Submit(a) PROVE Solvency'
  <2>1. PICK n \in Amount, e \in Expiry :
          \/ submitIntent(a, Eth, n, e)
          \/ \E token \in Token, arrived \in 0 .. n : submitIntent(a, token, arrived, e)
    BY <1>3 DEF Submit
  <2>2. n \in Nat /\ e \in Nat
    BY NumberAssumption
  <2>3. CASE submitIntent(a, Eth, n, e)
    BY <1>1, <2>2, <2>3, SubmitSolvent DEF Asset
  <2>4. ASSUME NEW token \in Token, NEW arrived \in 0 .. n, submitIntent(a, token, arrived, e)
        PROVE  Solvency'
    BY <1>1, <2>2, <2>4, SubmitSolvent DEF Asset
  <2>5. QED
    BY <2>1, <2>3, <2>4
<1>4. ASSUME NEW a \in Account, withdrawTreasury(a) PROVE Solvency'
  BY <1>1, <1>4, WithdrawSolvent
<1>5. ASSUME NEW a \in Account, NEW i \in Intent,
             postCollateral(a, i, Collateral(intents[i].amount))
      PROVE  Solvency'
  BY <1>1, <1>5, PostSolvent
<1>6. ASSUME NEW a \in Account, NEW i \in Intent, confirmSettlement(a, i) PROVE Solvency'
  BY <1>1, <1>6, ConfirmSolvent
<1>7. ASSUME NEW a \in Account, NEW i \in Intent, slashSolver(a, i) \/ claimRefund(a, i)
      PROVE  Solvency'
  <2>1. \E st \in {"Slashed", "Refunded"} : ForfeitToTreasury(i, st)
    BY <1>7 DEF slashSolver, claimRefund
  <2>2. intents[i].status = "Pending"
    BY <1>7 DEF slashSolver, CanSlash, claimRefund
  <2>3. QED
    BY <1>1, <2>1, <2>2, ForfeitSolvent
<1>8. ASSUME NEW a \in Account, NEW i \in Intent, cancelIntent(a, i) PROVE Solvency'
  BY <1>1, <1>8, CancelSolvent
<1>9. QED
  BY <1>2, <1>3, <1>4, <1>5, <1>6, <1>7, <1>8 DEF Next, Call

\* Whatever is called by whom, with any number of intents in any tokens, the contract
\* holds exactly the escrows, the collateral and the credit it owes (the transfers of
\* IntentManager.sol's submitIntent, postCollateral, _releaseFunds and withdrawTreasury).
THEOREM ContractIsSolvent == Spec => []Solvency
<1>1. Init => EscrowInv /\ Solvency
  BY InitEscrow, InitSolvent
<1>2. EscrowInv /\ Solvency /\ [Next]_vars => (EscrowInv /\ Solvency)'
  BY NextEscrow, NextSolvent
<1>3. QED
  BY <1>1, <1>2, PTL DEF Spec


----------------------------------------------------------------------------
(***************************************************************************)
(* The circuit breaker.                                                    *)
(***************************************************************************)
\* Initially nothing was counted, and no intent is there to be counted.
LEMMA InitVolume == Init => WindowInv /\ VolumeCountsTheWindow
<1> SUFFICES ASSUME Init PROVE WindowInv /\ VolumeCountsTheWindow
  OBVIOUS
<1>1. TypeOK
  BY InitType
<1>2. /\ \A i \in Intent : intents[i] = EmptyIntent
      /\ now = 0 /\ lastVolumeReset = 0 /\ dailyVolume = 0
  BY DEF Init, InitWith
<1>3. Total(Counted) = 0
  BY <1>1, <1>2, SummandTypes, TotalOfZeros DEF SummandsOK, Counted, EmptyIntent
<1>4. QED
  BY <1>2, <1>3, NumberAssumption DEF WindowInv, VolumeCountsTheWindow, EmptyIntent

\* An intent keeps its amount and its time of creation, and nothing but submitIntent moves
\* the window.
LEMMA VolumeKept ==
    ASSUME TypeOK, TypeOK', WindowInv, VolumeCountsTheWindow, now' >= now,
           UNCHANGED <<dailyVolume, lastVolumeReset>>,
           \A i \in Intent : intents'[i].amount = intents[i].amount
                             /\ intents'[i].createdAt = intents[i].createdAt
    PROVE  WindowInv' /\ VolumeCountsTheWindow'
<1>1. /\ now \in Nat /\ now' \in Nat /\ lastVolumeReset \in Nat
      /\ \A i \in Intent : intents[i].createdAt \in Nat
  BY DEF TypeOK, IntentRecord
<1>2. WindowInv'
  BY <1>1 DEF WindowInv
<1>3. Counted' = Counted
  BY DEF Counted
<1>4. Total(Counted)' = Total(Counted)
  BY <1>3 DEF Total
<1>5. QED
  BY <1>2, <1>4 DEF VolumeCountsTheWindow

\* submitIntent counts its amount; if it opens a window, no older intent counts any more.
LEMMA SubmitVolume ==
    ASSUME EscrowInv, TypeOK', WindowInv, VolumeCountsTheWindow,
           NEW s \in Account, NEW a \in Asset, NEW n \in Nat, NEW e \in Nat, submitIntent(s, a, n, e)
    PROVE  WindowInv' /\ VolumeCountsTheWindow'
<1> DEFINE i == intentNonce
           over == now > lastVolumeReset + VOLUME_WINDOW
<1>1. TypeOK /\ i \in Intent /\ intents[i] = EmptyIntent
  <2>1. TypeOK /\ \A j \in Intent : EscrowOK(j)
    BY EscrowInvPointwise
  <2>2. i \in Intent
    BY <2>1, NumberAssumption DEF submitIntent, TypeOK, Intent
  <2>3. QED
    BY <2>1, <2>2 DEF EscrowOK, Intent
<1>2. /\ intents'[i] = [EmptyIntent EXCEPT !.owner = s, !.amount = n, !.tokenAddress = a,
                                           !.expiry = e, !.createdAt = now]
      /\ \A j \in Intent \ {i} : intents'[j] = intents[j]
      /\ lastVolumeReset' = IF over THEN now ELSE lastVolumeReset
      /\ dailyVolume' = (IF over THEN 0 ELSE dailyVolume) + n
      /\ now' = now
  BY <1>1 DEF submitIntent, TypeOK
<1>3. intents'[i].createdAt = now /\ intents'[i].amount = n /\ intents[i].amount = 0
  BY <1>1, <1>2 DEF EmptyIntent
<1>4. /\ now \in Nat /\ lastVolumeReset \in Nat /\ VOLUME_WINDOW \in Nat /\ dailyVolume \in Nat
      /\ \A j \in Intent : intents[j].createdAt \in Nat /\ intents[j].amount \in Nat
  BY <1>1, NumberAssumption DEF TypeOK, IntentRecord
<1>5. WindowInv'
  <2>1. lastVolumeReset <= now /\ lastVolumeReset' <= now' /\ now <= lastVolumeReset' + VOLUME_WINDOW
    BY <1>2, <1>4 DEF WindowInv
  <2>2. ASSUME NEW j \in Intent PROVE intents'[j].createdAt <= lastVolumeReset' + VOLUME_WINDOW
    <3>1. CASE j = i
      BY <1>2, <1>3, <2>1, <3>1
    <3>2. CASE j # i
      <4>1. /\ intents'[j] = intents[j]
            /\ intents[j].createdAt <= lastVolumeReset + VOLUME_WINDOW
        BY <1>2, <3>2 DEF WindowInv
      <4>2. lastVolumeReset <= lastVolumeReset' /\ lastVolumeReset' \in Nat
        BY <1>2, <1>4, <2>1
      <4>3. QED
        BY <1>4, <4>1, <4>2
    <3>3. QED
      BY <3>1, <3>2
  <2>3. QED
    BY <2>1, <2>2 DEF WindowInv
<1>6. Counted \in [Intent -> Int] /\ Counted' \in [Intent -> Int]
  <2>1. TypeOK' => SummandsOK'
    BY SummandTypes, PTL
  <2>2. QED
    BY <1>1, <2>1, SummandTypes DEF SummandsOK
<1>7. Counted'[i] = n
  <2>1. intents'[i].createdAt >= lastVolumeReset'
    BY <1>2, <1>3, <1>4 DEF WindowInv
  <2>2. QED
    BY <1>1, <1>3, <2>1 DEF Counted
<1>8. CASE over
  <2> DEFINE none == [j \in Intent |-> 0]
  <2>1. \A j \in Intent \ {i} : Counted'[j] = none[j]
    BY <1>2, <1>4, <1>8 DEF Counted, WindowInv
  <2>2. none \in [Intent -> Int] /\ none[i] = 0 /\ \A j \in Intent : none[j] = 0
    BY <1>1
  <2> HIDE DEF none
  <2>3. Total(none) = 0
    BY <2>2, TotalOfZeros
  <2>4. Total(Counted') = Total(none) + Counted'[i] - none[i]
    BY <1>1, <1>6, <2>1, <2>2, TotalChanges
  <2>5. QED
    BY <1>2, <1>4, <1>5, <1>7, <1>8, <2>2, <2>3, <2>4 DEF VolumeCountsTheWindow
<1>9. CASE ~over
  <2>1. Counted[i] = 0 /\ \A j \in Intent \ {i} : Counted'[j] = Counted[j]
    BY <1>1, <1>2, <1>3, <1>4, <1>9 DEF Counted
  <2>2. Total(Counted') = Total(Counted) + Counted'[i] - Counted[i] /\ Total(Counted) \in Int
    BY <1>1, <1>6, <2>1, TotalType, TotalChanges
  <2>3. QED
    BY <1>2, <1>4, <1>5, <1>7, <1>9, <2>1, <2>2 DEF VolumeCountsTheWindow
<1>10. QED
  BY <1>8, <1>9

\* No other call touches what is counted.
LEMMA NextVolume ==
    EscrowInv /\ WindowInv /\ VolumeCountsTheWindow /\ [Next]_vars => (WindowInv /\ VolumeCountsTheWindow)'
<1> SUFFICES ASSUME EscrowInv, WindowInv, VolumeCountsTheWindow, [Next]_vars
             PROVE  WindowInv' /\ VolumeCountsTheWindow'
  OBVIOUS
<1>1. TypeOK /\ TypeOK'
  BY NextType DEF EscrowInv
<1>2. CASE Tick \/ Admin \/ UNCHANGED vars \/ \E a \in Account : withdrawTreasury(a)
  <2>1. UNCHANGED <<intents, dailyVolume, lastVolumeReset>>
    BY <1>2 DEF Tick, contractVars, Admin, pause, unpause, setDailyVolumeLimit, setOrchestrator,
                setSolver, withdrawTreasury, volumeVars, vars
  <2>2. now' = now \/ now' = now + 1
    BY <1>2 DEF Tick, Admin, pause, unpause, setDailyVolumeLimit, setOrchestrator, setSolver,
                withdrawTreasury, vars
  <2>3. now' >= now
    BY <1>1, <2>2 DEF TypeOK
  <2>4. QED
    BY <1>1, <2>1, <2>3, VolumeKept
<1>3. ASSUME NEW a \in Account, Submit(a) PROVE WindowInv' /\ VolumeCountsTheWindow'
  <2>1. PICK n \in Amount, e \in Expiry :
          \/ submitIntent(a, Eth, n, e)
          \/ \E token \in Token, arrived \in 0 .. n : submitIntent(a, token, arrived, e)
    BY <1>3 DEF Submit
  <2>2. n \in Nat /\ e \in Nat
    BY NumberAssumption
  <2>3. CASE submitIntent(a, Eth, n, e)
    BY <1>1, <2>2, <2>3, SubmitVolume DEF Asset
  <2>4. ASSUME NEW token \in Token, NEW arrived \in 0 .. n, submitIntent(a, token, arrived, e)
        PROVE  WindowInv' /\ VolumeCountsTheWindow'
    BY <1>1, <2>2, <2>4, SubmitVolume DEF Asset
  <2>5. QED
    BY <2>1, <2>3, <2>4
<1>4. ASSUME NEW a \in Account, NEW i \in Intent,
             \/ postCollateral(a, i, Collateral(intents[i].amount))
             \/ confirmSettlement(a, i) \/ slashSolver(a, i) \/ cancelIntent(a, i) \/ claimRefund(a, i)
      PROVE  WindowInv' /\ VolumeCountsTheWindow'
  <2>1. UNCHANGED <<now, dailyVolume, lastVolumeReset>>
    BY <1>4 DEF postCollateral, confirmSettlement, slashSolver, cancelIntent, claimRefund, volumeVars
  <2>2. \A j \in Intent : intents'[j].amount = intents[j].amount
                          /\ intents'[j].createdAt = intents[j].createdAt
    <3>1. intents \in [Intent -> IntentRecord]
      BY <1>1 DEF TypeOK
    <3>2. QED
      BY <1>4, <3>1 DEF postCollateral, confirmSettlement, slashSolver, cancelIntent, claimRefund,
                        ForfeitToTreasury, Resolve, IntentRecord
  <2>3. now' >= now
    BY <1>1, <2>1 DEF TypeOK
  <2>4. QED
    BY <1>1, <2>1, <2>2, <2>3, VolumeKept
<1>5. QED
  BY <1>2, <1>3, <1>4 DEF Next, Call

\* For any window, limit and sequence of calls, IntentManager.sol's dailyVolume is the sum of
\* the escrows accepted since lastVolumeReset: the check against the limit is never fooled
\* by a reset.
THEOREM VolumeIsExact == Spec => []VolumeCountsTheWindow
<1>1. Init => EscrowInv /\ WindowInv /\ VolumeCountsTheWindow
  BY InitEscrow, InitVolume
<1>2. EscrowInv /\ WindowInv /\ VolumeCountsTheWindow /\ [Next]_vars
        => (EscrowInv /\ WindowInv /\ VolumeCountsTheWindow)'
  BY NextEscrow, NextVolume
<1>3. QED
  BY <1>1, <1>2, PTL DEF Spec
=============================================================================
