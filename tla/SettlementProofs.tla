-------------------------- MODULE SettlementProofs --------------------------
(***************************************************************************)
(* Proofs about the settlement across the two chains, for any number of    *)
(* intents, solvers, pollers, passes, crashes, transactions and payouts,   *)
(* with lagging RPC nodes and an Arbitrum ledger whose writes may fail.    *)
(*                                                                         *)
(* The invariant is SettlementInv, a conjunction of predicates on the      *)
(* records of one intent: its contract record, its ledger entries, what    *)
(* was signed for it, and the tasks that work on it.  The lemmas of the    *)
(* second part are about such records, whoever changes them.               *)
(***************************************************************************)
EXTENDS Settlement, SequenceTheorems, FiniteSetTheorems, TLAPS

Contract == INSTANCE IntentManagerProofs

\* Why the properties are preserved, record by record: e is an entry of the Arbitrum
\* ledger, s one of the settled ledger, k a task's state; rec is the contract's record, tl
\* and sl what was signed for the intent.
LockedStage == {"collateral_posted", "confirming", "confirmed", "awaiting_expiry_slash", "slashing", "slashed"}
ConfirmPc == {"cread", "csign", "cwait"}
LockedPc == ConfirmPc \cup {"verify", "pay", "child", "childWait", "pcheck", "psig", "ssign", "swait"}

HasLanded(sl) == \E n \in DOMAIN sl : sl[n].st = "landed"

\* A confirmation is only signed after the payout landed; a lock is paid for if it is ours.
WireOK(rec, tl, sl) ==
    /\ rec.status # "Pending" \/ rec.solver # NoAccount => rec.owner # NoAccount
    /\ rec.status = "Settled" => HasLanded(sl)
    /\ sl # <<>> => rec.solver \in Solver
    /\ \A n \in DOMAIN tl :
        /\ tl[n].fn = "post" => tl[n].from \in Solver
        /\ tl[n].fn = "confirm" => HasLanded(sl)
        /\ tl[n].st = "success" =>
                CASE tl[n].fn = "post" -> rec.solver = tl[n].from
                  [] tl[n].fn = "confirm" -> rec.status = "Settled"
                  [] OTHER -> rec.status = "Slashed"

EntryOK(e, rec, tl) ==
    /\ {e.collateralTx, e.confirmTx, e.slashTx} \subseteq 0 .. Len(tl)
    /\ e.stage = "confirmed" => rec.status = "Settled"
    /\ e.stage = "slashed" => rec.status = "Slashed"
    /\ e.stage \in LockedStage \ {"confirmed", "slashed"} => rec.solver = e.solver /\ e.solver \in Solver
    /\ e.stage = "posting_collateral" =>
            /\ e.collateralTx # 0
            /\ tl[e.collateralTx].fn = "post" /\ tl[e.collateralTx].from = e.solver

SettledOK(s, sl) ==
    /\ s.status # "none" => s.sig \in DOMAIN sl
    /\ s.status = "settled" => HasLanded(sl)

\* The sequence works on an entry before the lock, everybody else only after it.
TaskOK(t, k, e, s, rec, tl, sl) ==
    /\ k.pc \in {"gate", "post", "postWait", "verify", "pay", "child", "childWait"} => t = Sequencer
    /\ k.pc \in {"gate", "post", "postWait"} => e.stage \notin LockedStage /\ k.solver \in Solver
    /\ k.pc = "postWait" => e.stage = "posting_collateral" /\ e.collateralTx = k.ref
    /\ k.pc \in LockedPc => e.stage \in LockedStage /\ rec.solver = e.solver /\ e.solver \in Solver
    /\ k.pc \in ConfirmPc \cup {"rresume"} => HasLanded(sl)
    /\ k.pc = "cwait" => k.ref \in DOMAIN tl /\ tl[k.ref].fn = "confirm"
    /\ k.pc = "swait" => k.ref \in DOMAIN tl /\ tl[k.ref].fn = "slash"
    /\ k.pc \in {"childWait", "rcheck"} => k.ref \in DOMAIN sl
    /\ k.pc \in {"childWait", "rcheck", "psig"} => s.status # "none"

\* No task runs before its boot pass, and a pass finds the entries it has left as they were.
BootOK ==
    /\ phase \in {"down", "settling", "mid"} => \A t \in Task : At(t, "idle")
    /\ phase = "resume" =>
        /\ \A t \in Task : t = Sequencer \/ At(t, "idle")
        /\ \A i \in bootTodo : arb[i].stage = "collateral_posted"
                              /\ (At(Sequencer, "idle") \/ task[Sequencer].intent # i)
    /\ phase = "settling" => \A i \in bootTodo : settled[i].status # "none"

WireInv == \A i \in Intent : WireOK(intents[i], txs[i], sigs[i])
EntryInv == \A i \in Intent : \A e \in {arb[i], arbDisk[i]} : EntryOK(e, intents[i], txs[i])
SettledInv == \A i \in Intent : \A s \in {settled[i], settledDisk[i]} : SettledOK(s, sigs[i])
TaskInv ==
    \A t \in Task :
        LET i == task[t].intent
        IN  At(t, "idle") \/ TaskOK(t, task[t], arb[i], settled[i], intents[i], txs[i], sigs[i])

SettlementInv == WireInv /\ EntryInv /\ SettledInv /\ TaskInv /\ BootOK

\* While the settled ledger can be written, it has every signature, and there is one at most.
OnceInv ==
    /\ settledDisk = settled
    /\ \A i \in Intent :
        /\ Len(sigs[i]) = settled[i].sig /\ settled[i].sig <= 1
        /\ settled[i].status = "none" <=> settled[i].sig = 0
    /\ At(Sequencer, "child") => settled[task[Sequencer].intent].status = "none"

\* The clock, until the process first crashes: a task is never later than its due time, and
\* what was signed under a look at the clock bears that look's mark.
EarlyPc == {"post", "postWait", "verify", "pay", "child", "childWait"}
LatePc == {"psig", "ssign", "swait"}

ClockOK(t, k) ==
    LET expiry == intents[k.intent].expiry
    IN  /\ intents[k.intent].owner # NoAccount /\ now <= k.due
        /\ k.pc \in EarlyPc => k.due < DeadlineOf(k.intent) + Patience
        /\ t = Sequencer /\ k.pc \in ConfirmPc =>
                k.due < expiry + CONFIRM_RETRY_MAX_SEC_AFTER_EXPIRY + Backoff + Patience
        /\ k.pc \in LatePc => now >= expiry

TasksOnTime == \A t \in Task : At(t, "idle") \/ ClockOK(t, task[t])

ClockInv ==
    /\ now <= MaxTime /\ TasksOnTime
    /\ \A i \in Intent :
        /\ txs[i] # <<>> => intents[i].owner # NoAccount
        /\ \A n \in DOMAIN sigs[i] : sigs[i][n].until < DeadlineOf(i) + Patience + SigValidity
    /\ phase # "up" =>
        /\ At(Sequencer, "idle") /\ (phase # "settling" => bootTodo = {})
        /\ \A i \in Intent : arb[i].stage = "none" /\ arbDisk[i].stage = "none"

\* What is slashed, or about to be, expired unpaid, and no payout of it can land any more.
Unpayable(i) == now >= intents[i].expiry /\ ~Landed(i)

SlashInv ==
    /\ \A t \in Task : task[t].pc \in {"ssign", "swait"} => Unpayable(task[t].intent)
    /\ \A i \in Intent :
        intents[i].status = "Slashed" \/ (\E n \in DOMAIN txs[i] : txs[i][n].fn = "slash") => Unpayable(i)

----------------------------------------------------------------------------
(***************************************************************************)
(* The escrow contract, as it is called here.                              *)
(***************************************************************************)
ChainCall ==
    \/ Chain!Tick
    \/ \E u \in User : Chain!Submit(u)
    \/ \E i \in Intent, a \in Account :
        \/ Chain!postCollateral(a, i, Chain!Collateral(intents[i].amount))
        \/ Chain!confirmSettlement(a, i)
        \/ Chain!slashSolver(a, i)
        \/ Chain!cancelIntent(a, i)
        \/ Chain!claimRefund(a, i)

\* Every transaction of the composition is a call of the contract's own specification.
LEMMA ChainStep == ChainCall \/ UNCHANGED chainVars => [Contract!Next]_(Contract!vars)
<1>1. CASE UNCHANGED chainVars
  BY <1>1 DEF chainVars, Contract!vars, Contract!contractVars, Contract!adminVars, Contract!volumeVars
<1>2. CASE Chain!Tick
  BY <1>2 DEF Chain!Tick, Chain!contractVars, Chain!adminVars, Chain!volumeVars, Contract!Next,
              Contract!Tick, Contract!contractVars, Contract!adminVars, Contract!volumeVars
<1>3. ASSUME NEW a \in Account, Chain!Submit(a) PROVE Contract!Submit(a)
  BY <1>3 DEF Chain!Submit, Chain!submitIntent, Chain!adminVars, Chain!EmptyIntent,
              Contract!Submit, Contract!submitIntent, Contract!adminVars, Contract!EmptyIntent
<1>4. ASSUME NEW a \in Account, NEW i \in Intent,
             Chain!postCollateral(a, i, Chain!Collateral(intents[i].amount))
      PROVE  Contract!postCollateral(a, i, Contract!Collateral(intents[i].amount))
  BY <1>4 DEF Chain!postCollateral, Chain!CanPostCollateral, Chain!Exists, Chain!Collateral,
              Chain!COLLATERAL_RATIO, Chain!adminVars, Chain!volumeVars, Contract!postCollateral,
              Contract!CanPostCollateral, Contract!Exists, Contract!Collateral,
              Contract!COLLATERAL_RATIO, Contract!adminVars, Contract!volumeVars
<1>5. ASSUME NEW a \in Account, NEW i \in Intent, Chain!confirmSettlement(a, i)
      PROVE  Contract!confirmSettlement(a, i)
  BY <1>5 DEF Chain!confirmSettlement, Chain!CanConfirm, Chain!CanReceive, Chain!Resolve,
              Chain!BalanceAfter, Chain!Asset, Chain!adminVars, Chain!volumeVars,
              Contract!confirmSettlement, Contract!CanConfirm, Contract!CanReceive, Contract!Resolve,
              Contract!BalanceAfter, Contract!Asset, Contract!adminVars, Contract!volumeVars
<1>6. ASSUME NEW a \in Account, NEW i \in Intent, Chain!slashSolver(a, i)
      PROVE  Contract!slashSolver(a, i)
  BY <1>6 DEF Chain!slashSolver, Chain!CanSlash, Chain!CanReceive, Chain!Resolve,
              Chain!ForfeitToTreasury, Chain!BalanceAfter, Chain!Asset, Chain!adminVars,
              Chain!volumeVars, Contract!slashSolver, Contract!CanSlash, Contract!CanReceive,
              Contract!Resolve, Contract!ForfeitToTreasury, Contract!BalanceAfter, Contract!Asset,
              Contract!adminVars, Contract!volumeVars
<1>7. ASSUME NEW a \in Account, NEW i \in Intent, Chain!cancelIntent(a, i)
      PROVE  Contract!cancelIntent(a, i)
  BY <1>7 DEF Chain!cancelIntent, Chain!CanReceive, Chain!BalanceAfter, Chain!Asset,
              Chain!adminVars, Chain!volumeVars, Contract!cancelIntent, Contract!CanReceive,
              Contract!BalanceAfter, Contract!Asset, Contract!adminVars, Contract!volumeVars
<1>8. ASSUME NEW a \in Account, NEW i \in Intent, Chain!claimRefund(a, i)
      PROVE  Contract!claimRefund(a, i)
  BY <1>8 DEF Chain!claimRefund, Chain!CanReceive, Chain!Resolve, Chain!ForfeitToTreasury,
              Chain!BalanceAfter, Chain!Asset, Chain!adminVars, Chain!volumeVars,
              Contract!claimRefund, Contract!CanReceive, Contract!Resolve,
              Contract!ForfeitToTreasury, Contract!BalanceAfter, Contract!Asset,
              Contract!adminVars, Contract!volumeVars
<1>9. Intent = Contract!Intent
  BY DEF Intent, Chain!Intent, Contract!Intent
<1>10. QED
  BY <1>1, <1>2, <1>3, <1>4, <1>5, <1>6, <1>7, <1>8, <1>9, SettlementAssumption
     DEF ChainCall, Contract!Next, Contract!Call

LEMMA ContractConstants == Contract!AccountAssumption /\ Contract!NumberAssumption
BY ContractAssumption
   DEF Contract!AccountAssumption, Contract!NumberAssumption, Chain!AccountAssumption,
       Chain!NumberAssumption

\* Its invariant holds here, too.
LEMMA ContractKept ==
    ASSUME Contract!EscrowInv, ChainCall \/ UNCHANGED chainVars
    PROVE  Contract!EscrowInv'
BY ContractConstants, ChainStep, Contract!NextEscrow

LEMMA ContractStarts == Init => Contract!EscrowInv
<1> SUFFICES ASSUME Init PROVE Contract!EscrowInv
  OBVIOUS
<1>1. Contract!InitWith(OrchestratorKey, Solver \cup Rival)
  BY DEF Init, Chain!InitWith, Chain!Intent, Chain!EmptyIntent, Chain!Asset, Chain!NothingPaid,
         Contract!InitWith, Contract!Intent, Contract!EmptyIntent, Contract!Asset, Contract!NothingPaid
<1>2. QED
  BY <1>1, ContractConstants, SettlementAssumption, Contract!InitWithEscrow

LEMMA ContractTypes == Contract!TypeOK <=> Chain!TypeOK
BY DEF Contract!TypeOK, Contract!Intent, Contract!IntentRecord, Contract!PaidRecord, Contract!Asset,
       Contract!IntentStatus, Chain!TypeOK, Chain!Intent, Chain!IntentRecord, Chain!PaidRecord, Chain!Asset,
       Chain!IntentStatus

\* What a call does to the records of the intents.
OnlyRecord(i) == \A j \in Intent : j # i => intents'[j] = intents[j]

Opens(i) ==
    /\ OnlyRecord(i)
    /\ intents[i].owner = NoAccount /\ intents[i].status = "Pending" /\ intents[i].solver = NoAccount
    /\ intents'[i].owner # NoAccount /\ intents'[i].status = "Pending" /\ intents'[i].solver = NoAccount

Locks(i, s) ==
    /\ OnlyRecord(i)
    /\ intents[i].owner # NoAccount /\ intents[i].status = "Pending" /\ intents[i].solver = NoAccount
    /\ intents'[i].owner = intents[i].owner /\ intents'[i].status = "Pending" /\ intents'[i].solver = s
    /\ intents'[i].expiry = intents[i].expiry

Closes(i, status) ==
    /\ OnlyRecord(i)
    /\ intents[i].status = "Pending"
    /\ intents'[i].owner = intents[i].owner /\ intents'[i].status = status
    /\ intents'[i].solver = intents[i].solver /\ intents'[i].expiry = intents[i].expiry

LEMMA RecordTypes ==
    ASSUME Contract!EscrowInv
    PROVE  /\ intents \in [Intent -> Contract!IntentRecord] /\ now \in Nat
           /\ NoAccount \notin Account /\ NoAccount \notin Solver \cup Rival
BY SettlementAssumption, ContractConstants
   DEF Contract!EscrowInv, Contract!TypeOK, Contract!Intent, Intent, Chain!Intent, Contract!AccountAssumption

LEMMA SubmitOpens ==
    ASSUME Contract!EscrowInv, NEW u \in User, Chain!Submit(u)
    PROVE  \E i \in Intent : Opens(i)
<1>1. PICK asset, amount, expiry : Chain!submitIntent(u, asset, amount, expiry)
  BY DEF Chain!Submit
<1>2. intentNonce \in Intent
  BY <1>1, ContractConstants
     DEF Chain!submitIntent, Contract!EscrowInv, Contract!TypeOK, Contract!NumberAssumption, Intent, Chain!Intent
<1>3. intents[intentNonce] = Contract!EmptyIntent
  BY <1>2 DEF Contract!EscrowInv, Contract!TypeOK, Contract!ClosedForGood, Contract!Intent, Intent, Chain!Intent
<1>4. u \in Account
  BY SettlementAssumption
<1>5. Opens(intentNonce)
  BY <1>1, <1>2, <1>3, <1>4, RecordTypes
     DEF Chain!submitIntent, Chain!EmptyIntent, Contract!EmptyIntent, Opens, OnlyRecord
<1>6. QED
  BY <1>2, <1>5

\* Only an intent that is Pending can be locked: a closed one has a solver already or is
\* past its expiry.
LEMMA PostLocks ==
    ASSUME Contract!EscrowInv, NEW i \in Intent, NEW a \in Account, NEW v, Chain!postCollateral(a, i, v)
    PROVE  Locks(i, a)
<1>1. /\ intents[i].solver = NoAccount /\ intents[i].owner # NoAccount /\ now < intents[i].expiry
      /\ intents' = [intents EXCEPT ![i].solver = a, ![i].collateralPosted = v]
  BY DEF Chain!postCollateral, Chain!CanPostCollateral, Chain!Exists
<1>2. intents[i].status = "Pending"
  <2>1. /\ intents[i].status \in Contract!IntentStatus /\ intents[i].expiry \in Nat
    BY RecordTypes DEF Contract!IntentRecord
  <2>2. /\ intents[i].status \in {"Settled", "Slashed", "Refunded"} => intents[i].solver # NoAccount
        /\ intents[i].status = "Expired" => now >= intents[i].expiry
    BY DEF Contract!EscrowInv, Contract!ClosedForGood, Contract!Intent, Intent, Chain!Intent
  <2>3. QED
    BY <1>1, <2>1, <2>2, RecordTypes DEF Contract!IntentStatus
<1>3. QED
  BY <1>1, <1>2, RecordTypes DEF Locks, OnlyRecord, Contract!IntentRecord

LEMMA ConfirmCloses ==
    ASSUME Contract!EscrowInv, NEW i \in Intent, NEW a, Chain!confirmSettlement(a, i)
    PROVE  Closes(i, "Settled") /\ intents[i].solver # NoAccount
BY RecordTypes DEF Chain!confirmSettlement, Chain!CanConfirm, Chain!Resolve, Closes, OnlyRecord, Contract!IntentRecord

LEMMA SlashCloses ==
    ASSUME Contract!EscrowInv, NEW i \in Intent, NEW a, Chain!slashSolver(a, i)
    PROVE  Closes(i, "Slashed") /\ intents[i].solver # NoAccount /\ now >= intents[i].expiry
BY RecordTypes DEF Chain!slashSolver, Chain!CanSlash, Chain!ForfeitToTreasury, Chain!Resolve, Closes, OnlyRecord,
                   Contract!IntentRecord

LEMMA CancelCloses ==
    ASSUME Contract!EscrowInv, NEW i \in Intent, NEW a \in Account, Chain!cancelIntent(a, i)
    PROVE  Closes(i, "Expired") /\ intents[i].owner # NoAccount
BY RecordTypes DEF Chain!cancelIntent, Closes, OnlyRecord, Contract!IntentRecord

LEMMA RefundCloses ==
    ASSUME Contract!EscrowInv, NEW i \in Intent, NEW a \in Account, Chain!claimRefund(a, i)
    PROVE  Closes(i, "Refunded") /\ intents[i].owner # NoAccount
BY RecordTypes DEF Chain!claimRefund, Chain!ForfeitToTreasury, Chain!Resolve, Closes, OnlyRecord,
                   Contract!IntentRecord

----------------------------------------------------------------------------
(***************************************************************************)
(* The records of one intent, and what may happen to them without harm.    *)
(***************************************************************************)
RecGrows(r, r2) ==
    /\ r.owner # NoAccount => r2.owner = r.owner
    /\ r.solver # NoAccount => r2.solver = r.solver
    /\ r.status # "Pending" => r2.status = r.status

TxsGrow(tl, tl2) ==
    /\ Len(tl) <= Len(tl2)
    /\ \A n \in DOMAIN tl : /\ tl2[n].fn = tl[n].fn /\ tl2[n].from = tl[n].from
                            /\ tl[n].st = "success" => tl2[n].st = "success"

SigsGrow(sl, sl2) ==
    /\ Len(sl) <= Len(sl2)
    /\ \A n \in DOMAIN sl : sl[n].st = "landed" => sl2[n].st = "landed"

\* Once locked, an entry stays locked by the same solver.
EntryMoves(e, e2) == e.stage \in LockedStage => e2.stage \in LockedStage /\ e2.solver = e.solver

Txs == Seq(Transaction)
Sigs == Seq(Signature)

LEMMA Indices ==
    /\ \A tl \in Txs : Len(tl) \in Nat /\ DOMAIN tl = 1 .. Len(tl)
    /\ \A sl \in Sigs : Len(sl) \in Nat /\ DOMAIN sl = 1 .. Len(sl)
BY LenProperties DEF Txs, Sigs

LEMMA LandedStays ==
    ASSUME NEW sl \in Sigs, NEW sl2 \in Sigs, SigsGrow(sl, sl2), HasLanded(sl)
    PROVE  HasLanded(sl2)
BY Indices DEF SigsGrow, HasLanded

LEMMA EntryStays ==
    ASSUME NEW e \in Entry, NEW r, NEW r2, NEW tl \in Txs, NEW tl2 \in Txs,
           RecGrows(r, r2), TxsGrow(tl, tl2), NoAccount \notin Solver, EntryOK(e, r, tl)
    PROVE  EntryOK(e, r2, tl2)
<1>1. /\ Len(tl) \in Nat /\ Len(tl2) \in Nat /\ Len(tl) <= Len(tl2)
      /\ DOMAIN tl = 1 .. Len(tl)
  BY Indices DEF TxsGrow
<1>2. {e.collateralTx, e.confirmTx, e.slashTx} \subseteq 0 .. Len(tl2)
  BY <1>1 DEF EntryOK
<1>3. e.stage = "posting_collateral" => e.collateralTx \in DOMAIN tl
  BY <1>1 DEF EntryOK
<1>4. QED
  BY <1>2, <1>3 DEF EntryOK, RecGrows, TxsGrow

LEMMA SettledStays ==
    ASSUME NEW s \in SettledEntry, NEW sl \in Sigs, NEW sl2 \in Sigs, SigsGrow(sl, sl2), SettledOK(s, sl)
    PROVE  SettledOK(s, sl2)
<1>1. HasLanded(sl) => HasLanded(sl2)
  BY LandedStays
<1>2. DOMAIN sl \subseteq DOMAIN sl2
  BY Indices DEF SigsGrow
<1>3. QED
  BY <1>1, <1>2 DEF SettledOK

LEMMA TaskStays ==
    ASSUME NEW t, NEW k, NEW e, NEW e2, NEW s, NEW s2, NEW r, NEW r2,
           NEW tl \in Txs, NEW tl2 \in Txs, NEW sl \in Sigs, NEW sl2 \in Sigs,
           RecGrows(r, r2), TxsGrow(tl, tl2), SigsGrow(sl, sl2), EntryMoves(e, e2),
           e2 = e \/ e.stage \in LockedStage \/ t # Sequencer,
           s.status # "none" => s2.status # "none",
           NoAccount \notin Solver, TaskOK(t, k, e, s, r, tl, sl)
    PROVE  TaskOK(t, k, e2, s2, r2, tl2, sl2)
<1>1. HasLanded(sl) => HasLanded(sl2)
  BY LandedStays
<1>2. DOMAIN sl \subseteq DOMAIN sl2 /\ DOMAIN tl \subseteq DOMAIN tl2
  BY Indices DEF SigsGrow, TxsGrow
<1>3. k.pc \in {"gate", "post", "postWait"} => e2 = e
  BY DEF TaskOK
<1>4. k.pc \in LockedPc => e2.stage \in LockedStage /\ r2.solver = e2.solver /\ e2.solver \in Solver
  BY DEF TaskOK, EntryMoves, RecGrows
<1>5. /\ k.pc = "cwait" => k.ref \in DOMAIN tl2 /\ tl2[k.ref].fn = "confirm"
      /\ k.pc = "swait" => k.ref \in DOMAIN tl2 /\ tl2[k.ref].fn = "slash"
  BY <1>2 DEF TaskOK, TxsGrow
<1>6. QED
  BY <1>1, <1>2, <1>3, <1>4, <1>5 DEF TaskOK

\* A transaction that is new on record, or newly mined, says what is so.
TxOK(tx, r, sl) ==
    /\ tx.fn = "post" => tx.from \in Solver
    /\ tx.fn = "confirm" => HasLanded(sl)
    /\ tx.st = "success" =>
            CASE tx.fn = "post" -> r.solver = tx.from
              [] tx.fn = "confirm" -> r.status = "Settled"
              [] OTHER -> r.status = "Slashed"

LEMMA WireStays ==
    ASSUME NEW r, NEW r2, NEW tl \in Txs, NEW tl2 \in Txs, NEW sl \in Sigs, NEW sl2 \in Sigs,
           RecGrows(r, r2), SigsGrow(sl, sl2), NoAccount \notin Solver, WireOK(r, tl, sl),
           r2.status # "Pending" \/ r2.solver # NoAccount => r2.owner # NoAccount,
           r2.status = "Settled" => r.status = "Settled" \/ HasLanded(sl),
           sl2 # <<>> => sl # <<>> \/ r2.solver \in Solver,
           \A n \in DOMAIN tl2 : (n \in DOMAIN tl /\ tl2[n] = tl[n]) \/ TxOK(tl2[n], r2, sl2)
    PROVE  WireOK(r2, tl2, sl2)
<1>1. HasLanded(sl) => HasLanded(sl2)
  BY LandedStays
<1>2. r2.status = "Settled" => HasLanded(sl2)
  BY <1>1 DEF WireOK
<1>3. sl2 # <<>> => r2.solver \in Solver
  BY DEF WireOK, RecGrows
<1>4. ASSUME NEW n \in DOMAIN tl2 PROVE TxOK(tl2[n], r2, sl2)
  <2>1. CASE n \in DOMAIN tl /\ tl2[n] = tl[n]
    <3>1. tl[n].from \in Solver \/ tl[n].fn # "post"
      BY <2>1 DEF WireOK
    <3>2. tl[n].st = "success" =>
            CASE tl[n].fn = "post" -> r2.solver = tl[n].from
              [] tl[n].fn = "confirm" -> r2.status = "Settled"
              [] OTHER -> r2.status = "Slashed"
      BY <2>1, <3>1 DEF WireOK, RecGrows
    <3>3. QED
      BY <1>1, <2>1, <3>1, <3>2 DEF WireOK, TxOK
  <2>2. QED
    BY <1>4, <2>1
<1>5. QED
  BY <1>2, <1>3, <1>4 DEF WireOK, TxOK

----------------------------------------------------------------------------
(***************************************************************************)
(* A task's step.  Works says what task t makes of the records of intent   *)
(* i: k its own state, e and s the ledgers' entries, tl and sl what was    *)
(* signed; the contract does not move.                                     *)
(***************************************************************************)
Works(t, i, k, e, s, tl, sl) ==
    /\ UNCHANGED <<chainVars, bootVars>>
    /\ task' = [task EXCEPT ![t] = k]
    /\ arb' = [arb EXCEPT ![i] = e] /\ arbDisk' \in {arbDisk, arb'}
    /\ settled' = [settled EXCEPT ![i] = s]
    /\ settledDisk' \in {settledDisk, [settledDisk EXCEPT ![i] = s]}
    /\ txs' = [txs EXCEPT ![i] = tl] /\ sigs' = [sigs EXCEPT ![i] = sl]

\* On what terms it may: as the sequence of an entry that is not locked, or on a locked one.
Sound(t, i, k, e, s, tl, sl) ==
    /\ k \in TaskRecord /\ (k.pc = "idle" \/ k.intent = i)
    /\ e \in Entry /\ s \in SettledEntry /\ tl \in Txs /\ sl \in Sigs
    /\ phase = "up" \/ (phase = "resume" /\ ~At(t, "idle"))
    /\ At(t, "idle") \/ task[t].intent = i
    /\ TxsGrow(txs[i], tl) /\ SigsGrow(sigs[i], sl)
    /\ EntryMoves(arb[i], e)
    /\ e = arb[i] \/ arb[i].stage \in LockedStage \/ t = Sequencer
    /\ settled[i].status # "none" => s.status # "none"
    /\ WireOK(intents[i], tl, sl) /\ EntryOK(e, intents[i], tl) /\ SettledOK(s, sl)
    /\ k.pc = "idle" \/ TaskOK(t, k, e, s, intents[i], tl, sl)

Inv == Contract!EscrowInv /\ TypeOK /\ SettlementInv

LEMMA ChainFrame == UNCHANGED chainVars /\ Contract!EscrowInv /\ Chain!TypeOK => Contract!EscrowInv' /\ Chain!TypeOK'
<1> SUFFICES ASSUME UNCHANGED chainVars, Contract!EscrowInv, Chain!TypeOK
             PROVE  Contract!EscrowInv' /\ Chain!TypeOK'
  OBVIOUS
<1>1. Contract!EscrowInv'
  BY ContractKept
<1>2. Chain!TypeOK'
  BY DEF chainVars, Chain!TypeOK
<1>3. QED
  BY <1>1, <1>2

LEMMA Unchanging ==
    /\ \A r : RecGrows(r, r)
    /\ \A tl \in Txs : TxsGrow(tl, tl)
    /\ \A sl \in Sigs : SigsGrow(sl, sl)
    /\ \A e : EntryMoves(e, e)
BY Indices DEF RecGrows, TxsGrow, SigsGrow, EntryMoves

LEMMA Work ==
    ASSUME Inv, NEW t \in Task, NEW i \in Intent, NEW k, NEW e, NEW s, NEW tl, NEW sl,
           Works(t, i, k, e, s, tl, sl), Sound(t, i, k, e, s, tl, sl)
    PROVE  Inv'
<1>0. NoAccount \notin Solver
  BY RecordTypes DEF Inv
<1>1. /\ txs \in [Intent -> Txs] /\ sigs \in [Intent -> Sigs]
      /\ arb \in [Intent -> Entry] /\ arbDisk \in [Intent -> Entry]
      /\ settled \in [Intent -> SettledEntry] /\ settledDisk \in [Intent -> SettledEntry]
      /\ task \in [Task -> TaskRecord]
  BY DEF Inv, TypeOK, Txs, Sigs
<1>2. /\ UNCHANGED <<intents, phase, bootTodo, crashes>> /\ UNCHANGED chainVars
      /\ \A j \in Intent : /\ arb'[j] = (IF j = i THEN e ELSE arb[j])
                           /\ arbDisk'[j] \in {arbDisk[j], arb'[j]}
                           /\ settled'[j] = (IF j = i THEN s ELSE settled[j])
                           /\ settledDisk'[j] \in {settledDisk[j], settled'[j]}
                           /\ txs'[j] = (IF j = i THEN tl ELSE txs[j])
                           /\ sigs'[j] = (IF j = i THEN sl ELSE sigs[j])
      /\ \A u \in Task : task'[u] = IF u = t THEN k ELSE task[u]
  BY <1>1 DEF Works, chainVars, bootVars
<1>3. Contract!EscrowInv' /\ Chain!TypeOK'
  BY <1>2, ChainFrame DEF Inv, TypeOK
<1>4. TypeOK'
  <2>1. /\ txs' \in [Intent -> Txs] /\ sigs' \in [Intent -> Sigs]
        /\ arb' \in [Intent -> Entry] /\ arbDisk' \in [Intent -> Entry]
        /\ settled' \in [Intent -> SettledEntry] /\ settledDisk' \in [Intent -> SettledEntry]
        /\ task' \in [Task -> TaskRecord]
    BY <1>1 DEF Works, Sound
  <2>2. \A u \in Task : At(u, "idle")' \/ task'[u].intent \in Intent
    BY <1>2 DEF Inv, TypeOK, At, Sound
  <2>3. QED
    BY <1>2, <1>3, <2>1, <2>2 DEF Inv, TypeOK, Txs, Sigs
<1>5. \A j \in Intent : /\ TxsGrow(txs[j], txs'[j]) /\ SigsGrow(sigs[j], sigs'[j])
                        /\ txs'[j] \in Txs /\ sigs'[j] \in Sigs /\ RecGrows(intents[j], intents[j])
  BY <1>1, <1>2, Unchanging DEF Sound
<1>6. WireInv'
  <2>1. \A j \in Intent : WireOK(intents[j], txs'[j], sigs'[j])
    BY <1>2 DEF Inv, SettlementInv, WireInv, Sound
  <2>2. QED
    BY <1>2, <2>1 DEF WireInv
<1>7. EntryInv'
  <2>1. ASSUME NEW j \in Intent PROVE EntryOK(arb'[j], intents[j], txs'[j])
    BY <1>0, <1>1, <1>2, <1>5, EntryStays DEF Inv, SettlementInv, EntryInv, Sound
  <2>2. ASSUME NEW j \in Intent PROVE EntryOK(arbDisk[j], intents[j], txs'[j])
    BY <1>0, <1>1, <1>2, <1>5, EntryStays DEF Inv, SettlementInv, EntryInv
  <2>3. \A j \in Intent : EntryOK(arbDisk'[j], intents[j], txs'[j])
    BY <1>2, <2>1, <2>2
  <2>4. QED
    BY <1>2, <2>1, <2>3 DEF EntryInv
<1>8. SettledInv'
  <2>1. ASSUME NEW j \in Intent PROVE SettledOK(settled'[j], sigs'[j])
    BY <1>1, <1>2, <1>5, SettledStays DEF Inv, SettlementInv, SettledInv, Sound
  <2>2. ASSUME NEW j \in Intent PROVE SettledOK(settledDisk[j], sigs'[j])
    BY <1>1, <1>2, <1>5, SettledStays DEF Inv, SettlementInv, SettledInv
  <2>3. \A j \in Intent : SettledOK(settledDisk'[j], sigs'[j])
    BY <1>2, <2>1, <2>2
  <2>4. QED
    BY <2>1, <2>3 DEF SettledInv
<1>9. TaskInv'
  <2> SUFFICES ASSUME NEW u \in Task, task'[u].pc # "idle", NEW j, j = task'[u].intent
               PROVE  TaskOK(u, task'[u], arb'[j], settled'[j], intents[j], txs'[j], sigs'[j])
    BY <1>2 DEF TaskInv, At
  <2>1. CASE u = t
    BY <1>2, <2>1 DEF Sound
  <2>2. CASE u # t
    <3>1. task'[u] = task[u] /\ j \in Intent
      BY <1>2, <2>2 DEF Inv, TypeOK, At
    <3>2. TaskOK(u, task[u], arb[j], settled[j], intents[j], txs[j], sigs[j])
      BY <3>1 DEF Inv, SettlementInv, TaskInv, At
    <3>3. /\ EntryMoves(arb[j], arb'[j])
          /\ arb'[j] = arb[j] \/ arb[j].stage \in LockedStage \/ u # Sequencer
          /\ settled[j].status # "none" => settled'[j].status # "none"
      BY <1>2, <2>2, <3>1, Unchanging DEF Sound
    <3>4. QED
      BY <1>0, <1>1, <1>5, <3>1, <3>2, <3>3, TaskStays
  <2>3. QED
    BY <2>1, <2>2
<1>10. BootOK'
  <2>1. CASE phase = "up"
    BY <1>2, <2>1 DEF BootOK
  <2>2. CASE phase = "resume" /\ ~At(t, "idle")
    <3>1. t = Sequencer /\ task[t].intent = i /\ i \notin bootTodo
      BY <2>2 DEF Inv, SettlementInv, BootOK, Sound
    <3>2. \A u \in Task : u = Sequencer \/ task'[u].pc = "idle"
      BY <1>2, <2>2, <3>1 DEF Inv, SettlementInv, BootOK, At
    <3>3. \A j \in bootTodo : arb'[j].stage = "collateral_posted"
      BY <1>2, <2>2, <3>1 DEF Inv, TypeOK, SettlementInv, BootOK
    <3>4. \A j \in bootTodo : task'[Sequencer].pc = "idle" \/ task'[Sequencer].intent # j
      BY <1>2, <3>1 DEF Sound
    <3>5. QED
      BY <1>2, <2>2, <3>2, <3>3, <3>4 DEF BootOK, At
  <2>3. QED
    BY <2>1, <2>2 DEF Sound
<1>11. QED
  BY <1>3, <1>4, <1>6, <1>7, <1>8, <1>9, <1>10 DEF Inv, SettlementInv

\* What is known of a task that runs.
LEMMA Running ==
    ASSUME Inv, NEW t \in Task, ~At(t, "idle"), NEW i, i = task[t].intent
    PROVE  /\ i \in Intent /\ phase \in {"up", "resume"}
           /\ task \in [Task -> TaskRecord] /\ task[t] \in TaskRecord
           /\ TaskOK(t, task[t], arb[i], settled[i], intents[i], txs[i], sigs[i])
           /\ WireOK(intents[i], txs[i], sigs[i])
           /\ EntryOK(arb[i], intents[i], txs[i]) /\ SettledOK(settled[i], sigs[i])
           /\ arb[i] \in Entry /\ settled[i] \in SettledEntry
           /\ txs[i] \in Txs /\ sigs[i] \in Sigs
<1>1. i \in Intent /\ task \in [Task -> TaskRecord]
  BY DEF Inv, TypeOK
<1>2. phase \in {"up", "resume"}
  BY DEF Inv, TypeOK, SettlementInv, BootOK
<1>3. TaskOK(t, task[t], arb[i], settled[i], intents[i], txs[i], sigs[i])
  BY DEF Inv, SettlementInv, TaskInv
<1>4. WireOK(intents[i], txs[i], sigs[i]) /\ EntryOK(arb[i], intents[i], txs[i]) /\ SettledOK(settled[i], sigs[i])
  BY <1>1 DEF Inv, SettlementInv, WireInv, EntryInv, SettledInv
<1>5. QED
  BY <1>1, <1>2, <1>3, <1>4 DEF Inv, TypeOK, Txs, Sigs

\* The ways a task's own state changes.
LEMMA Finishing ==
    ASSUME NEW t \in Task, Finish(t)
    PROVE  task' = [task EXCEPT ![t] = Idle] /\ Idle \in TaskRecord /\ Idle.pc = "idle"
BY DEF Finish, Idle, TaskRecord, Pc

LEMMA Going ==
    ASSUME Inv, NEW t \in Task, ~At(t, "idle"), NEW pc \in Pc, NEW d \in Nat,
           Goto(t, pc) \/ GotoAfterClock(t, pc, d)
    PROVE  \E k \in TaskRecord :
                /\ task' = [task EXCEPT ![t] = k]
                /\ k.pc = pc /\ k.intent = task[t].intent /\ k.solver = task[t].solver /\ k.ref = task[t].ref
<1>1. task \in [Task -> TaskRecord] /\ now \in Nat /\ MaxTime \in Nat /\ Patience \in Nat
  BY RecordTypes, ContractConstants, SettlementAssumption DEF Inv, TypeOK, Contract!NumberAssumption
<1>2. DueIn(d) \in Nat
  BY <1>1 DEF DueIn
<1>3. CASE Goto(t, pc)
  <2> DEFINE k == [task[t] EXCEPT !.pc = pc]
  <2>1. k \in TaskRecord /\ k.pc = pc /\ k.intent = task[t].intent /\ k.solver = task[t].solver
        /\ k.ref = task[t].ref
    BY <1>1 DEF TaskRecord
  <2>2. task' = [task EXCEPT ![t] = k]
    BY <1>1, <1>3 DEF Goto
  <2>3. QED
    BY <2>1, <2>2
<1>4. CASE GotoAfterClock(t, pc, d)
  <2> DEFINE k == [task[t] EXCEPT !.pc = pc, !.due = DueIn(d)]
  <2>1. k \in TaskRecord /\ k.pc = pc /\ k.intent = task[t].intent /\ k.solver = task[t].solver
        /\ k.ref = task[t].ref
    BY <1>1, <1>2 DEF TaskRecord
  <2>2. task' = [task EXCEPT ![t] = k]
    BY <1>1, <1>4 DEF GotoAfterClock
  <2>3. QED
    BY <2>1, <2>2
<1>5. QED
  BY <1>3, <1>4

LEMMA Beginning ==
    ASSUME Inv, NEW t \in Task, NEW pc \in Pc, NEW i \in Intent, NEW s \in Solver \cup {NoAccount},
           NEW ref \in Nat, Begin(t, pc, i, s, ref)
    PROVE  \E k \in TaskRecord :
                /\ task' = [task EXCEPT ![t] = k] /\ At(t, "idle")
                /\ k.pc = pc /\ k.intent = i /\ k.solver = s /\ k.ref = ref
<1>1. now \in Nat /\ MaxTime \in Nat /\ Patience \in Nat /\ i \in Nat
  BY RecordTypes, ContractConstants, SettlementAssumption
     DEF Inv, Contract!NumberAssumption, Intent, Chain!Intent
<1>2. DueIn(0) \in Nat
  BY <1>1 DEF DueIn
<1> DEFINE k == [pc |-> pc, intent |-> i, solver |-> s, ref |-> ref, due |-> DueIn(0)]
<1>3. k \in TaskRecord
  BY <1>1, <1>2 DEF TaskRecord
<1>4. QED
  BY <1>3 DEF Begin

\* A step that changes nothing but the task.
LEMMA WorkTask ==
    ASSUME Inv, NEW t \in Task, NEW i \in Intent, NEW k \in TaskRecord,
           UNCHANGED <<chainVars, ledgerVars, bootVars, wireVars>>,
           task' = [task EXCEPT ![t] = k], k.pc = "idle" \/ k.intent = i,
           phase = "up" \/ (phase = "resume" /\ ~At(t, "idle")),
           At(t, "idle") \/ task[t].intent = i,
           k.pc = "idle" \/ TaskOK(t, k, arb[i], settled[i], intents[i], txs[i], sigs[i])
    PROVE  Inv'
<1>1. /\ txs \in [Intent -> Txs] /\ sigs \in [Intent -> Sigs]
      /\ arb \in [Intent -> Entry] /\ settled \in [Intent -> SettledEntry]
  BY DEF Inv, TypeOK, Txs, Sigs
<1>2. Works(t, i, k, arb[i], settled[i], txs[i], sigs[i])
  BY <1>1 DEF Works, chainVars, ledgerVars, arbVars, bootVars, wireVars
<1>3. WireOK(intents[i], txs[i], sigs[i]) /\ EntryOK(arb[i], intents[i], txs[i]) /\ SettledOK(settled[i], sigs[i])
  BY DEF Inv, SettlementInv, WireInv, EntryInv, SettledInv
<1>4. Sound(t, i, k, arb[i], settled[i], txs[i], sigs[i])
  BY <1>1, <1>3, Unchanging DEF Sound
<1>5. QED
  BY <1>2, <1>4, Work

\* A step that writes the intent's entry in the Arbitrum ledger, or fails to.
LEMMA WorkEntry ==
    ASSUME Inv, NEW t \in Task, NEW i \in Intent, NEW k \in TaskRecord, NEW e \in Entry,
           ~At(t, "idle"), task[t].intent = i,
           UNCHANGED <<chainVars, settled, settledDisk, bootVars, wireVars>>,
           setArbitrumStage(i, e) \/ setArbitrumStageThrows(i, e),
           task' = [task EXCEPT ![t] = k], k.pc = "idle" \/ k.intent = i,
           EntryMoves(arb[i], e), arb[i].stage \in LockedStage \/ t = Sequencer,
           EntryOK(e, intents[i], txs[i]),
           k.pc = "idle" \/ TaskOK(t, k, e, settled[i], intents[i], txs[i], sigs[i])
    PROVE  Inv'
<1>1. /\ txs \in [Intent -> Txs] /\ sigs \in [Intent -> Sigs] /\ settled \in [Intent -> SettledEntry]
  BY DEF Inv, TypeOK, Txs, Sigs
<1>2. Works(t, i, k, e, settled[i], txs[i], sigs[i])
  BY <1>1 DEF Works, setArbitrumStage, setArbitrumStageThrows, chainVars, bootVars, wireVars
<1>3. WireOK(intents[i], txs[i], sigs[i]) /\ SettledOK(settled[i], sigs[i]) /\ phase \in {"up", "resume"}
  BY Running
<1>4. Sound(t, i, k, e, settled[i], txs[i], sigs[i])
  BY <1>1, <1>3, Unchanging DEF Sound
<1>5. QED
  BY <1>2, <1>4, Work

\* A step that signs a transaction and writes its hash to the entry, or fails to.
LEMMA WorkSign ==
    ASSUME Inv, NEW t \in Task, NEW i \in Intent, NEW k \in TaskRecord, NEW e \in Entry, NEW tx \in Transaction,
           ~At(t, "idle"), task[t].intent = i,
           UNCHANGED <<chainVars, settled, settledDisk, bootVars, sigs>>,
           txs' = [txs EXCEPT ![i] = Append(@, tx)], tx.st = "signed", TxOK(tx, intents[i], sigs[i]),
           setArbitrumStage(i, e) \/ setArbitrumStageThrows(i, e),
           task' = [task EXCEPT ![t] = k], k.pc = "idle" \/ k.intent = i,
           EntryMoves(arb[i], e), arb[i].stage \in LockedStage \/ t = Sequencer,
           EntryOK(e, intents[i], Append(txs[i], tx)),
           k.pc = "idle" \/ TaskOK(t, k, e, settled[i], intents[i], Append(txs[i], tx), sigs[i])
    PROVE  Inv'
<1>1. /\ txs \in [Intent -> Txs] /\ sigs \in [Intent -> Sigs] /\ settled \in [Intent -> SettledEntry]
      /\ NoAccount \notin Solver
  BY RecordTypes DEF Inv, TypeOK, Txs, Sigs
<1> DEFINE tl == Append(txs[i], tx)
<1>2. /\ tl \in Txs /\ Len(tl) = Len(txs[i]) + 1
      /\ \A n \in DOMAIN txs[i] : tl[n] = txs[i][n]
      /\ \A n \in DOMAIN tl : n \in DOMAIN txs[i] \/ tl[n] = tx
  BY <1>1, AppendProperties, Indices DEF Txs
<1>3. WireOK(intents[i], txs[i], sigs[i]) /\ SettledOK(settled[i], sigs[i]) /\ phase \in {"up", "resume"}
  BY Running
<1>4. Works(t, i, k, e, settled[i], tl, sigs[i])
  BY <1>1 DEF Works, setArbitrumStage, setArbitrumStageThrows, chainVars, bootVars
<1> HIDE DEF tl
<1>5. TxsGrow(txs[i], tl)
  BY <1>1, <1>2, Indices DEF TxsGrow
<1>6. WireOK(intents[i], tl, sigs[i])
  <2>1. /\ intents[i].status # "Pending" \/ intents[i].solver # NoAccount => intents[i].owner # NoAccount
        /\ sigs[i] # <<>> => intents[i].solver \in Solver
        /\ sigs[i] \in Sigs /\ txs[i] \in Txs
    BY <1>1, <1>3 DEF WireOK
  <2>2. \A n \in DOMAIN tl : (n \in DOMAIN txs[i] /\ tl[n] = txs[i][n]) \/ TxOK(tl[n], intents[i], sigs[i])
    BY <1>2
  <2>3. QED
    BY <1>1, <1>2, <1>3, <2>1, <2>2, Unchanging, WireStays, ZenonT(60)
<1>7. Sound(t, i, k, e, settled[i], tl, sigs[i])
  BY <1>1, <1>2, <1>3, <1>5, <1>6, Unchanging DEF Sound, tl
<1>8. QED
  BY <1>4, <1>7, Work

\* A step that writes the settled ledger.
LEMMA WorkSettled ==
    ASSUME Inv, NEW t \in Task, NEW i \in Intent, NEW k \in TaskRecord, NEW s \in SettledEntry,
           ~At(t, "idle"), task[t].intent = i,
           UNCHANGED <<chainVars, arbVars, bootVars, wireVars>>,
           persistSettled(i, s), SettledOK(s, sigs[i]), s.status # "none",
           task' = [task EXCEPT ![t] = k], k.pc = "idle" \/ k.intent = i,
           k.pc = "idle" \/ TaskOK(t, k, arb[i], s, intents[i], txs[i], sigs[i])
    PROVE  Inv'
<1>1. /\ txs \in [Intent -> Txs] /\ sigs \in [Intent -> Sigs] /\ arb \in [Intent -> Entry]
  BY DEF Inv, TypeOK, Txs, Sigs
<1>2. Works(t, i, k, arb[i], s, txs[i], sigs[i])
  BY <1>1 DEF Works, persistSettled, chainVars, arbVars, bootVars, wireVars
<1>3. /\ WireOK(intents[i], txs[i], sigs[i]) /\ EntryOK(arb[i], intents[i], txs[i])
      /\ phase \in {"up", "resume"}
  BY Running
<1>4. Sound(t, i, k, arb[i], s, txs[i], sigs[i])
  BY <1>1, <1>3, Unchanging DEF Sound
<1>5. QED
  BY <1>2, <1>4, Work

----------------------------------------------------------------------------
(***************************************************************************)
(* The tasks' actions.                                                     *)
(***************************************************************************)
Idling == UNCHANGED <<chainVars, ledgerVars, bootVars, wireVars>>

LEMMA Ends ==
    ASSUME Inv, NEW t \in Task, ~At(t, "idle"), Idling, Finish(t)
    PROVE  Inv'
<1>1. task[t].intent \in Intent /\ phase \in {"up", "resume"}
  BY Running
<1>2. QED
  BY <1>1, Finishing, WorkTask DEF Idling

LEMMA Goes ==
    ASSUME Inv, NEW t \in Task, ~At(t, "idle"), Idling, NEW pc \in Pc, NEW d \in Nat,
           Goto(t, pc) \/ GotoAfterClock(t, pc, d), NEW i, i = task[t].intent,
           \A k \in TaskRecord : k.pc = pc /\ k.ref = task[t].ref /\ k.solver = task[t].solver
                => TaskOK(t, k, arb[i], settled[i], intents[i], txs[i], sigs[i])
    PROVE  Inv'
<1>1. i \in Intent /\ phase \in {"up", "resume"}
  BY Running
<1>2. PICK k \in TaskRecord :
        /\ task' = [task EXCEPT ![t] = k]
        /\ k.pc = pc /\ k.intent = task[t].intent /\ k.solver = task[t].solver /\ k.ref = task[t].ref
  BY Going
<1>3. TaskOK(t, k, arb[i], settled[i], intents[i], txs[i], sigs[i])
  BY <1>2
<1>4. QED
  BY <1>1, <1>2, <1>3, WorkTask DEF Idling

LEMMA Starts ==
    ASSUME Inv, NEW t \in Task, Idling, phase = "up", NEW pc \in Pc, NEW i \in Intent,
           NEW s \in Solver \cup {NoAccount}, NEW ref \in Nat, Begin(t, pc, i, s, ref),
           \A k \in TaskRecord : k.pc = pc /\ k.ref = ref /\ k.solver = s
                => TaskOK(t, k, arb[i], settled[i], intents[i], txs[i], sigs[i])
    PROVE  Inv'
<1>1. PICK k \in TaskRecord :
        /\ task' = [task EXCEPT ![t] = k] /\ At(t, "idle")
        /\ k.pc = pc /\ k.intent = i /\ k.solver = s /\ k.ref = ref
  BY Beginning
<1>2. TaskOK(t, k, arb[i], settled[i], intents[i], txs[i], sigs[i])
  BY <1>1
<1>3. QED
  BY <1>1, <1>2, WorkTask DEF Idling

LEMMA DispatchKeeps ==
    ASSUME Inv, NEW i \in Intent, Dispatch(i)
    PROVE  Inv'
<1>1. PICK s \in Solver : Begin(Sequencer, "gate", i, s, 0)
  BY DEF Dispatch
<1>2. \A k \in TaskRecord : k.pc = "gate" /\ k.ref = 0 /\ k.solver = s
        => TaskOK(Sequencer, k, arb[i], settled[i], intents[i], txs[i], sigs[i])
  BY DEF Dispatch, TaskOK, LockedStage, LockedPc, ConfirmPc
<1>3. Idling /\ phase = "up" /\ Sequencer \in Task /\ "gate" \in Pc /\ 0 \in Nat
  BY DEF Dispatch, Idling, Task, Pc
<1>4. QED
  BY <1>1, <1>2, <1>3, Starts

LEMMA PollStartKeeps ==
    ASSUME Inv, NEW w \in Poller, NEW i \in Intent, PollStart(w, i)
    PROVE  Inv'
<1>1. EntryOK(arb[i], intents[i], txs[i]) /\ arb[i].stage = "awaiting_expiry_slash"
  BY DEF PollStart, Inv, SettlementInv, EntryInv
<1>2. \A k \in TaskRecord : k.pc = "pcheck" /\ k.ref = 0 /\ k.solver = NoAccount
        => TaskOK(w, k, arb[i], settled[i], intents[i], txs[i], sigs[i])
  BY <1>1 DEF EntryOK, TaskOK, LockedStage, LockedPc, ConfirmPc
<1>3. Idling /\ phase = "up" /\ w \in Task /\ "pcheck" \in Pc /\ 0 \in Nat
  BY DEF PollStart, Idling, Task, Pc
<1>4. QED
  BY <1>2, <1>3, Starts DEF PollStart

LEMMA ReconcileStartKeeps ==
    ASSUME Inv, NEW w \in Reconciler, NEW i \in Intent, ReconcileStart(w, i)
    PROVE  Inv'
<1>1. SettledOK(settled[i], sigs[i]) /\ settled[i].status = "settling" /\ settled[i].sig \in Nat
  BY DEF ReconcileStart, Inv, TypeOK, SettledEntry, SettlementInv, SettledInv
<1>2. \A k \in TaskRecord : k.pc = "rcheck" /\ k.ref = settled[i].sig /\ k.solver = NoAccount
        => TaskOK(w, k, arb[i], settled[i], intents[i], txs[i], sigs[i])
  BY <1>1 DEF SettledOK, TaskOK, LockedStage, LockedPc, ConfirmPc
<1>3. Idling /\ phase = "up" /\ w \in Task /\ "rcheck" \in Pc
  BY DEF ReconcileStart, Idling, Task, Pc
<1>4. QED
  BY <1>1, <1>2, <1>3, Starts DEF ReconcileStart

\* The tasks' steps that only look.
LEMMA VerifyKeeps ==
    ASSUME Inv, Verify
    PROVE  Inv'
<1> DEFINE i == task[Sequencer].intent
<1>1. Sequencer \in Task /\ ~At(Sequencer, "idle") /\ task[Sequencer].pc = "verify" /\ Idling
  BY DEF Verify, At, Task, Idling
<1>2. TaskOK(Sequencer, task[Sequencer], arb[i], settled[i], intents[i], txs[i], sigs[i])
  BY <1>1, Running
<1>3. \A k \in TaskRecord : k.pc = "pay"
        => TaskOK(Sequencer, k, arb[i], settled[i], intents[i], txs[i], sigs[i])
  BY <1>1, <1>2 DEF TaskOK, LockedPc, ConfirmPc
<1>4. Goto(Sequencer, "pay") \/ Finish(Sequencer)
  BY DEF Verify
<1>5. "pay" \in Pc /\ 0 \in Nat
  BY DEF Pc
<1> HIDE DEF i
<1>6. QED
  BY <1>1, <1>3, <1>4, <1>5, Ends, Goes DEF i

LEMMA PollCheckKeeps ==
    ASSUME Inv, NEW w \in Poller, PollCheck(w)
    PROVE  Inv'
<1> DEFINE i == task[w].intent
<1>1. w \in Task /\ ~At(w, "idle") /\ task[w].pc = "pcheck" /\ Idling
  BY DEF PollCheck, At, Task, Idling
<1>2. /\ TaskOK(w, task[w], arb[i], settled[i], intents[i], txs[i], sigs[i])
      /\ SettledOK(settled[i], sigs[i]) /\ settled[i] \in SettledEntry
  BY <1>1, Running
<1>3. \A k \in TaskRecord : k.pc = "ssign" \/ (k.pc = "cread" /\ settled[i].status = "settled")
                            \/ (k.pc = "psig" /\ settled[i].status # "none")
        => TaskOK(w, k, arb[i], settled[i], intents[i], txs[i], sigs[i])
  BY <1>1, <1>2 DEF TaskOK, SettledOK, LockedPc, ConfirmPc
<1>4. \/ Finish(w)
      \/ GotoAfterClock(w, "ssign", 0)
      \/ GotoAfterClock(w, "cread", 0) /\ settled[i].status = "settled"
      \/ GotoAfterClock(w, "psig", 0) /\ settled[i].status # "none"
  BY DEF PollCheck
<1>5. {"ssign", "cread", "psig"} \subseteq Pc /\ 0 \in Nat
  BY DEF Pc
<1> HIDE DEF i
<1>6. CASE Finish(w)
  BY <1>1, <1>6, Ends
<1>7. ASSUME NEW pc \in {"ssign", "cread", "psig"}, GotoAfterClock(w, pc, 0),
             pc = "cread" => settled[i].status = "settled", pc = "psig" => settled[i].status # "none"
      PROVE  Inv'
  <2>1. \A k \in TaskRecord : k.pc = pc /\ k.ref = task[w].ref /\ k.solver = task[w].solver
          => TaskOK(w, k, arb[i], settled[i], intents[i], txs[i], sigs[i])
    BY <1>3, <1>7
  <2>2. QED
    BY <1>1, <1>5, <1>7, <2>1, Goes DEF i
<1>8. QED
  BY <1>4, <1>6, <1>7

LEMMA ConfirmFailsKeeps ==
    ASSUME Inv, NEW t \in Task, ConfirmFails(t)
    PROVE  Inv'
<1> DEFINE i == task[t].intent
<1>1. ~At(t, "idle") /\ task[t].pc \in {"csign", "cwait"} /\ Idling
  BY DEF ConfirmFails, At, Idling
<1>2. TaskOK(t, task[t], arb[i], settled[i], intents[i], txs[i], sigs[i])
  BY <1>1, Running
<1>3. \A k \in TaskRecord : k.pc = "cread" => TaskOK(t, k, arb[i], settled[i], intents[i], txs[i], sigs[i])
  BY <1>1, <1>2 DEF TaskOK, LockedPc, ConfirmPc
<1>4. Finish(t) \/ GotoAfterClock(t, "cread", Backoff)
  BY DEF ConfirmFails, RetryOrEnd
<1>5. "cread" \in Pc /\ Backoff \in Nat
  BY SettlementAssumption DEF Pc
<1> HIDE DEF i
<1>6. QED
  BY <1>1, <1>3, <1>4, <1>5, Ends, Goes DEF i

LEMMA ReconcileResumeKeeps ==
    ASSUME Inv, NEW w \in Reconciler, ReconcileResume(w)
    PROVE  Inv'
<1> DEFINE i == task[w].intent
<1>1. w \in Task /\ ~At(w, "idle") /\ task[w].pc = "rresume" /\ Idling
  BY DEF ReconcileResume, At, Task, Idling
<1>2. /\ TaskOK(w, task[w], arb[i], settled[i], intents[i], txs[i], sigs[i])
      /\ EntryOK(arb[i], intents[i], txs[i])
  BY <1>1, Running
<1>3. arb[i].stage = "collateral_posted" => \A k \in TaskRecord :
        k.pc = "cread" => TaskOK(w, k, arb[i], settled[i], intents[i], txs[i], sigs[i])
  BY <1>1, <1>2 DEF TaskOK, EntryOK, LockedStage, LockedPc, ConfirmPc
<1>4. Finish(w) \/ (GotoAfterClock(w, "cread", 0) /\ arb[i].stage = "collateral_posted")
  BY DEF ReconcileResume
<1>5. "cread" \in Pc /\ 0 \in Nat
  BY DEF Pc
<1> HIDE DEF i
<1>6. QED
  BY <1>1, <1>3, <1>4, <1>5, Ends, Goes DEF i

LEMMA EndingsKeep ==
    ASSUME Inv, NEW t \in Task, SlashFails(t) \/ TaskAborts(t)
    PROVE  Inv'
<1>1. ~At(t, "idle") /\ Idling /\ Finish(t)
  BY DEF SlashFails, TaskAborts, At, Idling
<1>2. QED
  BY <1>1, Ends

\* The tasks' steps that write the Arbitrum ledger.
Writing == UNCHANGED <<chainVars, settled, settledDisk, bootVars, wireVars>>

LEMMA WritesAndEnds ==
    ASSUME Inv, NEW t \in Task, ~At(t, "idle"), NEW i, i = task[t].intent, Writing,
           NEW e \in Entry, setArbitrumStage(i, e) \/ setArbitrumStageThrows(i, e), Finish(t),
           EntryMoves(arb[i], e), arb[i].stage \in LockedStage \/ t = Sequencer,
           EntryOK(e, intents[i], txs[i])
    PROVE  Inv'
<1>1. i \in Intent
  BY Running
<1>2. QED
  BY <1>1, Finishing, WorkEntry DEF Writing

LEMMA WritesAndGoes ==
    ASSUME Inv, NEW t \in Task, ~At(t, "idle"), NEW i, i = task[t].intent, Writing,
           NEW e \in Entry, setArbitrumStage(i, e), NEW pc \in Pc, Goto(t, pc),
           EntryMoves(arb[i], e), arb[i].stage \in LockedStage \/ t = Sequencer,
           EntryOK(e, intents[i], txs[i]),
           \A k \in TaskRecord : k.pc = pc => TaskOK(t, k, e, settled[i], intents[i], txs[i], sigs[i])
    PROVE  Inv'
<1>1. i \in Intent
  BY Running
<1>2. PICK k \in TaskRecord :
        /\ task' = [task EXCEPT ![t] = k]
        /\ k.pc = pc /\ k.intent = task[t].intent /\ k.solver = task[t].solver /\ k.ref = task[t].ref
  BY Going
<1>3. TaskOK(t, k, e, settled[i], intents[i], txs[i], sigs[i])
  BY <1>2
<1>4. QED
  BY <1>1, <1>2, <1>3, WorkEntry DEF Writing

\* The sequence, before the lock.
LEMMA SequencerRunning ==
    ASSUME Inv, task[Sequencer].pc \in {"gate", "post", "postWait"}, NEW i, i = task[Sequencer].intent
    PROVE  /\ Sequencer \in Task /\ ~At(Sequencer, "idle") /\ i \in Intent
           /\ task[Sequencer].solver \in Solver /\ arb[i].stage \notin LockedStage
           /\ EntryOK(arb[i], intents[i], txs[i]) /\ arb[i] \in Entry
           /\ WireOK(intents[i], txs[i], sigs[i]) /\ txs[i] \in Txs
           /\ task[Sequencer].pc = "postWait" => /\ arb[i].stage = "posting_collateral"
                                                 /\ arb[i].collateralTx = task[Sequencer].ref
                                                 /\ task[Sequencer].ref \in DOMAIN txs[i]
<1>1. Sequencer \in Task /\ ~At(Sequencer, "idle")
  BY DEF Task, At
<1>2. /\ TaskOK(Sequencer, task[Sequencer], arb[i], settled[i], intents[i], txs[i], sigs[i])
      /\ EntryOK(arb[i], intents[i], txs[i]) /\ WireOK(intents[i], txs[i], sigs[i])
      /\ arb[i] \in Entry /\ i \in Intent /\ txs[i] \in Txs
  BY <1>1, Running
<1>3. task[Sequencer].pc = "postWait" => /\ arb[i].stage = "posting_collateral"
                                         /\ arb[i].collateralTx = task[Sequencer].ref
                                         /\ task[Sequencer].ref \in DOMAIN txs[i]
  BY <1>2, Indices DEF TaskOK, EntryOK
<1>4. QED
  BY <1>1, <1>2, <1>3 DEF TaskOK

LEMMA GateKeeps ==
    ASSUME Inv, Gate
    PROVE  Inv'
<1> DEFINE i == task[Sequencer].intent
           e == [arb[i] EXCEPT !.stage = "collateral_failed"]
<1>1. task[Sequencer].pc = "gate"
  BY DEF Gate, At
<1>2. /\ Sequencer \in Task /\ ~At(Sequencer, "idle") /\ i \in Intent
      /\ task[Sequencer].solver \in Solver /\ arb[i].stage \notin LockedStage
      /\ EntryOK(arb[i], intents[i], txs[i]) /\ arb[i] \in Entry
  BY <1>1, SequencerRunning
<1>3. CASE setArbitrumStageAndEnd(Sequencer, i, e)
  <2>1. e \in Entry /\ EntryOK(e, intents[i], txs[i]) /\ EntryMoves(arb[i], e)
    BY <1>2 DEF Entry, ArbitrumStage, EntryOK, EntryMoves, LockedStage
  <2>2. Writing
    BY DEF Gate, Writing
  <2>3. QED
    BY <1>2, <1>3, <2>1, <2>2, WritesAndEnds DEF setArbitrumStageAndEnd
<1>4. CASE GotoAfterClock(Sequencer, "post", 0) /\ UNCHANGED arbVars
  <2>1. Idling
    BY <1>4 DEF Gate, Idling, ledgerVars
  <2>2. \A k \in TaskRecord : k.pc = "post" /\ k.ref = task[Sequencer].ref /\ k.solver = task[Sequencer].solver
          => TaskOK(Sequencer, k, arb[i], settled[i], intents[i], txs[i], sigs[i])
    BY <1>2 DEF TaskOK, LockedPc, ConfirmPc
  <2>3. "post" \in Pc /\ 0 \in Nat
    BY DEF Pc
  <2> HIDE DEF i
  <2>4. QED
    BY <1>2, <1>4, <2>1, <2>2, <2>3, Goes DEF i
<1>5. QED
  BY <1>3, <1>4 DEF Gate

LEMMA PostEndsKeep ==
    ASSUME Inv, PostUnrecorded \/ PostFails
    PROVE  Inv'
<1> DEFINE i == task[Sequencer].intent
<1>1. task[Sequencer].pc \in {"post", "postWait"}
  BY DEF PostUnrecorded, PostFails, At
<1>2. /\ Sequencer \in Task /\ ~At(Sequencer, "idle") /\ i \in Intent
      /\ task[Sequencer].solver \in Solver /\ arb[i].stage \notin LockedStage
      /\ EntryOK(arb[i], intents[i], txs[i]) /\ arb[i] \in Entry /\ txs[i] \in Txs
      /\ task[Sequencer].pc = "postWait" => task[Sequencer].ref \in DOMAIN txs[i]
  BY <1>1, SequencerRunning
<1>3. Writing
  BY DEF PostUnrecorded, PostFails, Writing
<1>4. PICK s \in Solver \cup {NoAccount}, hash \in 0 .. Len(txs[i]) :
        setArbitrumStageAndEnd(Sequencer, i,
            [arb[i] EXCEPT !.stage = "collateral_failed", !.solver = s, !.collateralTx = hash])
  <2>1. CASE PostUnrecorded
    <3>1. 0 \in 0 .. Len(txs[i])
      BY <1>2, Indices
    <3>2. QED
      BY <1>2, <2>1, <3>1 DEF PostUnrecorded
  <2>2. CASE PostFails
    <3>1. PICK hash \in {0, task[Sequencer].ref} :
            /\ \/ hash = 0 /\ task[Sequencer].pc \in {"post", "postWait"}
               \/ At(Sequencer, "postWait") /\ Receipt(Sequencer) = "reverted"
            /\ setArbitrumStageAndEnd(Sequencer, i,
                    [arb[i] EXCEPT !.stage = "collateral_failed", !.collateralTx = hash])
      BY <2>2 DEF PostFails
    <3>2. hash \in 0 .. Len(txs[i])
      BY <1>2, <3>1, Indices DEF At
    <3>3. [arb[i] EXCEPT !.stage = "collateral_failed", !.collateralTx = hash]
            = [arb[i] EXCEPT !.stage = "collateral_failed", !.solver = arb[i].solver, !.collateralTx = hash]
      BY <1>2 DEF Entry
    <3>4. arb[i].solver \in Solver \cup {NoAccount}
      BY <1>2 DEF Entry
    <3>5. QED
      BY <3>1, <3>2, <3>3, <3>4
  <2>3. QED
    BY <2>1, <2>2
<1> DEFINE e == [arb[i] EXCEPT !.stage = "collateral_failed", !.solver = s, !.collateralTx = hash]
<1>5. hash \in Nat
  BY <1>2, Indices
<1>6. e \in Entry /\ EntryOK(e, intents[i], txs[i]) /\ EntryMoves(arb[i], e)
  BY <1>2, <1>5 DEF Entry, ArbitrumStage, EntryOK, EntryMoves, LockedStage
<1>7. QED
  BY <1>2, <1>3, <1>4, <1>6, WritesAndEnds DEF setArbitrumStageAndEnd

LEMMA PostSucceedsKeeps ==
    ASSUME Inv, PostSucceeds
    PROVE  Inv'
<1> DEFINE i == task[Sequencer].intent
           n == task[Sequencer].ref
           e == [arb[i] EXCEPT !.stage = "collateral_posted", !.collateralTx = n]
<1>1. task[Sequencer].pc = "postWait" /\ txs[i][n].st = "success" /\ Writing
  BY DEF PostSucceeds, At, Receipt, Writing
<1>2. /\ Sequencer \in Task /\ ~At(Sequencer, "idle") /\ i \in Intent
      /\ arb[i].stage = "posting_collateral" /\ arb[i].collateralTx = n /\ n \in DOMAIN txs[i]
      /\ EntryOK(arb[i], intents[i], txs[i]) /\ arb[i] \in Entry
      /\ WireOK(intents[i], txs[i], sigs[i]) /\ txs[i] \in Txs
  BY <1>1, SequencerRunning
<1>3. txs[i][n].fn = "post" /\ txs[i][n].from = arb[i].solver /\ n \in Nat
  BY <1>2, Indices DEF EntryOK
<1>4. intents[i].solver = arb[i].solver /\ arb[i].solver \in Solver
  BY <1>1, <1>2, <1>3 DEF WireOK
<1>5. e \in Entry /\ e.stage = "collateral_posted" /\ e.solver = arb[i].solver
  BY <1>2, <1>3 DEF Entry, ArbitrumStage
<1>6. EntryOK(e, intents[i], txs[i]) /\ EntryMoves(arb[i], e)
  BY <1>2, <1>4 DEF Entry, EntryOK, EntryMoves, LockedStage
<1>7. \A k \in TaskRecord : k.pc = "verify"
        => TaskOK(Sequencer, k, e, settled[i], intents[i], txs[i], sigs[i])
  BY <1>4, <1>5 DEF TaskOK, LockedStage, LockedPc, ConfirmPc
<1>8. \/ setArbitrumStage(i, e) /\ Goto(Sequencer, "verify")
      \/ setArbitrumStageThrows(i, e) /\ Finish(Sequencer)
  BY DEF PostSucceeds
<1>9. "verify" \in Pc
  BY DEF Pc
<1> HIDE DEF e, i
<1>10. QED
  BY <1>1, <1>2, <1>5, <1>6, <1>7, <1>8, <1>9, WritesAndEnds, WritesAndGoes DEF i

\* After the lock: the sequence, a poller or a reconciler.
LEMMA LockedRunning ==
    ASSUME Inv, NEW t \in Task, task[t].pc \in LockedPc, NEW i, i = task[t].intent
    PROVE  /\ ~At(t, "idle") /\ i \in Intent
           /\ arb[i].stage \in LockedStage /\ intents[i].solver = arb[i].solver /\ arb[i].solver \in Solver
           /\ TaskOK(t, task[t], arb[i], settled[i], intents[i], txs[i], sigs[i])
           /\ EntryOK(arb[i], intents[i], txs[i]) /\ arb[i] \in Entry
           /\ WireOK(intents[i], txs[i], sigs[i]) /\ SettledOK(settled[i], sigs[i])
           /\ settled[i] \in SettledEntry /\ txs[i] \in Txs /\ sigs[i] \in Sigs
<1>1. ~At(t, "idle")
  BY DEF At, LockedPc, ConfirmPc
<1>2. TaskOK(t, task[t], arb[i], settled[i], intents[i], txs[i], sigs[i])
  BY <1>1, Running
<1>3. arb[i].stage \in LockedStage /\ intents[i].solver = arb[i].solver /\ arb[i].solver \in Solver
  BY <1>2 DEF TaskOK
<1>4. QED
  BY <1>1, <1>2, <1>3, Running

LEMMA PayKeeps ==
    ASSUME Inv, Pay
    PROVE  Inv'
<1> DEFINE i == task[Sequencer].intent
           e == [arb[i] EXCEPT !.stage = "awaiting_expiry_slash"]
<1>1. task[Sequencer].pc = "pay" /\ Sequencer \in Task
  BY DEF Pay, At, Task
<1>2. /\ ~At(Sequencer, "idle") /\ i \in Intent
      /\ arb[i].stage \in LockedStage /\ intents[i].solver = arb[i].solver /\ arb[i].solver \in Solver
      /\ EntryOK(arb[i], intents[i], txs[i]) /\ arb[i] \in Entry
      /\ SettledOK(settled[i], sigs[i])
  BY <1>1, LockedRunning DEF LockedPc
<1>3. \A k \in TaskRecord : k.pc \in {"pay", "child"} \/ (k.pc = "cread" /\ settled[i].status = "settled")
        => TaskOK(Sequencer, k, arb[i], settled[i], intents[i], txs[i], sigs[i])
  BY <1>2 DEF TaskOK, SettledOK, LockedPc, ConfirmPc
<1>4. CASE setArbitrumStageAndEnd(Sequencer, i, e)
  <2>1. e \in Entry
    BY <1>2 DEF Entry, ArbitrumStage
  <2>2. EntryOK(e, intents[i], txs[i]) /\ EntryMoves(arb[i], e)
    BY <1>2 DEF Entry, EntryOK, EntryMoves, LockedStage
  <2>3. Writing
    BY DEF Pay, Writing
  <2>4. QED
    BY <1>1, <1>2, <1>4, <2>1, <2>2, <2>3, WritesAndEnds DEF setArbitrumStageAndEnd
<1> HIDE DEF i
<1>5. ASSUME UNCHANGED arbVars, NEW pc \in {"pay", "child", "cread"}, pc = "cread" => settled[i].status = "settled",
             Goto(Sequencer, pc) \/ GotoAfterClock(Sequencer, pc, 0)
      PROVE  Inv'
  <2>1. Idling /\ pc \in Pc /\ 0 \in Nat
    BY <1>5 DEF Pay, Idling, ledgerVars, Pc
  <2>2. \A k \in TaskRecord : k.pc = pc /\ k.ref = task[Sequencer].ref /\ k.solver = task[Sequencer].solver
          => TaskOK(Sequencer, k, arb[i], settled[i], intents[i], txs[i], sigs[i])
    BY <1>3, <1>5
  <2>3. QED
    BY <1>1, <1>2, <1>5, <2>1, <2>2, Goes DEF i
<1>6. \/ setArbitrumStageAndEnd(Sequencer, i, e)
      \/ UNCHANGED arbVars /\ GotoAfterClock(Sequencer, "pay", 0)
      \/ UNCHANGED arbVars /\ Goto(Sequencer, "child")
      \/ UNCHANGED arbVars /\ settled[i].status = "settled" /\ Goto(Sequencer, "cread")
  BY DEF Pay, PayoutFailed, i
<1>7. QED
  BY <1>4, <1>5, <1>6

LEMMA ReadIntentTells ==
    ASSUME NEW i, NEW r \in ReadIntent(i), r.status # "Pending"
    PROVE  r.status = intents[i].status
BY DEF ReadIntent

LEMMA ConfirmReadKeeps ==
    ASSUME Inv, NEW t \in Task, ConfirmRead(t)
    PROVE  Inv'
<1> DEFINE i == task[t].intent
           e == [arb[i] EXCEPT !.stage = "confirmed"]
<1>1. task[t].pc = "cread"
  BY DEF ConfirmRead, At
<1>2. /\ ~At(t, "idle") /\ i \in Intent
      /\ arb[i].stage \in LockedStage /\ intents[i].solver = arb[i].solver /\ arb[i].solver \in Solver
      /\ TaskOK(t, task[t], arb[i], settled[i], intents[i], txs[i], sigs[i])
      /\ EntryOK(arb[i], intents[i], txs[i]) /\ arb[i] \in Entry
  BY <1>1, LockedRunning DEF LockedPc, ConfirmPc
<1>3. ASSUME intents[i].status = "Settled", setArbitrumStageAndEnd(t, i, e)
      PROVE  Inv'
  <2>1. e \in Entry
    BY <1>2 DEF Entry, ArbitrumStage
  <2>2. EntryOK(e, intents[i], txs[i]) /\ EntryMoves(arb[i], e)
    BY <1>2, <1>3 DEF Entry, EntryOK, EntryMoves, LockedStage
  <2>3. Writing
    BY DEF ConfirmRead, Writing
  <2>4. QED
    BY <1>2, <1>3, <2>1, <2>2, <2>3, WritesAndEnds DEF setArbitrumStageAndEnd
<1>4. ASSUME UNCHANGED arbVars, Finish(t) \/ Goto(t, "csign") PROVE Inv'
  <2>1. Idling /\ "csign" \in Pc /\ 0 \in Nat
    BY <1>4 DEF ConfirmRead, Idling, ledgerVars, Pc
  <2>2. \A k \in TaskRecord : k.pc = "csign" /\ k.ref = task[t].ref /\ k.solver = task[t].solver
          => TaskOK(t, k, arb[i], settled[i], intents[i], txs[i], sigs[i])
    BY <1>1, <1>2 DEF TaskOK, LockedPc, ConfirmPc
  <2> HIDE DEF i
  <2>3. QED
    BY <1>2, <1>4, <2>1, <2>2, Ends, Goes DEF i
<1>5. \E r \in ReadIntent(i) :
        \/ r.status = "Settled" /\ setArbitrumStageAndEnd(t, i, e)
        \/ UNCHANGED arbVars /\ (Finish(t) \/ Goto(t, "csign"))
  BY DEF ConfirmRead
<1>6. QED
  BY <1>3, <1>4, <1>5, ReadIntentTells

LEMMA ReceiptKeeps ==
    ASSUME Inv, NEW t \in Task, ConfirmSucceeds(t) \/ SlashSucceeds(t)
    PROVE  Inv'
<1> DEFINE i == task[t].intent
           n == task[t].ref
<1>1. task[t].pc \in {"cwait", "swait"} /\ txs[i][n].st = "success" /\ Writing
  BY DEF ConfirmSucceeds, SlashSucceeds, At, Receipt, Writing
<1>2. /\ ~At(t, "idle") /\ i \in Intent
      /\ arb[i].stage \in LockedStage /\ intents[i].solver = arb[i].solver /\ arb[i].solver \in Solver
      /\ TaskOK(t, task[t], arb[i], settled[i], intents[i], txs[i], sigs[i])
      /\ EntryOK(arb[i], intents[i], txs[i]) /\ arb[i] \in Entry
      /\ WireOK(intents[i], txs[i], sigs[i]) /\ txs[i] \in Txs
  BY <1>1, LockedRunning DEF LockedPc, ConfirmPc
<1>3. /\ n \in DOMAIN txs[i] /\ n \in 0 .. Len(txs[i]) /\ n \in Nat
      /\ task[t].pc = "cwait" => intents[i].status = "Settled"
      /\ task[t].pc = "swait" => intents[i].status = "Slashed"
  BY <1>1, <1>2, Indices DEF TaskOK, WireOK
<1>4. CASE ConfirmSucceeds(t)
  <2> DEFINE e == [arb[i] EXCEPT !.stage = "confirmed", !.confirmTx = n]
  <2>1. e \in Entry /\ e.stage = "confirmed" /\ intents[i].status = "Settled" /\ setArbitrumStageAndEnd(t, i, e)
    BY <1>2, <1>3, <1>4 DEF Entry, ArbitrumStage, ConfirmSucceeds, At
  <2>2. EntryOK(e, intents[i], txs[i]) /\ EntryMoves(arb[i], e)
    BY <1>2, <1>3, <2>1 DEF Entry, EntryOK, EntryMoves, LockedStage
  <2>3. QED
    BY <1>1, <1>2, <2>1, <2>2, WritesAndEnds DEF setArbitrumStageAndEnd
<1>5. CASE SlashSucceeds(t)
  <2> DEFINE e == [arb[i] EXCEPT !.stage = "slashed", !.slashTx = n]
  <2>1. e \in Entry /\ e.stage = "slashed" /\ intents[i].status = "Slashed" /\ setArbitrumStageAndEnd(t, i, e)
    BY <1>2, <1>3, <1>5 DEF Entry, ArbitrumStage, SlashSucceeds, At
  <2>2. EntryOK(e, intents[i], txs[i]) /\ EntryMoves(arb[i], e)
    BY <1>2, <1>3, <2>1 DEF Entry, EntryOK, EntryMoves, LockedStage
  <2>3. QED
    BY <1>1, <1>2, <2>1, <2>2, WritesAndEnds DEF setArbitrumStageAndEnd
<1>6. QED
  BY <1>4, <1>5

\* The tasks' steps that sign a transaction.
Signing == UNCHANGED <<chainVars, settled, settledDisk, bootVars, sigs>>

LEMMA Appended ==
    ASSUME NEW tl \in Txs, NEW tx \in Transaction
    PROVE  /\ Len(Append(tl, tx)) = Len(tl) + 1 /\ Len(tl) + 1 \in DOMAIN Append(tl, tx)
           /\ Append(tl, tx)[Len(tl) + 1] = tx
           /\ \A n \in 1 .. Len(tl) : Append(tl, tx)[n] = tl[n]
BY AppendProperties, LenProperties DEF Txs

LEMMA PostSignKeeps ==
    ASSUME Inv, PostSign
    PROVE  Inv'
<1> DEFINE i == task[Sequencer].intent
           n == Len(txs[i]) + 1
           s == task[Sequencer].solver
           tx == [fn |-> "post", from |-> s, st |-> "signed"]
           e == [arb[i] EXCEPT !.stage = "posting_collateral", !.solver = s, !.collateralTx = n]
           k == [task[Sequencer] EXCEPT !.pc = "postWait", !.ref = n]
<1>1. task[Sequencer].pc = "post" /\ Signing
  BY DEF PostSign, At, Signing
<1>2. /\ Sequencer \in Task /\ ~At(Sequencer, "idle") /\ i \in Intent
      /\ s \in Solver /\ arb[i].stage \notin LockedStage
      /\ EntryOK(arb[i], intents[i], txs[i]) /\ arb[i] \in Entry /\ txs[i] \in Txs
  BY <1>1, SequencerRunning
<1>3. tx \in Transaction /\ n \in Nat /\ Len(txs[i]) \in Nat
  BY <1>2, Indices DEF Transaction, TxState
<1>4. e \in Entry /\ EntryMoves(arb[i], e)
  BY <1>2, <1>3 DEF Entry, ArbitrumStage, EntryMoves
<1>5. EntryOK(e, intents[i], Append(txs[i], tx))
  <2>1. /\ e.stage = "posting_collateral" /\ e.collateralTx = n /\ e.solver = s
        /\ e.confirmTx = arb[i].confirmTx /\ e.slashTx = arb[i].slashTx
    BY <1>2 DEF Entry
  <2>2. Len(Append(txs[i], tx)) = n /\ Append(txs[i], tx)[n] = tx
    BY <1>2, <1>3, Appended
  <2>3. {e.collateralTx, e.confirmTx, e.slashTx} \subseteq 0 .. n
    BY <1>2, <1>3, <2>1 DEF EntryOK
  <2> HIDE DEF e, n
  <2>4. QED
    BY <1>3, <2>1, <2>2, <2>3 DEF EntryOK, LockedStage
<1>6. k \in TaskRecord /\ k.pc = "postWait" /\ k.ref = n /\ k.intent = i /\ k.solver = s
  BY <1>2, <1>3, Running DEF TaskRecord, Pc
<1>7. TaskOK(Sequencer, k, e, settled[i], intents[i], Append(txs[i], tx), sigs[i])
  BY <1>2, <1>6 DEF TaskOK, LockedStage, LockedPc, ConfirmPc, Entry
<1>8. /\ txs' = [txs EXCEPT ![i] = Append(@, tx)] /\ task' = [task EXCEPT ![Sequencer] = k]
      /\ setArbitrumStage(i, e)
  <2>1. task \in [Task -> TaskRecord]
    BY <1>2, Running
  <2>2. QED
    BY <1>2, <2>1 DEF PostSign, Sign, TaskRecord
<1>9. tx.st = "signed" /\ TxOK(tx, intents[i], sigs[i])
  BY <1>2 DEF TxOK
<1> HIDE DEF e, k, tx, i
<1>10. task[Sequencer].intent = i
  BY DEF i
<1>11. QED
  BY <1>1, <1>2, <1>3, <1>4, <1>5, <1>6, <1>7, <1>8, <1>9, <1>10, WorkSign DEF Signing

\* A confirmation or a slash, recorded or not: what follows is the wait, a retry or the end.
LEMMA SignsLocked ==
    ASSUME Inv, NEW t \in Task, NEW fn \in {"confirm", "slash"},
           task[t].pc = (IF fn = "confirm" THEN "csign" ELSE "ssign"), Signing,
           NEW i, i = task[t].intent, NEW tx, tx = [fn |-> fn, from |-> OrchestratorKey, st |-> "signed"],
           txs' = [txs EXCEPT ![i] = Append(@, tx)], NEW e \in Entry,
           setArbitrumStage(i, e) \/ setArbitrumStageThrows(i, e),
           e.stage \in {"confirming", "slashing"}, e.solver = arb[i].solver,
           {e.collateralTx, e.confirmTx, e.slashTx} \subseteq
                {arb[i].collateralTx, arb[i].confirmTx, arb[i].slashTx, Len(txs[i]) + 1},
           NEW k \in TaskRecord, task' = [task EXCEPT ![t] = k],
           \/ k.pc = "idle"
           \/ k.pc = "cread" /\ fn = "confirm" /\ k.intent = i
           \/ /\ k.pc = (IF fn = "confirm" THEN "cwait" ELSE "swait")
              /\ k.intent = i /\ k.ref = Len(txs[i]) + 1
    PROVE  Inv'
<1> DEFINE n == Len(txs[i]) + 1
           tl == Append(txs[i], tx)
<1>1. /\ ~At(t, "idle") /\ i \in Intent
      /\ arb[i].stage \in LockedStage /\ intents[i].solver = arb[i].solver /\ arb[i].solver \in Solver
      /\ TaskOK(t, task[t], arb[i], settled[i], intents[i], txs[i], sigs[i])
      /\ EntryOK(arb[i], intents[i], txs[i]) /\ arb[i] \in Entry /\ txs[i] \in Txs
  BY LockedRunning DEF LockedPc, ConfirmPc
<1>2. tx \in Transaction /\ n \in Nat /\ Len(txs[i]) \in Nat
  BY <1>1, Indices DEF Transaction, TxState
<1>3. Len(tl) = n /\ n \in DOMAIN tl /\ tl[n] = tx
  BY <1>1, <1>2, Appended
<1>4. EntryMoves(arb[i], e)
  BY <1>1 DEF EntryMoves, LockedStage
<1>5. EntryOK(e, intents[i], tl)
  <2>0. \A m \in {arb[i].collateralTx, arb[i].confirmTx, arb[i].slashTx} : m \in 0 .. n
    BY <1>1, <1>2, SMTT(40) DEF EntryOK
  <2>1. {e.collateralTx, e.confirmTx, e.slashTx} \subseteq 0 .. n
    <3>1. n \in 0 .. n
      BY <1>2
    <3> HIDE DEF n
    <3>2. QED
      BY <2>0, <3>1 DEF n
  <2>2. Len(tl) = n /\ intents[i].solver = e.solver /\ e.solver \in Solver
    BY <1>1, <1>3
  <2> HIDE DEF tl, n
  <2>3. QED
    BY <2>1, <2>2 DEF EntryOK, LockedStage
<1>6. fn = "confirm" => HasLanded(sigs[i])
  BY <1>1 DEF TaskOK, ConfirmPc
<1>7. tx.st = "signed" /\ TxOK(tx, intents[i], sigs[i])
  BY <1>6 DEF TxOK
<1> HIDE DEF tl, n
<1>8. k.pc = "idle" \/ TaskOK(t, k, e, settled[i], intents[i], tl, sigs[i])
  BY <1>1, <1>3, <1>6 DEF TaskOK, LockedStage, LockedPc, ConfirmPc, n
<1>9. QED
  BY <1>1, <1>2, <1>4, <1>5, <1>7, <1>8, WorkSign DEF Signing, tl

LEMMA ConfirmSignKeeps ==
    ASSUME Inv, NEW t \in Task, ConfirmSign(t) \/ ConfirmUnrecorded(t)
    PROVE  Inv'
<1> DEFINE i == task[t].intent
           n == Len(txs[i]) + 1
           tx == [fn |-> "confirm", from |-> OrchestratorKey, st |-> "signed"]
           e == [arb[i] EXCEPT !.stage = "confirming", !.confirmTx = n]
<1>1. task[t].pc = "csign" /\ Signing
  BY DEF ConfirmSign, ConfirmUnrecorded, At, Signing
<1>2. ~At(t, "idle") /\ arb[i] \in Entry /\ n \in Nat /\ task \in [Task -> TaskRecord] /\ i \in Nat
  BY <1>1, Running, Indices DEF At, Intent, Chain!Intent
<1>3. /\ e \in Entry /\ e.stage = "confirming" /\ e.solver = arb[i].solver
      /\ {e.collateralTx, e.confirmTx, e.slashTx} \subseteq {arb[i].collateralTx, arb[i].confirmTx, arb[i].slashTx, n}
  BY <1>2 DEF Entry, ArbitrumStage
<1>4. /\ txs' = [txs EXCEPT ![i] = Append(@, tx)]
      /\ setArbitrumStage(i, e) \/ setArbitrumStageThrows(i, e)
  BY DEF ConfirmSign, Sign, ConfirmUnrecorded, SignInVain
<1>5. \E k \in TaskRecord :
        /\ task' = [task EXCEPT ![t] = k]
        /\ \/ k.pc = "idle"
           \/ k.pc = "cread" /\ k.intent = i
           \/ k.pc = "cwait" /\ k.intent = i /\ k.ref = n
  <2>1. CASE ConfirmSign(t)
    <3> DEFINE k == [task[t] EXCEPT !.pc = "cwait", !.ref = n]
    <3>1. k \in TaskRecord /\ k.pc = "cwait" /\ k.intent = i /\ k.ref = n
      BY <1>2 DEF TaskRecord, Pc
    <3>2. task' = [task EXCEPT ![t] = k]
      BY <1>2, <2>1 DEF ConfirmSign, Sign, TaskRecord
    <3>3. QED
      BY <3>1, <3>2
  <2>2. CASE ConfirmUnrecorded(t)
    <3>1. Finish(t) \/ GotoAfterClock(t, "cread", Backoff)
      BY <2>2 DEF ConfirmUnrecorded, RetryOrEnd
    <3>2. "cread" \in Pc /\ Backoff \in Nat
      BY SettlementAssumption DEF Pc
    <3>3. QED
      BY <1>2, <3>1, <3>2, Finishing, Going
  <2>3. QED
    BY <2>1, <2>2
<1> HIDE DEF e
<1>6. QED
  BY <1>1, <1>3, <1>4, <1>5, SignsLocked

LEMMA SlashSignKeeps ==
    ASSUME Inv, NEW t \in Task, SlashSign(t) \/ SlashUnrecorded(t)
    PROVE  Inv'
<1> DEFINE i == task[t].intent
           n == Len(txs[i]) + 1
           tx == [fn |-> "slash", from |-> OrchestratorKey, st |-> "signed"]
           e == [arb[i] EXCEPT !.stage = "slashing", !.slashTx = n]
<1>1. task[t].pc = "ssign" /\ Signing
  BY DEF SlashSign, SlashUnrecorded, At, Signing
<1>2. ~At(t, "idle") /\ arb[i] \in Entry /\ n \in Nat /\ task \in [Task -> TaskRecord] /\ i \in Nat
  BY <1>1, Running, Indices DEF At, Intent, Chain!Intent
<1>3. /\ e \in Entry /\ e.stage = "slashing" /\ e.solver = arb[i].solver
      /\ {e.collateralTx, e.confirmTx, e.slashTx} \subseteq {arb[i].collateralTx, arb[i].confirmTx, arb[i].slashTx, n}
  BY <1>2 DEF Entry, ArbitrumStage
<1>4. /\ txs' = [txs EXCEPT ![i] = Append(@, tx)]
      /\ setArbitrumStage(i, e) \/ setArbitrumStageThrows(i, e)
  BY DEF SlashSign, Sign, SlashUnrecorded, SignInVain
<1>5. \E k \in TaskRecord :
        /\ task' = [task EXCEPT ![t] = k]
        /\ k.pc = "idle" \/ (k.pc = "swait" /\ k.intent = i /\ k.ref = n)
  <2>1. CASE SlashSign(t)
    <3> DEFINE k == [task[t] EXCEPT !.pc = "swait", !.ref = n]
    <3>1. k \in TaskRecord /\ k.pc = "swait" /\ k.intent = i /\ k.ref = n
      BY <1>2 DEF TaskRecord, Pc
    <3>2. task' = [task EXCEPT ![t] = k]
      BY <1>2, <2>1 DEF SlashSign, Sign, TaskRecord
    <3>3. QED
      BY <3>1, <3>2
  <2>2. CASE SlashUnrecorded(t)
    BY <2>2, Finishing DEF SlashUnrecorded
  <2>3. QED
    BY <2>1, <2>2
<1> HIDE DEF e
<1>6. QED
  BY <1>1, <1>3, <1>4, <1>5, SignsLocked

\* The child's steps.
LEMMA SigMoves ==
    ASSUME NEW sl \in Sigs, NEW n \in DOMAIN sl, sl[n].st # "landed", NEW st \in SigState
    PROVE  /\ [sl EXCEPT ![n].st = st] \in Sigs /\ Len([sl EXCEPT ![n].st = st]) = Len(sl)
           /\ SigsGrow(sl, [sl EXCEPT ![n].st = st])
           /\ \A m \in DOMAIN sl : [sl EXCEPT ![n].st = st][m].st = (IF m = n THEN st ELSE sl[m].st)
<1> DEFINE sig == [sl[n] EXCEPT !.st = st]
           sl2 == [sl EXCEPT ![n] = sig]
<1>1. sl[n] \in Signature /\ DOMAIN sl = 1 .. Len(sl) /\ Len(sl) \in Nat
  BY ElementOfSeq, Indices DEF Sigs
<1>2. sig \in Signature /\ sig.st = st
  BY <1>1 DEF Signature
<1>3. sl2 = [sl EXCEPT ![n].st = st]
  OBVIOUS
<1>4. /\ sl2 \in Sigs /\ Len(sl2) = Len(sl)
      /\ \A m \in 1 .. Len(sl) : sl2[m] = (IF m = n THEN sig ELSE sl[m])
  BY <1>1, <1>2, ExceptSeq DEF Sigs
<1> HIDE DEF sl2, sig
<1>5. SigsGrow(sl, sl2)
  BY <1>1, <1>4 DEF SigsGrow
<1>6. QED
  BY <1>1, <1>2, <1>3, <1>4, <1>5

LEMMA ChildSignsKeeps ==
    ASSUME Inv, ChildSigns
    PROVE  Inv'
<1> DEFINE i == task[Sequencer].intent
           n == Len(sigs[i]) + 1
           sig == [st |-> "signed", until |-> now + SigValidity]
           s == [status |-> "settling", sig |-> n]
           k == [task[Sequencer] EXCEPT !.pc = "childWait", !.ref = n]
           sl == Append(sigs[i], sig)
<1>1. task[Sequencer].pc = "child" /\ Sequencer \in Task
  BY DEF ChildSigns, At, Task
<1>2. /\ ~At(Sequencer, "idle") /\ i \in Intent
      /\ arb[i].stage \in LockedStage /\ intents[i].solver = arb[i].solver /\ arb[i].solver \in Solver
      /\ TaskOK(Sequencer, task[Sequencer], arb[i], settled[i], intents[i], txs[i], sigs[i])
      /\ EntryOK(arb[i], intents[i], txs[i]) /\ arb[i] \in Entry
      /\ WireOK(intents[i], txs[i], sigs[i]) /\ txs[i] \in Txs /\ sigs[i] \in Sigs
  BY <1>1, LockedRunning DEF LockedPc
<1>3. sig \in Signature /\ n \in Nat /\ Len(sigs[i]) \in Nat
  BY <1>2, Indices, RecordTypes, SettlementAssumption DEF Inv, Signature, SigState
<1>4. /\ sl \in Sigs /\ Len(sl) = n /\ n \in DOMAIN sl
      /\ \A m \in 1 .. Len(sigs[i]) : sl[m] = sigs[i][m]
  BY <1>2, <1>3, AppendProperties, LenProperties DEF Sigs
<1>5. SigsGrow(sigs[i], sl)
  BY <1>2, <1>3, <1>4, Indices DEF SigsGrow
<1>6. s \in SettledEntry /\ SettledOK(s, sl)
  BY <1>3, <1>4 DEF SettledEntry, SettledOK
<1>7. k \in TaskRecord /\ k.pc = "childWait" /\ k.ref = n /\ k.intent = i
  BY <1>1, <1>2, <1>3, Running DEF TaskRecord, Pc
<1>8. Works(Sequencer, i, k, arb[i], s, txs[i], sl)
  <2>1. /\ task \in [Task -> TaskRecord] /\ arb \in [Intent -> Entry] /\ txs \in [Intent -> Txs]
        /\ sigs \in [Intent -> Sigs]
    BY DEF Inv, TypeOK, Txs, Sigs
  <2>2. task' = [task EXCEPT ![Sequencer] = k]
    BY <1>1, <2>1 DEF ChildSigns, TaskRecord
  <2>3. sigs' = [sigs EXCEPT ![i] = sl]
    BY <1>2, <2>1 DEF ChildSigns
  <2>4. /\ settled' = [settled EXCEPT ![i] = s]
        /\ settledDisk' \in {settledDisk, [settledDisk EXCEPT ![i] = s]}
    BY DEF ChildSigns, markSettling, persistSettled
  <2> HIDE DEF k, sl, s, i
  <2>5. QED
    BY <1>2, <2>1, <2>2, <2>3, <2>4 DEF ChildSigns, Works, arbVars
<1> HIDE DEF sl
<1>9. WireOK(intents[i], txs[i], sl)
  <2>1. HasLanded(sigs[i]) => HasLanded(sl)
    BY <1>2, <1>4, <1>5, LandedStays
  <2>2. QED
    BY <1>2, <2>1 DEF WireOK
<1>10. TaskOK(Sequencer, k, arb[i], s, intents[i], txs[i], sl)
  BY <1>2, <1>4, <1>7 DEF TaskOK, LockedPc, ConfirmPc
<1> HIDE DEF k, s, i
<1>11. phase = "up" \/ phase = "resume"
  BY <1>1, <1>2, Running DEF i
<1>12. s.status # "none"
  BY DEF s
<1>13. Sound(Sequencer, i, k, arb[i], s, txs[i], sl)
  BY <1>1, <1>2, <1>4, <1>5, <1>6, <1>7, <1>9, <1>10, <1>11, <1>12, Unchanging DEF Sound, i
<1>14. QED
  BY <1>1, <1>2, <1>8, <1>13, Work

LEMMA ChildFailsKeeps ==
    ASSUME Inv, ChildFails
    PROVE  Inv'
<1> DEFINE i == task[Sequencer].intent
           n == task[Sequencer].ref
           failed == [arb[i] EXCEPT !.stage = "awaiting_expiry_slash"]
<1>1. task[Sequencer].pc \in {"child", "childWait"} /\ Sequencer \in Task
  BY DEF ChildFails, At, Task
<1>2. /\ ~At(Sequencer, "idle") /\ i \in Intent
      /\ arb[i].stage \in LockedStage /\ intents[i].solver = arb[i].solver /\ arb[i].solver \in Solver
      /\ TaskOK(Sequencer, task[Sequencer], arb[i], settled[i], intents[i], txs[i], sigs[i])
      /\ EntryOK(arb[i], intents[i], txs[i]) /\ arb[i] \in Entry
      /\ WireOK(intents[i], txs[i], sigs[i]) /\ txs[i] \in Txs /\ sigs[i] \in Sigs
      /\ SettledOK(settled[i], sigs[i]) /\ settled[i] \in SettledEntry
  BY <1>1, LockedRunning DEF LockedPc
<1>3. /\ sigs \in [Intent -> Sigs] /\ arb \in [Intent -> Entry] /\ txs \in [Intent -> Txs]
      /\ settled \in [Intent -> SettledEntry]
  BY DEF Inv, TypeOK, Txs, Sigs
<1>4. PICK sl \in Sigs : sigs' = [sigs EXCEPT ![i] = sl] /\ SigsGrow(sigs[i], sl) /\ (sl # <<>> => sigs[i] # <<>>)
  <2>1. CASE UNCHANGED sigs
    BY <1>2, <1>3, <2>1, Unchanging
  <2>2. CASE At(Sequencer, "childWait") /\ sigs[i][n].st = "signed" /\ sigs' = [sigs EXCEPT ![i][n].st = "dead"]
    <3>1. n \in DOMAIN sigs[i] /\ "dead" \in SigState
      BY <1>2, <2>2 DEF TaskOK, At, SigState
    <3> DEFINE sl == [sigs[i] EXCEPT ![n].st = "dead"]
    <3>2. sl \in Sigs /\ SigsGrow(sigs[i], sl) /\ sigs[i] # <<>>
      BY <1>2, <2>2, <3>1, SigMoves
    <3>3. sigs' = [sigs EXCEPT ![i] = sl]
      BY <1>2, <1>3, <2>2
    <3>4. QED
      BY <3>2, <3>3
  <2>3. QED
    BY <2>1, <2>2 DEF ChildFails
<1>5. PICK k \in TaskRecord, e \in Entry :
        /\ task' = [task EXCEPT ![Sequencer] = k]
        /\ arb' = [arb EXCEPT ![i] = e] /\ arbDisk' \in {arbDisk, arb'}
        /\ k.pc = "idle" \/ (k.pc = "pay" /\ k.intent = i)
        /\ EntryMoves(arb[i], e) /\ EntryOK(e, intents[i], txs[i])
        /\ k.pc = "pay" => e = arb[i]
  <2>1. CASE GotoAfterClock(Sequencer, "pay", 0) /\ UNCHANGED arbVars
    <3>1. "pay" \in Pc /\ 0 \in Nat
      BY DEF Pc
    <3>2. PICK k \in TaskRecord : task' = [task EXCEPT ![Sequencer] = k] /\ k.pc = "pay" /\ k.intent = i
      BY <1>1, <1>2, <2>1, <3>1, Going
    <3>3. arb' = [arb EXCEPT ![i] = arb[i]] /\ arbDisk' = arbDisk
      BY <1>2, <1>3, <2>1 DEF arbVars
    <3>4. QED
      BY <1>2, <3>2, <3>3, Unchanging
  <2>2. CASE setArbitrumStageAndEnd(Sequencer, i, failed)
    <3>1. failed \in Entry
      BY <1>2 DEF Entry, ArbitrumStage
    <3>2. EntryOK(failed, intents[i], txs[i]) /\ EntryMoves(arb[i], failed)
      BY <1>2 DEF Entry, EntryOK, EntryMoves, LockedStage
    <3>3. QED
      BY <1>1, <2>2, <3>1, <3>2, Finishing DEF setArbitrumStageAndEnd, setArbitrumStage, setArbitrumStageThrows
  <2>3. QED
    BY <2>1, <2>2 DEF ChildFails, PayoutFailed
<1>6. WireOK(intents[i], txs[i], sl)
  <2>1. HasLanded(sigs[i]) => HasLanded(sl)
    BY <1>2, <1>4, LandedStays
  <2>2. QED
    BY <1>2, <1>4, <2>1 DEF WireOK
<1>7. k.pc = "idle" \/ TaskOK(Sequencer, k, e, settled[i], intents[i], txs[i], sl)
  BY <1>2, <1>5 DEF TaskOK, LockedPc, ConfirmPc
<1>8. SettledOK(settled[i], sl)
  BY <1>2, <1>4, SettledStays
<1>9. Works(Sequencer, i, k, e, settled[i], txs[i], sl)
  BY <1>2, <1>3, <1>4, <1>5 DEF ChildFails, Works
<1>10. phase = "up" \/ phase = "resume"
  BY <1>1, <1>2, Running
<1>11. Sound(Sequencer, i, k, e, settled[i], txs[i], sl)
  <2> HIDE DEF i
  <2>1. QED
    BY <1>1, <1>2, <1>4, <1>5, <1>6, <1>7, <1>8, <1>10, Unchanging DEF Sound, i
<1>12. QED
  BY <1>1, <1>2, <1>9, <1>11, Work

\* A payout was found to have landed.
LEMMA FoundLanded ==
    ASSUME Inv, NEW t \in Task, ~At(t, "idle"), NEW i, i = task[t].intent,
           UNCHANGED <<chainVars, arbVars, bootVars, wireVars>>,
           HasLanded(sigs[i]), settled[i].status # "none", markSettled(i), NEW pc \in Pc, Goto(t, pc),
           pc = "rresume" \/ (pc = "cread" /\ task[t].pc \in LockedPc)
    PROVE  Inv'
<1> DEFINE s == [settled[i] EXCEPT !.status = "settled"]
<1>1. /\ i \in Intent /\ TaskOK(t, task[t], arb[i], settled[i], intents[i], txs[i], sigs[i])
      /\ SettledOK(settled[i], sigs[i]) /\ settled[i] \in SettledEntry
  BY Running
<1>2. s \in SettledEntry /\ SettledOK(s, sigs[i]) /\ s.status # "none" /\ persistSettled(i, s)
  BY <1>1 DEF SettledEntry, SettledOK, markSettled
<1>3. PICK k \in TaskRecord :
        /\ task' = [task EXCEPT ![t] = k]
        /\ k.pc = pc /\ k.intent = task[t].intent /\ k.solver = task[t].solver /\ k.ref = task[t].ref
  BY Going
<1> HIDE DEF s
<1>4. TaskOK(t, k, arb[i], s, intents[i], txs[i], sigs[i])
  BY <1>1, <1>3 DEF TaskOK, LockedPc, ConfirmPc
<1>5. QED
  BY <1>1, <1>2, <1>3, <1>4, WorkSettled

LEMMA ChildSucceedsKeeps ==
    ASSUME Inv, ChildSucceeds
    PROVE  Inv'
<1> DEFINE i == task[Sequencer].intent
<1>1. task[Sequencer].pc = "childWait" /\ Sequencer \in Task /\ ~At(Sequencer, "idle") /\ "cread" \in Pc
  BY DEF ChildSucceeds, At, Task, Pc
<1>2. TaskOK(Sequencer, task[Sequencer], arb[i], settled[i], intents[i], txs[i], sigs[i])
  BY <1>1, Running
<1>3. task[Sequencer].ref \in DOMAIN sigs[i] /\ settled[i].status # "none" /\ task[Sequencer].pc \in LockedPc
  BY <1>1, <1>2 DEF TaskOK, LockedPc
<1>4. HasLanded(sigs[i]) /\ markSettled(i) /\ Goto(Sequencer, "cread")
  BY <1>3 DEF ChildSucceeds, HasLanded
<1> HIDE DEF i
<1>5. QED
  BY <1>1, <1>3, <1>4, FoundLanded DEF ChildSucceeds, i

LEMMA PollSigKeeps ==
    ASSUME Inv, NEW w \in Poller, PollSig(w)
    PROVE  Inv'
<1> DEFINE i == task[w].intent
<1>1. task[w].pc = "psig" /\ w \in Task /\ ~At(w, "idle") /\ {"cread", "ssign"} \subseteq Pc
  BY DEF PollSig, At, Task, Pc
<1>2. /\ TaskOK(w, task[w], arb[i], settled[i], intents[i], txs[i], sigs[i])
      /\ SettledOK(settled[i], sigs[i])
  BY <1>1, Running
<1>3. settled[i].sig \in DOMAIN sigs[i] /\ settled[i].status # "none" /\ task[w].pc \in LockedPc
  BY <1>1, <1>2 DEF TaskOK, SettledOK, LockedPc
<1>4. CASE sigs[i][settled[i].sig].st = "landed" /\ markSettled(i) /\ Goto(w, "cread")
  <2>1. HasLanded(sigs[i])
    BY <1>3, <1>4 DEF HasLanded
  <2> HIDE DEF i
  <2>2. QED
    BY <1>1, <1>3, <1>4, <2>1, FoundLanded DEF PollSig, i
<1>5. CASE Goto(w, "ssign") /\ UNCHANGED <<settled, settledDisk>>
  <2>1. Idling /\ 0 \in Nat
    BY <1>5 DEF PollSig, Idling, ledgerVars
  <2>2. \A k \in TaskRecord : k.pc = "ssign" /\ k.ref = task[w].ref /\ k.solver = task[w].solver
          => TaskOK(w, k, arb[i], settled[i], intents[i], txs[i], sigs[i])
    BY <1>1, <1>2 DEF TaskOK, LockedPc, ConfirmPc
  <2> HIDE DEF i
  <2>3. QED
    BY <1>1, <1>5, <2>1, <2>2, Goes DEF i
<1>6. QED
  BY <1>4, <1>5 DEF PollSig

LEMMA ReconcileCheckKeeps ==
    ASSUME Inv, NEW w \in Reconciler, ReconcileCheck(w)
    PROVE  Inv'
<1> DEFINE i == task[w].intent
<1>1. task[w].pc = "rcheck" /\ w \in Task /\ ~At(w, "idle") /\ "rresume" \in Pc
  BY DEF ReconcileCheck, At, Task, Pc
<1>2. TaskOK(w, task[w], arb[i], settled[i], intents[i], txs[i], sigs[i])
  BY <1>1, Running
<1>3. task[w].ref \in DOMAIN sigs[i] /\ settled[i].status # "none"
  BY <1>1, <1>2 DEF TaskOK
<1>4. CASE sigs[i][task[w].ref].st = "landed" /\ markSettled(i) /\ Goto(w, "rresume")
  <2>1. HasLanded(sigs[i])
    BY <1>3, <1>4 DEF HasLanded
  <2> HIDE DEF i
  <2>2. QED
    BY <1>1, <1>3, <1>4, <2>1, FoundLanded DEF ReconcileCheck, i
<1>5. CASE Finish(w) /\ UNCHANGED <<settled, settledDisk>>
  <2>1. Idling
    BY <1>5 DEF ReconcileCheck, Idling, ledgerVars
  <2>2. QED
    BY <1>1, <1>5, <2>1, Ends
<1>6. QED
  BY <1>4, <1>5 DEF ReconcileCheck

----------------------------------------------------------------------------
(***************************************************************************)
(* The chains' actions: neither the ledgers nor the tasks move.            *)
(***************************************************************************)
Outside == UNCHANGED <<ledgerVars, task, bootVars>> /\ (ChainCall \/ UNCHANGED chainVars)

LEMMA OutsideKeeps ==
    ASSUME Inv, Outside, txs' \in [Intent -> Txs], sigs' \in [Intent -> Sigs],
           \A i \in Intent : /\ RecGrows(intents[i], intents'[i])
                             /\ TxsGrow(txs[i], txs'[i]) /\ SigsGrow(sigs[i], sigs'[i])
                             /\ WireOK(intents'[i], txs'[i], sigs'[i])
    PROVE  Inv'
<1>0. NoAccount \notin Solver
  BY RecordTypes DEF Inv
<1>1. /\ txs \in [Intent -> Txs] /\ sigs \in [Intent -> Sigs]
      /\ arb \in [Intent -> Entry] /\ arbDisk \in [Intent -> Entry]
      /\ settled \in [Intent -> SettledEntry] /\ settledDisk \in [Intent -> SettledEntry]
  BY DEF Inv, TypeOK, Txs, Sigs
<1>2. UNCHANGED <<arb, arbDisk, settled, settledDisk, task, phase, bootTodo, crashes>>
  BY DEF Outside, ledgerVars, arbVars, bootVars
<1>3. Contract!EscrowInv' /\ Chain!TypeOK'
  <2>1. Contract!EscrowInv'
    BY ContractKept DEF Inv, Outside
  <2>2. Contract!TypeOK'
    BY <2>1 DEF Contract!EscrowInv
  <2>3. Contract!TypeOK' <=> Chain!TypeOK'
    BY DEF Contract!TypeOK, Contract!Intent, Contract!IntentRecord, Contract!PaidRecord, Contract!Asset,
       Contract!IntentStatus, Chain!TypeOK, Chain!Intent, Chain!IntentRecord, Chain!PaidRecord, Chain!Asset,
       Chain!IntentStatus
  <2>4. QED
    BY <2>1, <2>2, <2>3
<1>4. TypeOK'
  <2>1. \A t \in Task : At(t, "idle")' \/ task'[t].intent \in Intent
    BY <1>2 DEF Inv, TypeOK, At
  <2>2. QED
    BY <1>2, <1>3, <2>1 DEF Inv, TypeOK, Txs, Sigs
<1>5. WireInv'
  BY DEF WireInv
<1>6. EntryInv'
  <2>1. \A i \in Intent : EntryOK(arb[i], intents[i], txs[i]) /\ EntryOK(arbDisk[i], intents[i], txs[i])
    BY DEF Inv, SettlementInv, EntryInv
  <2>2. \A i \in Intent : EntryOK(arb[i], intents'[i], txs'[i]) /\ EntryOK(arbDisk[i], intents'[i], txs'[i])
    BY <1>0, <1>1, <2>1, EntryStays
  <2>3. QED
    BY <1>2, <2>2 DEF EntryInv
<1>7. SettledInv'
  <2>1. \A i \in Intent : SettledOK(settled[i], sigs'[i]) /\ SettledOK(settledDisk[i], sigs'[i])
    BY <1>1, SettledStays DEF Inv, SettlementInv, SettledInv
  <2>2. QED
    BY <1>2, <2>1 DEF SettledInv
<1>8. TaskInv'
  <2> SUFFICES ASSUME NEW t \in Task, task[t].pc # "idle", NEW i, i = task[t].intent
               PROVE  TaskOK(t, task[t], arb[i], settled[i], intents'[i], txs'[i], sigs'[i])
    BY <1>2 DEF TaskInv, At
  <2>1. i \in Intent /\ TaskOK(t, task[t], arb[i], settled[i], intents[i], txs[i], sigs[i])
    BY Running DEF At
  <2>2. QED
    BY <1>0, <1>1, <2>1, Unchanging, TaskStays
<1>9. BootOK'
  BY <1>2 DEF Inv, SettlementInv, BootOK, At
<1>10. QED
  BY <1>3, <1>4, <1>5, <1>6, <1>7, <1>8, <1>9 DEF Inv, SettlementInv

\* One intent moves.
LEMMA OutsideOneKeeps ==
    ASSUME Inv, Outside, NEW i \in Intent, OnlyRecord(i), NEW tl \in Txs, NEW sl \in Sigs,
           txs' = [txs EXCEPT ![i] = tl], sigs' = [sigs EXCEPT ![i] = sl],
           RecGrows(intents[i], intents'[i]), TxsGrow(txs[i], tl), SigsGrow(sigs[i], sl),
           intents'[i].status # "Pending" \/ intents'[i].solver # NoAccount => intents'[i].owner # NoAccount,
           intents'[i].status = "Settled" => intents[i].status = "Settled" \/ HasLanded(sigs[i]),
           sl # <<>> => sigs[i] # <<>> \/ intents'[i].solver \in Solver,
           \A n \in DOMAIN tl : (n \in DOMAIN txs[i] /\ tl[n] = txs[i][n]) \/ TxOK(tl[n], intents'[i], sl)
    PROVE  Inv'
<1>1. txs \in [Intent -> Txs] /\ sigs \in [Intent -> Sigs] /\ NoAccount \notin Solver
  BY RecordTypes DEF Inv, TypeOK, Txs, Sigs
<1>2. /\ txs' \in [Intent -> Txs] /\ sigs' \in [Intent -> Sigs]
      /\ \A j \in Intent : /\ txs'[j] = (IF j = i THEN tl ELSE txs[j])
                           /\ sigs'[j] = (IF j = i THEN sl ELSE sigs[j])
  BY <1>1
<1>3. \A j \in Intent : WireOK(intents[j], txs[j], sigs[j])
  BY DEF Inv, SettlementInv, WireInv
<1>4. WireOK(intents'[i], tl, sl)
  <2>1. WireOK(intents[i], txs[i], sigs[i]) /\ txs[i] \in Txs /\ sigs[i] \in Sigs
    BY <1>1, <1>3
  <2>2. QED
    BY <1>1, <2>1, WireStays
<1>5. \A j \in Intent : /\ RecGrows(intents[j], intents'[j])
                        /\ TxsGrow(txs[j], txs'[j]) /\ SigsGrow(sigs[j], sigs'[j])
                        /\ WireOK(intents'[j], txs'[j], sigs'[j])
  BY <1>1, <1>2, <1>3, <1>4, Unchanging DEF OnlyRecord
<1>6. QED
  BY <1>2, <1>5, OutsideKeeps

LEMMA TxMoves ==
    ASSUME NEW tl \in Txs, NEW n \in DOMAIN tl, tl[n].st # "success", NEW st \in TxState
    PROVE  /\ [tl EXCEPT ![n].st = st] \in Txs /\ TxsGrow(tl, [tl EXCEPT ![n].st = st])
           /\ \A m \in DOMAIN [tl EXCEPT ![n].st = st] :
                /\ m \in DOMAIN tl
                /\ m # n => [tl EXCEPT ![n].st = st][m] = tl[m]
           /\ n \in DOMAIN [tl EXCEPT ![n].st = st]
           /\ [tl EXCEPT ![n].st = st][n] = [tl[n] EXCEPT !.st = st]
           /\ tl[n] \in Transaction
<1> DEFINE tx == [tl[n] EXCEPT !.st = st]
           tl2 == [tl EXCEPT ![n] = tx]
<1>1. tl[n] \in Transaction /\ DOMAIN tl = 1 .. Len(tl) /\ Len(tl) \in Nat
  BY ElementOfSeq, Indices DEF Txs
<1>2. tx \in Transaction /\ tx.st = st /\ tx.fn = tl[n].fn /\ tx.from = tl[n].from
  BY <1>1 DEF Transaction
<1>3. tl2 = [tl EXCEPT ![n].st = st]
  OBVIOUS
<1>4. /\ tl2 \in Txs /\ Len(tl2) = Len(tl)
      /\ \A m \in 1 .. Len(tl) : tl2[m] = (IF m = n THEN tx ELSE tl[m])
  BY <1>1, <1>2, ExceptSeq DEF Txs
<1>5. tl2[n] = tx /\ DOMAIN tl2 = DOMAIN tl
  BY <1>1, <1>4, Indices
<1> HIDE DEF tl2
<1>6. TxsGrow(tl, tl2)
  <2>1. \A m \in DOMAIN tl : tl2[m].fn = tl[m].fn /\ tl2[m].from = tl[m].from /\ (tl[m].st = "success" => m # n)
    BY <1>1, <1>2, <1>4
  <2>2. QED
    BY <1>1, <1>4, <2>1 DEF TxsGrow
<1>7. QED
  BY <1>1, <1>3, <1>4, <1>5, <1>6

LEMMA BroadcastKeeps ==
    ASSUME Inv, NEW t \in Task, Broadcast(t)
    PROVE  Inv'
<1> DEFINE i == task[t].intent
           n == task[t].ref
           tl == [txs[i] EXCEPT ![n].st = "mempool"]
<1>1. task[t].pc \in {"postWait", "cwait", "swait"} /\ txs[i][n].st = "signed" /\ ~At(t, "idle")
  BY DEF Broadcast, Waiting, Receipt, At
<1>2. /\ i \in Intent /\ TaskOK(t, task[t], arb[i], settled[i], intents[i], txs[i], sigs[i])
      /\ WireOK(intents[i], txs[i], sigs[i]) /\ EntryOK(arb[i], intents[i], txs[i])
      /\ txs[i] \in Txs /\ sigs[i] \in Sigs
  BY <1>1, Running
<1>3. n \in DOMAIN txs[i]
  BY <1>1, <1>2, Indices DEF TaskOK, EntryOK
<1>4. "mempool" \in TxState
  BY DEF TxState
<1>5. /\ tl \in Txs /\ TxsGrow(txs[i], tl)
      /\ \A m \in DOMAIN tl : m \in DOMAIN txs[i] /\ (m # n => tl[m] = txs[i][m])
      /\ tl[n] = [txs[i][n] EXCEPT !.st = "mempool"] /\ txs[i][n] \in Transaction
  BY <1>1, <1>2, <1>3, <1>4, TxMoves
<1>6. /\ txs \in [Intent -> Txs] /\ sigs \in [Intent -> Sigs] /\ UNCHANGED <<intents, sigs>> /\ Outside
  BY DEF Inv, TypeOK, Txs, Sigs, Broadcast, Outside, chainVars
<1>7. txs' = [txs EXCEPT ![i] = tl] /\ sigs' = [sigs EXCEPT ![i] = sigs[i]]
  BY <1>2, <1>6 DEF Broadcast
<1>8. TxOK(tl[n], intents[i], sigs[i])
  BY <1>2, <1>3, <1>5 DEF WireOK, TxOK, Transaction
<1>9. RecGrows(intents[i], intents'[i]) /\ SigsGrow(sigs[i], sigs[i]) /\ OnlyRecord(i)
  BY <1>2, <1>6, Unchanging DEF OnlyRecord
<1> HIDE DEF tl, i
<1>10. /\ intents'[i].status # "Pending" \/ intents'[i].solver # NoAccount => intents'[i].owner # NoAccount
       /\ intents'[i].status = "Settled" => intents[i].status = "Settled"
  BY <1>2, <1>6 DEF WireOK
<1>11. \A m \in DOMAIN tl : (m \in DOMAIN txs[i] /\ tl[m] = txs[i][m]) \/ TxOK(tl[m], intents'[i], sigs[i])
  BY <1>5, <1>6, <1>8
<1>12. QED
  BY <1>2, <1>5, <1>6, <1>7, <1>9, <1>10, <1>11, OutsideOneKeeps

\* What the chain makes of a transaction that is in the mempool.
LEMMA MineTells ==
    ASSUME Inv, NEW i \in Intent, NEW n \in DOMAIN txs[i], Mine(i, n)
    PROVE  \E result \in {"success", "reverted"} :
            /\ txs' = [txs EXCEPT ![i][n].st = result]
            /\ Outside /\ UNCHANGED sigs /\ txs[i][n].st = "mempool"
            /\ \/ result = "reverted" /\ UNCHANGED chainVars
               \/ result = "success" /\ txs[i][n].fn = "post" /\ Locks(i, txs[i][n].from)
               \/ /\ result = "success" /\ txs[i][n].fn = "confirm" /\ Closes(i, "Settled")
                  /\ intents[i].solver # NoAccount
               \/ /\ result = "success" /\ txs[i][n].fn = "slash" /\ Closes(i, "Slashed")
                  /\ intents[i].solver # NoAccount
<1> DEFINE tx == txs[i][n]
           Mined(result) == txs' = [txs EXCEPT ![i][n].st = result]
<1>1. tx.from \in Account /\ Contract!EscrowInv
  <2>1. tx \in Transaction
    BY ElementOfSeq, Indices DEF Inv, TypeOK, Txs
  <2>2. QED
    BY <2>1, SettlementAssumption DEF Transaction, Inv
<1>2. tx.st = "mempool" /\ UNCHANGED <<ledgerVars, task, bootVars>> /\ UNCHANGED sigs
  BY DEF Mine
<1>3. CASE Chain!postCollateral(tx.from, i, Chain!Collateral(intents[i].amount)) /\ tx.fn = "post" /\ Mined("success")
  BY <1>1, <1>2, <1>3, PostLocks DEF Outside, ChainCall
<1>4. CASE Chain!confirmSettlement(tx.from, i) /\ tx.fn = "confirm" /\ Mined("success")
  BY <1>1, <1>2, <1>4, ConfirmCloses DEF Outside, ChainCall
<1>5. CASE Chain!slashSolver(tx.from, i) /\ tx.fn = "slash" /\ Mined("success")
  BY <1>1, <1>2, <1>5, SlashCloses DEF Outside, ChainCall
<1>6. CASE Mined("reverted") /\ UNCHANGED chainVars
  BY <1>2, <1>6 DEF Outside
<1>7. QED
  BY <1>3, <1>4, <1>5, <1>6 DEF Mine

LEMMA MineKeeps ==
    ASSUME Inv, NEW i \in Intent, NEW n \in DOMAIN txs[i], Mine(i, n)
    PROVE  Inv'
<1>1. PICK result \in {"success", "reverted"} :
        /\ txs' = [txs EXCEPT ![i][n].st = result]
        /\ Outside /\ UNCHANGED sigs /\ txs[i][n].st = "mempool"
        /\ \/ result = "reverted" /\ UNCHANGED chainVars
           \/ result = "success" /\ txs[i][n].fn = "post" /\ Locks(i, txs[i][n].from)
           \/ /\ result = "success" /\ txs[i][n].fn = "confirm" /\ Closes(i, "Settled")
              /\ intents[i].solver # NoAccount
           \/ /\ result = "success" /\ txs[i][n].fn = "slash" /\ Closes(i, "Slashed")
              /\ intents[i].solver # NoAccount
  BY MineTells
<1> DEFINE tx == txs[i][n]
           tl == [txs[i] EXCEPT ![n].st = result]
<1>2. /\ txs \in [Intent -> Txs] /\ sigs \in [Intent -> Sigs] /\ NoAccount \notin Solver
      /\ txs[i] \in Txs /\ sigs[i] \in Sigs /\ WireOK(intents[i], txs[i], sigs[i])
  BY RecordTypes DEF Inv, TypeOK, Txs, Sigs, SettlementInv, WireInv
<1>3. result \in TxState
  BY DEF TxState
<1>4. /\ tl \in Txs /\ TxsGrow(txs[i], tl)
      /\ \A m \in DOMAIN tl : m \in DOMAIN txs[i] /\ (m # n => tl[m] = txs[i][m])
      /\ tl[n] = [tx EXCEPT !.st = result] /\ tx \in Transaction
  BY <1>1, <1>2, <1>3, TxMoves
<1>5. tl[n].fn = tx.fn /\ tl[n].from = tx.from /\ tl[n].st = result
  BY <1>4 DEF Transaction
<1>6. txs' = [txs EXCEPT ![i] = tl] /\ sigs' = [sigs EXCEPT ![i] = sigs[i]]
  BY <1>1, <1>2
<1>7. tx.fn = "post" => tx.from \in Solver
  BY <1>2 DEF WireOK
<1>8. tx.fn = "confirm" => HasLanded(sigs[i])
  BY <1>2 DEF WireOK
<1>9. UNCHANGED chainVars => UNCHANGED intents
  BY DEF chainVars
<1> HIDE DEF tl
<1>10. OnlyRecord(i) /\ RecGrows(intents[i], intents'[i])
  BY <1>1, <1>2, <1>9 DEF RecGrows, Locks, Closes, OnlyRecord
<1>11. TxOK(tl[n], intents'[i], sigs[i])
  BY <1>1, <1>5, <1>7, <1>8 DEF TxOK, Locks, Closes
<1>12. intents'[i].status # "Pending" \/ intents'[i].solver # NoAccount => intents'[i].owner # NoAccount
  BY <1>1, <1>2, <1>9 DEF Locks, Closes, WireOK
<1>13. intents'[i].status = "Settled" => intents[i].status = "Settled" \/ HasLanded(sigs[i])
  BY <1>1, <1>8, <1>9 DEF Locks, Closes
<1>14. \A m \in DOMAIN tl : (m \in DOMAIN txs[i] /\ tl[m] = txs[i][m]) \/ TxOK(tl[m], intents'[i], sigs[i])
  BY <1>4, <1>11
<1>15. SigsGrow(sigs[i], sigs[i])
  BY <1>2, Unchanging
<1>16. QED
  BY <1>1, <1>2, <1>4, <1>6, <1>10, <1>12, <1>13, <1>14, <1>15, OutsideOneKeeps

LEMMA PayoutMovesKeep ==
    ASSUME Inv, NEW i \in Intent, NEW n \in DOMAIN sigs[i], ChildSends(i, n) \/ PayoutLands(i, n)
    PROVE  Inv'
<1>1. PICK st \in SigState : sigs' = [sigs EXCEPT ![i][n].st = st]
  BY DEF ChildSends, PayoutLands, SigState
<1> DEFINE sl == [sigs[i] EXCEPT ![n].st = st]
<1>2. /\ txs \in [Intent -> Txs] /\ sigs \in [Intent -> Sigs] /\ txs[i] \in Txs /\ sigs[i] \in Sigs
      /\ WireOK(intents[i], txs[i], sigs[i])
  BY DEF Inv, TypeOK, Txs, Sigs, SettlementInv, WireInv
<1>3. sigs[i][n].st # "landed"
  BY DEF ChildSends, PayoutLands
<1>4. sl \in Sigs /\ SigsGrow(sigs[i], sl)
  BY <1>2, <1>3, SigMoves
<1>5. sigs[i] # <<>>
  BY <1>2
<1>6. UNCHANGED <<txs, intents>> /\ Outside
  BY DEF ChildSends, PayoutLands, Outside, chainVars
<1>7. txs' = [txs EXCEPT ![i] = txs[i]] /\ sigs' = [sigs EXCEPT ![i] = sl]
  BY <1>1, <1>2, <1>6
<1> HIDE DEF sl
<1>8. /\ OnlyRecord(i) /\ RecGrows(intents[i], intents'[i]) /\ TxsGrow(txs[i], txs[i])
      /\ intents'[i].status # "Pending" \/ intents'[i].solver # NoAccount => intents'[i].owner # NoAccount
      /\ intents'[i].status = "Settled" => intents[i].status = "Settled"
  BY <1>2, <1>6, Unchanging DEF OnlyRecord, WireOK
<1>9. QED
  BY <1>2, <1>4, <1>5, <1>6, <1>7, <1>8, OutsideOneKeeps

\* What the others' calls come to.
LEMMA OthersTell ==
    ASSUME Inv, Others
    PROVE  /\ Outside /\ UNCHANGED wireVars
           /\ \E i \in Intent :
                \/ Opens(i)
                \/ \E s \in Rival : Locks(i, s)
                \/ Closes(i, "Expired") /\ intents[i].owner # NoAccount
                \/ Closes(i, "Refunded") /\ intents[i].owner # NoAccount
<1>1. UNCHANGED <<ledgerVars, task, bootVars, wireVars>> /\ Contract!EscrowInv
  BY DEF Others, Inv
<1>2. CASE \E u \in User : Chain!Submit(u)
  BY <1>1, <1>2, SubmitOpens DEF Outside, ChainCall
<1>3. ASSUME NEW i \in Intent, NEW s \in Rival, Chain!postCollateral(s, i, Chain!Collateral(intents[i].amount))
      PROVE  Outside /\ Locks(i, s)
  BY <1>1, <1>3, PostLocks, SettlementAssumption DEF Outside, ChainCall
<1>4. ASSUME NEW i \in Intent, NEW u \in User, Chain!cancelIntent(u, i)
      PROVE  Outside /\ Closes(i, "Expired") /\ intents[i].owner # NoAccount
  BY <1>1, <1>4, CancelCloses, SettlementAssumption DEF Outside, ChainCall
<1>5. ASSUME NEW i \in Intent, NEW u \in User, Chain!claimRefund(u, i)
      PROVE  Outside /\ Closes(i, "Refunded") /\ intents[i].owner # NoAccount
  BY <1>1, <1>5, RefundCloses, SettlementAssumption DEF Outside, ChainCall
<1>6. QED
  BY <1>1, <1>2, <1>3, <1>4, <1>5 DEF Others

LEMMA OthersKeep ==
    ASSUME Inv, Others
    PROVE  Inv'
<1>1. Outside /\ UNCHANGED <<txs, sigs>>
  BY OthersTell DEF wireVars
<1>2. PICK i \in Intent :
        \/ Opens(i)
        \/ \E s \in Rival : Locks(i, s)
        \/ Closes(i, "Expired") /\ intents[i].owner # NoAccount
        \/ Closes(i, "Refunded") /\ intents[i].owner # NoAccount
  BY OthersTell
<1>3. /\ txs \in [Intent -> Txs] /\ sigs \in [Intent -> Sigs] /\ txs[i] \in Txs /\ sigs[i] \in Sigs
      /\ NoAccount \notin Solver \cup Rival /\ WireOK(intents[i], txs[i], sigs[i])
  BY RecordTypes DEF Inv, TypeOK, Txs, Sigs, SettlementInv, WireInv
<1>4. OnlyRecord(i) /\ RecGrows(intents[i], intents'[i])
  BY <1>2, <1>3 DEF RecGrows, Opens, Locks, Closes
<1>5. /\ intents'[i].status # "Pending" \/ intents'[i].solver # NoAccount => intents'[i].owner # NoAccount
      /\ intents'[i].status # "Settled"
  BY <1>2, <1>3 DEF Opens, Locks, Closes
<1>6. /\ txs' = [txs EXCEPT ![i] = txs[i]] /\ sigs' = [sigs EXCEPT ![i] = sigs[i]]
      /\ TxsGrow(txs[i], txs[i]) /\ SigsGrow(sigs[i], sigs[i])
  BY <1>1, <1>3, Unchanging
<1>7. QED
  BY <1>1, <1>3, <1>4, <1>5, <1>6, OutsideOneKeeps

LEMMA TickKeeps ==
    ASSUME Inv, Tick
    PROVE  Inv'
<1>1. Outside /\ UNCHANGED <<intents, txs, sigs>>
  BY DEF Tick, Outside, ChainCall, Chain!Tick, Chain!contractVars, wireVars
<1>2. txs \in [Intent -> Txs] /\ sigs \in [Intent -> Sigs]
  BY DEF Inv, TypeOK, Txs, Sigs
<1>3. \A i \in Intent : WireOK(intents[i], txs[i], sigs[i])
  BY DEF Inv, SettlementInv, WireInv
<1>4. QED
  BY <1>1, <1>2, <1>3, Unchanging, OutsideKeeps

----------------------------------------------------------------------------
(***************************************************************************)
(* The process's actions.  While it boots no task runs but the sequence,   *)
(* which the boot itself starts.                                           *)
(***************************************************************************)
\* A step of the process that leaves the chains and what was signed as they are.
LEMMA ProcessKeeps ==
    ASSUME Inv, UNCHANGED <<chainVars, wireVars>>,
           arb' \in [Intent -> Entry], arbDisk' \in [Intent -> Entry],
           settled' \in [Intent -> SettledEntry], settledDisk' \in [Intent -> SettledEntry],
           \A i \in Intent : /\ EntryOK(arb'[i], intents[i], txs[i]) /\ EntryOK(arbDisk'[i], intents[i], txs[i])
                             /\ SettledOK(settled'[i], sigs[i]) /\ SettledOK(settledDisk'[i], sigs[i]),
           \A t \in Task : task'[t].pc = "idle", task' \in [Task -> TaskRecord],
           phase' \in {"down", "settling", "mid", "resume", "up"}, bootTodo' \subseteq Intent, crashes' \in Nat,
           phase' = "settling" => \A i \in bootTodo' : settled'[i].status # "none",
           phase' = "resume" => \A i \in bootTodo' : arb'[i].stage = "collateral_posted"
    PROVE  Inv'
<1>1. Contract!EscrowInv' /\ Chain!TypeOK'
  BY ChainFrame DEF Inv, TypeOK
<1>2. UNCHANGED <<intents, txs, sigs>>
  BY DEF chainVars, wireVars
<1>3. TypeOK'
  BY <1>1, <1>2 DEF Inv, TypeOK, At
<1>4. WireInv' /\ EntryInv' /\ SettledInv'
  BY <1>2 DEF Inv, SettlementInv, WireInv, EntryInv, SettledInv
<1>5. TaskInv' /\ BootOK'
  <2>1. Sequencer \in Task
    BY DEF Task
  <2>2. QED
    BY <2>1 DEF TaskInv, BootOK, At
<1>6. QED
  BY <1>1, <1>3, <1>4, <1>5 DEF Inv, SettlementInv

LEMMA CrashKeeps ==
    ASSUME Inv, Crash
    PROVE  Inv'
<1>1. /\ UNCHANGED <<chainVars, wireVars>> /\ UNCHANGED <<arb, arbDisk, settled, settledDisk>>
      /\ phase' = "down" /\ bootTodo' = {} /\ crashes' = crashes + 1
  BY DEF Crash, ledgerVars, arbVars
<1>2. task' = [t \in Task |-> Idle] /\ Idle \in TaskRecord /\ Idle.pc = "idle"
  BY DEF Crash, Idle, TaskRecord, Pc
<1>3. crashes' \in Nat
  BY <1>1 DEF Inv, TypeOK
<1>4. /\ arb' \in [Intent -> Entry] /\ arbDisk' \in [Intent -> Entry]
      /\ settled' \in [Intent -> SettledEntry] /\ settledDisk' \in [Intent -> SettledEntry]
  BY <1>1 DEF Inv, TypeOK
<1>5. \A i \in Intent : /\ EntryOK(arb'[i], intents[i], txs[i]) /\ EntryOK(arbDisk'[i], intents[i], txs[i])
                        /\ SettledOK(settled'[i], sigs[i]) /\ SettledOK(settledDisk'[i], sigs[i])
  BY <1>1 DEF Inv, SettlementInv, EntryInv, SettledInv
<1>6. QED
  BY <1>1, <1>2, <1>3, <1>4, <1>5, ProcessKeeps

LEMMA BootKeeps ==
    ASSUME Inv, Boot
    PROVE  Inv'
<1>1. /\ UNCHANGED <<chainVars, wireVars>> /\ UNCHANGED <<arbDisk, settledDisk, task, crashes>>
      /\ arb' = arbDisk /\ settled' = settledDisk
      /\ phase = "down" /\ phase' = "settling"
      /\ bootTodo' = {i \in Intent : settledDisk[i].status = "settling"}
  BY DEF Boot
<1>2. /\ arb' \in [Intent -> Entry] /\ arbDisk' \in [Intent -> Entry] /\ crashes' \in Nat
      /\ settled' \in [Intent -> SettledEntry] /\ settledDisk' \in [Intent -> SettledEntry]
      /\ task' \in [Task -> TaskRecord]
  BY <1>1 DEF Inv, TypeOK
<1>3. \A i \in Intent : /\ EntryOK(arb'[i], intents[i], txs[i]) /\ EntryOK(arbDisk'[i], intents[i], txs[i])
                        /\ SettledOK(settled'[i], sigs[i]) /\ SettledOK(settledDisk'[i], sigs[i])
  BY <1>1 DEF Inv, SettlementInv, EntryInv, SettledInv
<1>4. \A t \in Task : task'[t].pc = "idle"
  BY <1>1 DEF Inv, SettlementInv, BootOK, At
<1>5. QED
  BY <1>1, <1>2, <1>3, <1>4, ProcessKeeps

LEMMA BootSettlingKeeps ==
    ASSUME Inv, NEW i \in Intent, BootSettling(i)
    PROVE  Inv'
<1> DEFINE s == [settled[i] EXCEPT !.status = "settled"]
<1>1. /\ UNCHANGED <<chainVars, wireVars>> /\ UNCHANGED <<arb, arbDisk, task, phase, crashes>>
      /\ phase = "settling" /\ i \in bootTodo /\ bootTodo' = bootTodo \ {i}
  BY DEF BootSettling, arbVars
<1>2. /\ arb \in [Intent -> Entry] /\ arbDisk \in [Intent -> Entry] /\ crashes \in Nat
      /\ settled \in [Intent -> SettledEntry] /\ settledDisk \in [Intent -> SettledEntry]
      /\ task \in [Task -> TaskRecord] /\ bootTodo \subseteq Intent
  BY DEF Inv, TypeOK
<1>3. \A j \in Intent : /\ EntryOK(arb[j], intents[j], txs[j]) /\ EntryOK(arbDisk[j], intents[j], txs[j])
                        /\ SettledOK(settled[j], sigs[j]) /\ SettledOK(settledDisk[j], sigs[j])
  BY DEF Inv, SettlementInv, EntryInv, SettledInv
<1>4. /\ \A t \in Task : task'[t].pc = "idle"
      /\ \A j \in bootTodo : settled[j].status # "none"
  BY <1>1 DEF Inv, SettlementInv, BootOK, At
<1>5. /\ settled' \in [Intent -> SettledEntry] /\ settledDisk' \in [Intent -> SettledEntry]
      /\ \A j \in Intent : /\ SettledOK(settled'[j], sigs[j]) /\ SettledOK(settledDisk'[j], sigs[j])
                           /\ settled[j].status # "none" => settled'[j].status # "none"
  <2>1. CASE UNCHANGED <<settled, settledDisk>>
    BY <1>2, <1>3, <2>1
  <2>2. CASE sigs[i][settled[i].sig].st = "landed" /\ markSettled(i)
    <3>1. settled[i].sig \in DOMAIN sigs[i]
      BY <1>1, <1>3, <1>4 DEF SettledOK
    <3>2. s \in SettledEntry /\ SettledOK(s, sigs[i]) /\ s.status = "settled"
      BY <1>2, <2>2, <3>1 DEF SettledEntry, SettledOK, HasLanded
    <3>3. /\ settled' = [settled EXCEPT ![i] = s]
          /\ settledDisk' \in {settledDisk, [settledDisk EXCEPT ![i] = s]}
      BY <2>2 DEF markSettled, persistSettled
    <3> HIDE DEF s
    <3>4. /\ settled' \in [Intent -> SettledEntry] /\ settledDisk' \in [Intent -> SettledEntry]
      BY <1>2, <3>2, <3>3
    <3>5. ASSUME NEW j \in Intent
          PROVE  settled'[j] \in {settled[j], s} /\ settledDisk'[j] \in {settledDisk[j], s}
                 /\ (j # i => settled'[j] = settled[j] /\ settledDisk'[j] = settledDisk[j])
      BY <1>2, <3>3
    <3>6. QED
      BY <1>3, <3>2, <3>4, <3>5
  <2>3. QED
    BY <2>1, <2>2 DEF BootSettling
<1>6. /\ arb' \in [Intent -> Entry] /\ arbDisk' \in [Intent -> Entry] /\ crashes' \in Nat
      /\ task' \in [Task -> TaskRecord] /\ bootTodo' \subseteq Intent
      /\ phase' = "settling" /\ phase' \in {"down", "settling", "mid", "resume", "up"}
      /\ \A j \in bootTodo' : settled'[j].status # "none"
  BY <1>1, <1>2, <1>4, <1>5
<1>7. \A j \in Intent : /\ EntryOK(arb'[j], intents[j], txs[j]) /\ EntryOK(arbDisk'[j], intents[j], txs[j])
                        /\ SettledOK(settled'[j], sigs[j]) /\ SettledOK(settledDisk'[j], sigs[j])
  BY <1>1, <1>3, <1>5
<1>8. QED
  BY <1>1, <1>4, <1>5, <1>6, <1>7, ProcessKeeps

\* What the chain says of a transaction in the middle of which the process stopped.
LEMMA BootMidTells ==
    ASSUME Inv, NEW i \in Intent, BootMid(i)
    PROVE  \E e \in Entry :
            /\ arb' = [arb EXCEPT ![i] = e] /\ arbDisk' \in {arbDisk, arb'}
            /\ EntryOK(e, intents[i], txs[i])
<1> DEFINE MidTx == CASE arb[i].stage = "posting_collateral" -> arb[i].collateralTx
                      [] arb[i].stage = "confirming" -> arb[i].confirmTx
                      [] OTHER -> arb[i].slashTx
           Or(hash) == IF hash = 0 THEN MidTx ELSE hash
           confirmed == [arb[i] EXCEPT !.stage = "confirmed", !.confirmTx = Or(@)]
           slashed == [arb[i] EXCEPT !.stage = "slashed", !.slashTx = Or(@)]
           posted == [arb[i] EXCEPT !.stage = "collateral_posted"]
           failed == [arb[i] EXCEPT !.stage = "collateral_failed"]
<1>1. /\ arb \in [Intent -> Entry] /\ arb[i] \in Entry /\ EntryOK(arb[i], intents[i], txs[i])
      /\ WireOK(intents[i], txs[i], sigs[i]) /\ txs[i] \in Txs
  BY DEF Inv, TypeOK, Txs, SettlementInv, EntryInv, WireInv
<1>2. /\ Len(txs[i]) \in Nat /\ DOMAIN txs[i] = 1 .. Len(txs[i])
      /\ arb[i].collateralTx \in 0 .. Len(txs[i]) /\ arb[i].confirmTx \in 0 .. Len(txs[i])
      /\ arb[i].slashTx \in 0 .. Len(txs[i])
  BY <1>1, Indices DEF EntryOK
<1>3. MidTx \in 0 .. Len(txs[i]) /\ Or(arb[i].confirmTx) \in 0 .. Len(txs[i]) /\ Or(arb[i].slashTx) \in 0 .. Len(txs[i])
  BY <1>2
<1>4. CASE UNCHANGED arbVars
  <2>1. arb' = [arb EXCEPT ![i] = arb[i]] /\ arbDisk' = arbDisk
    BY <1>1, <1>4 DEF arbVars
  <2>2. QED
    BY <1>1, <2>1
<1>5. CASE setArbitrumStage(i, confirmed) /\ intents[i].status = "Settled"
  <2>1. confirmed \in Entry /\ EntryOK(confirmed, intents[i], txs[i])
    <3> HIDE DEF MidTx, Or
    <3>1. Or(arb[i].confirmTx) \in Nat
      BY <1>2, <1>3
    <3>2. confirmed \in Entry /\ confirmed.stage = "confirmed" /\ confirmed.confirmTx = Or(arb[i].confirmTx)
          /\ confirmed.collateralTx = arb[i].collateralTx /\ confirmed.slashTx = arb[i].slashTx
      BY <1>1, <3>1 DEF Entry, ArbitrumStage
    <3> HIDE DEF confirmed
    <3>3. QED
      BY <1>2, <1>3, <1>5, <3>2 DEF EntryOK, LockedStage
  <2> HIDE DEF confirmed
  <2>2. QED
    BY <1>5, <2>1 DEF setArbitrumStage
<1>6. CASE setArbitrumStage(i, slashed) /\ intents[i].status = "Slashed"
  <2>1. slashed \in Entry /\ EntryOK(slashed, intents[i], txs[i])
    <3> HIDE DEF MidTx, Or
    <3>1. Or(arb[i].slashTx) \in Nat
      BY <1>2, <1>3
    <3>2. slashed \in Entry /\ slashed.stage = "slashed" /\ slashed.slashTx = Or(arb[i].slashTx)
          /\ slashed.collateralTx = arb[i].collateralTx /\ slashed.confirmTx = arb[i].confirmTx
      BY <1>1, <3>1 DEF Entry, ArbitrumStage
    <3> HIDE DEF slashed
    <3>3. QED
      BY <1>2, <1>3, <1>6, <3>2 DEF EntryOK, LockedStage
  <2> HIDE DEF slashed
  <2>2. QED
    BY <1>6, <2>1 DEF setArbitrumStage
<1>7. CASE arb[i].stage = "posting_collateral" /\ txs[i][MidTx].st = "success" /\ setArbitrumStage(i, posted)
  <2>1. /\ arb[i].collateralTx \in DOMAIN txs[i] /\ txs[i][arb[i].collateralTx].fn = "post"
        /\ txs[i][arb[i].collateralTx].from = arb[i].solver /\ txs[i][arb[i].collateralTx].st = "success"
    BY <1>1, <1>2, <1>7 DEF EntryOK
  <2>2. intents[i].solver = arb[i].solver /\ arb[i].solver \in Solver
    BY <1>1, <2>1 DEF WireOK
  <2>3. /\ posted \in Entry /\ posted.stage = "collateral_posted" /\ posted.solver = arb[i].solver
        /\ posted.collateralTx = arb[i].collateralTx /\ posted.confirmTx = arb[i].confirmTx
        /\ posted.slashTx = arb[i].slashTx
    BY <1>1 DEF Entry, ArbitrumStage
  <2> HIDE DEF posted
  <2>4. EntryOK(posted, intents[i], txs[i])
    BY <1>2, <2>2, <2>3 DEF EntryOK, LockedStage
  <2>5. QED
    BY <1>7, <2>3, <2>4 DEF setArbitrumStage
<1>8. CASE arb[i].stage = "posting_collateral" /\ txs[i][MidTx].st = "reverted" /\ setArbitrumStage(i, failed)
  <2>1. failed \in Entry /\ EntryOK(failed, intents[i], txs[i])
    BY <1>1, <1>2 DEF Entry, ArbitrumStage, EntryOK, LockedStage
  <2>2. QED
    BY <1>8, <2>1 DEF setArbitrumStage
<1>9. \E r \in ReadIntent(i) :
        \/ r.status = "Settled" /\ setArbitrumStage(i, confirmed)
        \/ r.status = "Slashed" /\ setArbitrumStage(i, slashed)
        \/ arb[i].stage = "posting_collateral" /\ txs[i][MidTx].st = "success" /\ setArbitrumStage(i, posted)
        \/ arb[i].stage = "posting_collateral" /\ txs[i][MidTx].st = "reverted" /\ setArbitrumStage(i, failed)
        \/ UNCHANGED arbVars
  BY DEF BootMid
<1> HIDE DEF confirmed, slashed, posted, failed, MidTx
<1>10. QED
  BY <1>4, <1>5, <1>6, <1>7, <1>8, <1>9, ReadIntentTells

LEMMA BootMidKeeps ==
    ASSUME Inv, NEW i \in Intent, BootMid(i)
    PROVE  Inv'
<1>1. /\ UNCHANGED <<chainVars, wireVars>> /\ UNCHANGED <<settled, settledDisk, task, phase, crashes>>
      /\ phase = "mid" /\ bootTodo' = bootTodo \ {i}
  BY DEF BootMid
<1>2. /\ arb \in [Intent -> Entry] /\ arbDisk \in [Intent -> Entry] /\ crashes \in Nat
      /\ settled \in [Intent -> SettledEntry] /\ settledDisk \in [Intent -> SettledEntry]
      /\ task \in [Task -> TaskRecord] /\ bootTodo \subseteq Intent
  BY DEF Inv, TypeOK
<1>3. \A j \in Intent : /\ EntryOK(arb[j], intents[j], txs[j]) /\ EntryOK(arbDisk[j], intents[j], txs[j])
                        /\ SettledOK(settled[j], sigs[j]) /\ SettledOK(settledDisk[j], sigs[j])
  BY DEF Inv, SettlementInv, EntryInv, SettledInv
<1>4. PICK e \in Entry :
        /\ arb' = [arb EXCEPT ![i] = e] /\ arbDisk' \in {arbDisk, arb'}
        /\ EntryOK(e, intents[i], txs[i])
  BY BootMidTells
<1>5. \A j \in Intent : /\ EntryOK(arb'[j], intents[j], txs[j]) /\ EntryOK(arbDisk'[j], intents[j], txs[j])
                        /\ SettledOK(settled'[j], sigs[j]) /\ SettledOK(settledDisk'[j], sigs[j])
  BY <1>1, <1>2, <1>3, <1>4
<1>6. \A t \in Task : task'[t].pc = "idle"
  BY <1>1 DEF Inv, SettlementInv, BootOK, At
<1>7. /\ arb' \in [Intent -> Entry] /\ arbDisk' \in [Intent -> Entry] /\ crashes' \in Nat
      /\ settled' \in [Intent -> SettledEntry] /\ settledDisk' \in [Intent -> SettledEntry]
      /\ task' \in [Task -> TaskRecord] /\ bootTodo' \subseteq Intent
      /\ phase' = "mid" /\ phase' \in {"down", "settling", "mid", "resume", "up"}
  BY <1>1, <1>2, <1>4
<1>8. QED
  BY <1>1, <1>5, <1>6, <1>7, ProcessKeeps

LEMMA BootNextPassKeeps ==
    ASSUME Inv, BootNextPass
    PROVE  Inv'
<1>1. /\ UNCHANGED <<chainVars, wireVars>>
      /\ UNCHANGED <<arb, arbDisk, settled, settledDisk, task, crashes>>
      /\ bootTodo = {} /\ task[Sequencer].pc = "idle" /\ phase # "down"
      /\ phase' \in {"mid", "resume", "up"} /\ (phase' = "up" => bootTodo' = {})
      /\ phase' # "up" => bootTodo' \subseteq Intent
      /\ phase' = "resume" => \A i \in bootTodo' : arb[i].stage = "collateral_posted"
      /\ phase \in {"settling", "mid", "resume"}
  BY DEF BootNextPass, ledgerVars, arbVars, At
<1>2. \A t \in Task : task'[t].pc = "idle"
  BY <1>1 DEF Inv, SettlementInv, BootOK, At
<1>3. /\ arb' \in [Intent -> Entry] /\ arbDisk' \in [Intent -> Entry] /\ crashes' \in Nat
      /\ settled' \in [Intent -> SettledEntry] /\ settledDisk' \in [Intent -> SettledEntry]
      /\ task' \in [Task -> TaskRecord] /\ bootTodo' \subseteq Intent
  BY <1>1 DEF Inv, TypeOK
<1>4. \A i \in Intent : /\ EntryOK(arb'[i], intents[i], txs[i]) /\ EntryOK(arbDisk'[i], intents[i], txs[i])
                        /\ SettledOK(settled'[i], sigs[i]) /\ SettledOK(settledDisk'[i], sigs[i])
  BY <1>1 DEF Inv, SettlementInv, EntryInv, SettledInv
<1>5. /\ phase' \in {"down", "settling", "mid", "resume", "up"} /\ phase' # "settling"
      /\ phase' = "resume" => \A i \in bootTodo' : arb'[i].stage = "collateral_posted"
  BY <1>1
<1>6. QED
  BY <1>1, <1>2, <1>3, <1>4, <1>5, ProcessKeeps

LEMMA BootResumeKeeps ==
    ASSUME Inv, NEW i \in Intent, BootResume(i)
    PROVE  Inv'
<1>1. /\ UNCHANGED <<chainVars, wireVars>> /\ UNCHANGED <<arb, arbDisk, settled, settledDisk, phase, crashes>>
      /\ phase = "resume" /\ i \in bootTodo /\ bootTodo' = bootTodo \ {i} /\ Sequencer \in Task
  BY DEF BootResume, ledgerVars, arbVars, Task
<1>2. UNCHANGED <<intents, txs, sigs>>
  BY <1>1 DEF chainVars, wireVars
<1>3. /\ \A t \in Task : t = Sequencer \/ task[t].pc = "idle"
      /\ \A j \in bootTodo : arb[j].stage = "collateral_posted"
  BY <1>1 DEF Inv, SettlementInv, BootOK, At
<1>4. /\ EntryOK(arb[i], intents[i], txs[i]) /\ SettledOK(settled[i], sigs[i])
      /\ arb[i] \in Entry /\ arb[i].stage = "collateral_posted" /\ settled[i] \in SettledEntry
      /\ task \in [Task -> TaskRecord] /\ bootTodo \subseteq Intent
  BY <1>1, <1>3 DEF Inv, TypeOK, SettlementInv, EntryInv, SettledInv
<1>5. intents[i].solver = arb[i].solver /\ arb[i].solver \in Solver
  BY <1>4 DEF EntryOK, LockedStage
<1>6. PICK pc \in Pc, s \in Solver \cup {NoAccount} :
        /\ Begin(Sequencer, pc, i, s, 0)
        /\ pc = "verify" \/ (pc = "cread" /\ settled[i].status = "settled")
  <2>1. {"verify", "cread"} \subseteq Pc
    BY DEF Pc
  <2>2. QED
    BY <1>5, <2>1 DEF BootResume
<1>7. PICK k \in TaskRecord :
        /\ task' = [task EXCEPT ![Sequencer] = k] /\ At(Sequencer, "idle")
        /\ k.pc = pc /\ k.intent = i
  <2>1. 0 \in Nat
    OBVIOUS
  <2>2. QED
    BY <1>1, <1>6, <2>1, Beginning
<1>8. TaskOK(Sequencer, k, arb[i], settled[i], intents[i], txs[i], sigs[i])
  BY <1>4, <1>5, <1>6, <1>7 DEF TaskOK, SettledOK, LockedStage, LockedPc, ConfirmPc
<1>9. Contract!EscrowInv' /\ Chain!TypeOK'
  BY <1>1, ChainFrame DEF Inv, TypeOK
<1>10. \A t \in Task : task'[t] = IF t = Sequencer THEN k ELSE task[t]
  BY <1>1, <1>4, <1>7
<1>11. TypeOK'
  <2>1. \A t \in Task : task'[t].pc = "idle" \/ task'[t].intent \in Intent
    BY <1>3, <1>7, <1>10
  <2>2. task' \in [Task -> TaskRecord] /\ bootTodo' \subseteq Intent
    BY <1>1, <1>4, <1>7
  <2>3. QED
    BY <1>1, <1>2, <1>9, <2>1, <2>2 DEF Inv, TypeOK, At
<1>12. WireInv' /\ EntryInv' /\ SettledInv'
  BY <1>1, <1>2 DEF Inv, SettlementInv, WireInv, EntryInv, SettledInv
<1>13. TaskInv'
  BY <1>1, <1>2, <1>3, <1>7, <1>8, <1>10 DEF TaskInv, At
<1>14. BootOK'
  BY <1>1, <1>3, <1>7, <1>10 DEF BootOK, At
<1>15. QED
  BY <1>9, <1>11, <1>12, <1>13, <1>14 DEF Inv, SettlementInv

----------------------------------------------------------------------------
(***************************************************************************)
(* The invariant.                                                          *)
(***************************************************************************)
LEMMA InitInv == Init => Inv
<1> SUFFICES ASSUME Init PROVE Inv
  OBVIOUS
<1>1. Contract!EscrowInv
  BY ContractStarts
<1>2. Chain!TypeOK
  BY <1>1, ContractTypes DEF Contract!EscrowInv
<1>3. /\ arb = [i \in Intent |-> NoEntry] /\ arbDisk = arb
      /\ settled = [i \in Intent |-> NotSettled] /\ settledDisk = settled
      /\ task = [t \in Task |-> Idle] /\ phase = "down" /\ bootTodo = {} /\ crashes = 0
      /\ txs = [i \in Intent |-> <<>>] /\ sigs = [i \in Intent |-> <<>>]
  BY DEF Init
<1>4. NoEntry \in Entry /\ NotSettled \in SettledEntry /\ Idle \in TaskRecord /\ Idle.pc = "idle"
  BY DEF NoEntry, NotSettled, Idle, Entry, SettledEntry, TaskRecord, ArbitrumStage, Pc
<1>5. <<>> \in Seq(Transaction) /\ <<>> \in Seq(Signature) /\ Len(<<>>) = 0
  BY EmptySeq
<1>6. TypeOK
  BY <1>2, <1>3, <1>4, <1>5 DEF TypeOK, At
<1>7. \A i \in Intent : /\ intents[i].owner = NoAccount /\ intents[i].status = "Pending"
                        /\ intents[i].solver = NoAccount
  BY DEF Init, Chain!InitWith, Chain!EmptyIntent, Intent
<1>8. WireInv
  BY <1>3, <1>7 DEF WireInv, WireOK
<1>9. EntryInv /\ SettledInv
  BY <1>3, <1>5 DEF EntryInv, EntryOK, SettledInv, SettledOK, NoEntry, NotSettled, LockedStage
<1>10. TaskInv /\ BootOK
  BY <1>3, <1>4 DEF TaskInv, BootOK, At
<1>11. QED
  BY <1>1, <1>6, <1>8, <1>9, <1>10 DEF Inv, SettlementInv

LEMMA ConfirmingKeeps ==
    ASSUME Inv, NEW t \in Task, Confirming(t) \/ TaskAborts(t)
    PROVE  Inv'
BY ConfirmReadKeeps, ConfirmSignKeeps, ReceiptKeeps, ConfirmFailsKeeps, EndingsKeep DEF Confirming

LEMMA SequencerKeeps ==
    ASSUME Inv, SequencerStep
    PROVE  Inv'
<1>1. Sequencer \in Task
  BY DEF Task
<1>2. QED
  BY <1>1, GateKeeps, PostSignKeeps, PostEndsKeep, PostSucceedsKeeps, VerifyKeeps, PayKeeps, ChildSignsKeeps,
     ChildSucceedsKeeps, ChildFailsKeeps, ConfirmingKeeps DEF SequencerStep

LEMMA PollerKeeps ==
    ASSUME Inv, NEW w \in Poller, PollerStep(w)
    PROVE  Inv'
<1>1. w \in Task
  BY DEF Task
<1>2. QED
  BY <1>1, PollStartKeeps, PollCheckKeeps, PollSigKeeps, SlashSignKeeps, ReceiptKeeps, EndingsKeep,
     ConfirmingKeeps DEF PollerStep

LEMMA ReconcilerKeeps ==
    ASSUME Inv, NEW w \in Reconciler, ReconcilerStep(w)
    PROVE  Inv'
<1>1. w \in Task
  BY DEF Task
<1>2. QED
  BY <1>1, ReconcileStartKeeps, ReconcileCheckKeeps, ReconcileResumeKeeps, ConfirmingKeeps DEF ReconcilerStep

LEMMA WireKeeps ==
    ASSUME Inv, Wire
    PROVE  Inv'
BY BroadcastKeeps, MineKeeps, PayoutMovesKeep DEF Wire

LEMMA BootStepKeeps ==
    ASSUME Inv, BootStep
    PROVE  Inv'
BY BootKeeps, BootNextPassKeeps, BootSettlingKeeps, BootMidKeeps, BootResumeKeeps DEF BootStep

LEMMA StutterKeeps ==
    ASSUME Inv, UNCHANGED vars
    PROVE  Inv'
<1>1. Contract!EscrowInv' /\ Chain!TypeOK'
  BY ChainFrame DEF Inv, TypeOK, vars
<1>2. UNCHANGED <<intents, txs, sigs, arb, arbDisk, settled, settledDisk, task, phase, bootTodo, crashes>>
  BY DEF vars, chainVars, ledgerVars, arbVars, bootVars, wireVars
<1>3. TypeOK'
  BY <1>1, <1>2 DEF Inv, TypeOK, At
<1>4. WireInv' /\ EntryInv' /\ SettledInv'
  BY <1>2 DEF Inv, SettlementInv, WireInv, EntryInv, SettledInv
<1>5. TaskInv' /\ BootOK'
  BY <1>2 DEF Inv, SettlementInv, TaskInv, BootOK, At
<1>6. QED
  BY <1>1, <1>3, <1>4, <1>5 DEF Inv, SettlementInv

LEMMA NextInv == Inv /\ [Next]_vars => Inv'
<1> SUFFICES ASSUME Inv, [Next]_vars PROVE Inv'
  OBVIOUS
<1>1. CASE UNCHANGED vars
  BY <1>1, StutterKeeps
<1>2. CASE Next
  BY <1>2, DispatchKeeps, SequencerKeeps, PollerKeeps, ReconcilerKeeps, WireKeeps, CrashKeeps, BootStepKeeps,
     OthersKeep, TickKeeps DEF Next
<1>3. QED
  BY <1>1, <1>2

LEMMA InvHolds == Spec => []Inv
BY InitInv, NextInv, PTL DEF Spec

\* The contract, the ledgers, the tasks and what was signed keep their types.
THEOREM TypeCorrect == Spec => []TypeOK
<1>1. Inv => TypeOK
  BY DEF Inv
<1>2. QED
  BY <1>1, InvHolds, PTL

\* What arbitrum_ledger.json and settled_intents.json assert is so on the chains, however many
\* tasks, crashes, lagging reads and failed writes there were.
THEOREM LedgersAreTrue == Spec => []LedgersTellTheTruth
<1>1. Inv => LedgersTellTheTruth
  <2> SUFFICES ASSUME Inv, NEW i \in Intent
               PROVE  /\ \A e \in {arb[i], arbDisk[i]} :
                          /\ e.stage = "confirmed" => intents[i].status = "Settled"
                          /\ e.stage = "slashed" => intents[i].status = "Slashed"
                          /\ e.stage \in {"collateral_posted", "confirming", "awaiting_expiry_slash", "slashing"}
                                  => intents[i].solver = e.solver
                      /\ "settled" \in {settled[i].status, settledDisk[i].status} => Landed(i)
    BY DEF LedgersTellTheTruth
  <2>1. \A e \in {arb[i], arbDisk[i]} : EntryOK(e, intents[i], txs[i])
    BY DEF Inv, SettlementInv, EntryInv
  <2>2. SettledOK(settled[i], sigs[i]) /\ SettledOK(settledDisk[i], sigs[i])
    BY DEF Inv, SettlementInv, SettledInv
  <2>3. HasLanded(sigs[i]) => Landed(i)
    BY DEF HasLanded, Landed
  <2>4. QED
    BY <2>1, <2>2, <2>3 DEF EntryOK, SettledOK, LockedStage
<1>2. QED
  BY <1>1, InvHolds, PTL

----------------------------------------------------------------------------
(***************************************************************************)
(* At most one payout, while the settled ledger's file can be written.     *)
(***************************************************************************)
\* No task but the one there already is about to start the child.
NoNewChild ==
    task'[Sequencer].pc = "child"
        => task[Sequencer].pc = "child" /\ task'[Sequencer].intent = task[Sequencer].intent

LEMMA NoChild ==
    ASSUME Inv, NEW t \in Task, NEW pc \in Pc \ {"child"},
           \/ Goto(t, pc) \/ Finish(t)
           \/ \E d : GotoAfterClock(t, pc, d)
           \/ \E i, s, ref : Begin(t, pc, i, s, ref)
           \/ \E fn, from : Sign(t, fn, from, pc)
           \/ UNCHANGED task
    PROVE  NoNewChild
<1>1. task \in [Task -> TaskRecord] /\ Sequencer \in Task
  BY DEF Inv, TypeOK, Task
<1>2. PICK i, ref, due, s : task' \in {task, [task EXCEPT ![t].pc = pc], [task EXCEPT ![t].pc = pc, ![t].due = due],
            [task EXCEPT ![t].pc = pc, ![t].ref = ref], [task EXCEPT ![t] = Idle],
            [task EXCEPT ![t] = [pc |-> pc, intent |-> i, solver |-> s, ref |-> ref, due |-> due]]}
  <2>1. CASE Goto(t, pc)
    BY <2>1 DEF Goto
  <2>2. CASE Finish(t) \/ UNCHANGED task
    BY <2>2 DEF Finish
  <2>3. ASSUME NEW d, GotoAfterClock(t, pc, d) PROVE task' = [task EXCEPT ![t].pc = pc, ![t].due = DueIn(d)]
    BY <2>3 DEF GotoAfterClock
  <2>4. ASSUME NEW i, NEW s, NEW ref, Begin(t, pc, i, s, ref)
        PROVE  task' = [task EXCEPT ![t] = [pc |-> pc, intent |-> i, solver |-> s, ref |-> ref, due |-> DueIn(0)]]
    BY <2>4 DEF Begin
  <2>5. ASSUME NEW fn, NEW from, Sign(t, fn, from, pc)
        PROVE  task' = [task EXCEPT ![t].pc = pc, ![t].ref = Len(txs[task[t].intent]) + 1]
    BY <2>5 DEF Sign
  <2>6. QED
    BY <2>1, <2>2, <2>3, <2>4, <2>5
<1>3. CASE t = Sequencer
  BY <1>1, <1>2, <1>3 DEF NoNewChild, Idle, TaskRecord
<1>4. CASE t # Sequencer
  BY <1>1, <1>2, <1>4 DEF NoNewChild
<1>5. QED
  BY <1>3, <1>4

\* Most steps of the tasks, and of the process, have nothing to do with a payout.
Quiet == UNCHANGED <<chainVars, settled, settledDisk, sigs>> /\ NoNewChild

LEMMA QuietTask ==
    ASSUME Inv, NEW t \in Task,
           \/ Confirming(t) \/ TaskAborts(t)
           \/ SlashSign(t) \/ SlashUnrecorded(t) \/ SlashSucceeds(t) \/ SlashFails(t)
           \/ PollCheck(t) \/ ReconcileResume(t)
           \/ \E i \in Intent : PollStart(t, i) \/ ReconcileStart(t, i)
    PROVE  Quiet
<1> DEFINE Pcs == {"cread", "csign", "cwait", "ssign", "swait", "psig", "pcheck", "rcheck"}
<1>1. Pcs \subseteq Pc \ {"child"}
  BY DEF Pc
<1>2. UNCHANGED <<chainVars, settled, settledDisk, sigs>>
  BY DEF Confirming, ConfirmRead, ConfirmSign, ConfirmUnrecorded, ConfirmSucceeds, ConfirmFails, TaskAborts,
         SlashSign, SlashUnrecorded, SlashSucceeds, SlashFails, PollCheck, ReconcileResume, PollStart,
         ReconcileStart, ledgerVars, wireVars
<1>3. \E pc \in Pcs :
        \/ Goto(t, pc) \/ Finish(t)
        \/ \E d : GotoAfterClock(t, pc, d)
        \/ \E i, s, ref : Begin(t, pc, i, s, ref)
        \/ \E fn, from : Sign(t, fn, from, pc)
  <2>1. CASE Confirming(t)
    BY <2>1 DEF Confirming, ConfirmRead, ConfirmSign, ConfirmUnrecorded, ConfirmSucceeds, ConfirmFails,
                setArbitrumStageAndEnd, RetryOrEnd
  <2>2. CASE TaskAborts(t) \/ SlashSign(t) \/ SlashUnrecorded(t) \/ SlashSucceeds(t) \/ SlashFails(t)
    BY <2>2 DEF TaskAborts, SlashSign, SlashUnrecorded, SlashSucceeds, SlashFails, setArbitrumStageAndEnd
  <2>3. CASE PollCheck(t) \/ ReconcileResume(t)
    BY <2>3 DEF PollCheck, ReconcileResume
  <2>4. CASE \E i \in Intent : PollStart(t, i) \/ ReconcileStart(t, i)
    BY <2>4 DEF PollStart, ReconcileStart
  <2>5. QED
    BY <2>1, <2>2, <2>3, <2>4
<1>4. NoNewChild
  BY <1>1, <1>3, NoChild
<1>5. QED
  BY <1>2, <1>4 DEF Quiet

LEMMA QuietSequencer ==
    ASSUME Inv,
           \/ \E i \in Intent : Dispatch(i) \/ BootResume(i)
           \/ Gate \/ PostSign \/ PostUnrecorded \/ PostFails \/ PostSucceeds \/ Verify
    PROVE  Quiet
<1> DEFINE Pcs == {"gate", "post", "postWait", "verify", "pay", "cread"}
<1>1. Pcs \subseteq Pc \ {"child"} /\ Sequencer \in Task
  BY DEF Pc, Task
<1>2. UNCHANGED <<chainVars, settled, settledDisk, sigs>>
  BY DEF Dispatch, BootResume, Gate, PostSign, PostUnrecorded, PostFails, PostSucceeds, Verify, ledgerVars, wireVars
<1>3. \E pc \in Pcs :
        \/ Goto(Sequencer, pc) \/ Finish(Sequencer)
        \/ \E d : GotoAfterClock(Sequencer, pc, d)
        \/ \E i, s, ref : Begin(Sequencer, pc, i, s, ref)
        \/ \E fn, from : Sign(Sequencer, fn, from, pc)
  <2>1. CASE \E i \in Intent : Dispatch(i) \/ BootResume(i)
    BY <2>1 DEF Dispatch, BootResume
  <2>2. CASE Gate \/ PostSign \/ PostUnrecorded \/ PostFails
    BY <2>2 DEF Gate, PostSign, PostUnrecorded, PostFails, setArbitrumStageAndEnd
  <2>3. CASE PostSucceeds \/ Verify
    BY <2>3 DEF PostSucceeds, Verify
  <2>4. QED
    BY <2>1, <2>2, <2>3
<1>4. NoNewChild
  BY <1>1, <1>3, NoChild
<1>5. QED
  BY <1>2, <1>4 DEF Quiet

LEMMA QuietProcess ==
    ASSUME Inv, Crash \/ BootNextPass \/ (\E i \in Intent : BootMid(i)) \/ (\E t \in Task : Broadcast(t)) \/ UNCHANGED vars
    PROVE  Quiet
<1>1. UNCHANGED <<chainVars, settled, settledDisk, sigs>>
  BY DEF Crash, BootNextPass, BootMid, Broadcast, vars, ledgerVars, wireVars
<1>2. UNCHANGED task \/ task' = [t \in Task |-> Idle]
  BY DEF Crash, BootNextPass, BootMid, Broadcast, vars
<1>3. NoNewChild
  BY <1>2 DEF NoNewChild, Idle, Task
<1>4. QED
  BY <1>1, <1>3 DEF Quiet

LEMMA OnceStays ==
    ASSUME Inv, OnceInv, UNCHANGED <<settled, settledDisk>>, \A i \in Intent : Len(sigs'[i]) = Len(sigs[i]),
           NoNewChild \/ (task'[Sequencer].pc = "child" => settled[task'[Sequencer].intent].status = "none")
    PROVE  OnceInv'
BY DEF OnceInv, NoNewChild, At

\* A payout already on record is recorded as settled.
LEMMA OnceMarks ==
    ASSUME Inv, OnceInv, DiskMayFail = FALSE, NEW i \in Intent, settled[i].status # "none", markSettled(i),
           UNCHANGED sigs, NoNewChild
    PROVE  OnceInv'
<1>1. /\ settled \in [Intent -> SettledEntry]
      /\ task[Sequencer].pc = "child" => task[Sequencer].intent \in Intent
  BY DEF Inv, TypeOK, Task, At
<1>2. /\ settled' = [settled EXCEPT ![i] = [settled[i] EXCEPT !.status = "settled"]]
      /\ settledDisk' = settled'
  BY DEF markSettled, persistSettled, OnceInv
<1>3. \A j \in Intent : /\ settled'[j].sig = settled[j].sig
                        /\ settled'[j].status = "none" <=> settled[j].status = "none"
  BY <1>1, <1>2 DEF SettledEntry
<1>4. ASSUME task'[Sequencer].pc = "child"
      PROVE  settled'[task'[Sequencer].intent].status = "none"
  <2>1. task[Sequencer].pc = "child" /\ task'[Sequencer].intent = task[Sequencer].intent
    BY <1>4 DEF NoNewChild
  <2>2. settled[task[Sequencer].intent].status = "none"
    BY <2>1 DEF OnceInv, At
  <2>3. QED
    BY <1>1, <1>3, <2>1, <2>2
<1>5. QED
  BY <1>2, <1>3, <1>4 DEF OnceInv, At

LEMMA PayOnce ==
    ASSUME Inv, OnceInv, Pay
    PROVE  OnceInv'
<1> DEFINE i == task[Sequencer].intent
<1>1. UNCHANGED <<settled, settledDisk, sigs>> /\ Sequencer \in Task /\ ~At(Sequencer, "idle")
      /\ {"cread", "pay", "gate"} \subseteq Pc \ {"child"}
  BY DEF Pay, wireVars, Task, At, Pc
<1>2. CASE Goto(Sequencer, "cread") \/ GotoAfterClock(Sequencer, "pay", 0) \/ Finish(Sequencer)
  BY <1>1, <1>2, NoChild, OnceStays
<1>3. CASE Goto(Sequencer, "child") /\ settled[i].status = "none"
  <2>1. task \in [Task -> TaskRecord]
    BY DEF Inv, TypeOK
  <2>2. task'[Sequencer].intent = i
    BY <1>1, <1>3, <2>1 DEF Goto, TaskRecord
  <2>3. QED
    BY <1>1, <1>3, <2>2, OnceStays
<1>4. i \in Intent /\ settled[i] \in SettledEntry
  BY <1>1, Running
<1>5. QED
  BY <1>2, <1>3, <1>4 DEF Pay, PayoutFailed, setArbitrumStageAndEnd, SettledEntry

LEMMA ChildSignsOnce ==
    ASSUME Inv, OnceInv, DiskMayFail = FALSE, ChildSigns
    PROVE  OnceInv'
<1> DEFINE i == task[Sequencer].intent
           s == [status |-> "settling", sig |-> Len(sigs[i]) + 1]
           sig == [st |-> "signed", until |-> now + SigValidity]
<1>1. /\ task[Sequencer].pc = "child" /\ Sequencer \in Task /\ ~At(Sequencer, "idle")
      /\ task \in [Task -> TaskRecord]
      /\ settled \in [Intent -> SettledEntry] /\ sigs \in [Intent -> Sigs]
  BY DEF ChildSigns, At, Task, Inv, TypeOK, Sigs
<1>2. i \in Intent /\ sigs[i] \in Sigs /\ sig \in Signature
  BY <1>1, Running, RecordTypes, SettlementAssumption DEF Inv, Signature, SigState
<1>3. Len(sigs[i]) = 0 /\ s.sig = 1 /\ s.status = "settling"
  BY <1>1, <1>2 DEF OnceInv, At
<1>4. Len(Append(sigs[i], sig)) = 1
  BY <1>2, <1>3, AppendProperties DEF Sigs
<1>5. /\ settled' = [settled EXCEPT ![i] = s] /\ settledDisk' = settled'
      /\ sigs' = [sigs EXCEPT ![i] = Append(sigs[i], sig)]
      /\ task'[Sequencer].pc = "childWait"
  BY <1>1 DEF ChildSigns, markSettling, persistSettled, OnceInv, TaskRecord
<1>6. \A j \in Intent : /\ Len(sigs'[j]) = settled'[j].sig /\ settled'[j].sig <= 1
                        /\ settled'[j].status = "none" <=> settled'[j].sig = 0
  BY <1>1, <1>2, <1>3, <1>4, <1>5 DEF OnceInv
<1>7. QED
  BY <1>5, <1>6 DEF OnceInv, At

LEMMA ChildFailsOnce ==
    ASSUME Inv, OnceInv, ChildFails
    PROVE  OnceInv'
<1> DEFINE i == task[Sequencer].intent
           n == task[Sequencer].ref
<1>1. task[Sequencer].pc \in {"child", "childWait"} /\ Sequencer \in Task /\ ~At(Sequencer, "idle")
  BY DEF ChildFails, At, Task
<1>2. /\ i \in Intent /\ sigs[i] \in Sigs /\ sigs \in [Intent -> Sigs]
      /\ TaskOK(Sequencer, task[Sequencer], arb[i], settled[i], intents[i], txs[i], sigs[i])
  BY <1>1, Running DEF Inv, TypeOK, Sigs
<1>3. UNCHANGED <<settled, settledDisk>> /\ "pay" \in Pc \ {"child"}
  BY DEF ChildFails, Pc
<1>4. GotoAfterClock(Sequencer, "pay", 0) \/ Finish(Sequencer)
  BY DEF ChildFails, PayoutFailed, setArbitrumStageAndEnd
<1>5. NoNewChild
  BY <1>1, <1>3, <1>4, NoChild
<1>6. \A j \in Intent : Len(sigs'[j]) = Len(sigs[j])
  <2>1. CASE At(Sequencer, "childWait") /\ sigs[i][n].st = "signed"
    <3>1. n \in DOMAIN sigs[i] /\ "dead" \in SigState
      BY <1>2, <2>1 DEF TaskOK, At, SigState
    <3>2. Len([sigs[i] EXCEPT ![n].st = "dead"]) = Len(sigs[i])
      BY <1>2, <2>1, <3>1, SigMoves
    <3>3. sigs' = [sigs EXCEPT ![i] = [sigs[i] EXCEPT ![n].st = "dead"]]
      BY <1>2, <2>1 DEF ChildFails
    <3>4. QED
      BY <1>2, <3>2, <3>3
  <2>2. QED
    BY <2>1 DEF ChildFails
<1>7. QED
  BY <1>3, <1>5, <1>6, OnceStays

LEMMA FoundOnce ==
    ASSUME Inv, OnceInv, DiskMayFail = FALSE,
           ChildSucceeds \/ (\E w \in Poller : PollSig(w)) \/ (\E w \in Reconciler : ReconcileCheck(w))
    PROVE  OnceInv'
<1>0. Sequencer \in Task /\ Poller \subseteq Task /\ Reconciler \subseteq Task
      /\ {"cread", "ssign", "rresume"} \subseteq Pc \ {"child"}
  BY DEF Task, Pc
<1>1. PICK t \in Task :
        /\ task[t].pc \in {"childWait", "psig", "rcheck"}
        /\ \/ markSettled(task[t].intent)
           \/ UNCHANGED <<settled, settledDisk>>
        /\ UNCHANGED sigs
        /\ \E pc \in {"cread", "ssign", "rresume"} : Goto(t, pc) \/ Finish(t)
  <2>1. CASE ChildSucceeds
    BY <1>0, <2>1 DEF ChildSucceeds, At, wireVars
  <2>2. ASSUME NEW w \in Poller, PollSig(w)
        PROVE  /\ task[w].pc = "psig" /\ UNCHANGED sigs
               /\ markSettled(task[w].intent) \/ UNCHANGED <<settled, settledDisk>>
               /\ \E pc \in {"cread", "ssign", "rresume"} : Goto(w, pc)
    BY <2>2 DEF PollSig, At, wireVars
  <2>3. ASSUME NEW w \in Reconciler, ReconcileCheck(w)
        PROVE  /\ task[w].pc = "rcheck" /\ UNCHANGED sigs
               /\ markSettled(task[w].intent) \/ UNCHANGED <<settled, settledDisk>>
               /\ \E pc \in {"cread", "ssign", "rresume"} : Goto(w, pc) \/ Finish(w)
    BY <2>3 DEF ReconcileCheck, At, wireVars
  <2>4. QED
    BY <1>0, <2>1, <2>2, <2>3
<1>2. NoNewChild
  BY <1>0, <1>1, NoChild
<1>3. CASE markSettled(task[t].intent)
  <2>1. ~At(t, "idle")
    BY <1>1 DEF At
  <2>2. task[t].intent \in Intent /\ settled[task[t].intent].status # "none"
    BY <1>1, <2>1, Running DEF TaskOK
  <2>3. QED
    BY <1>1, <1>2, <1>3, <2>2, OnceMarks
<1>4. CASE UNCHANGED <<settled, settledDisk>>
  BY <1>1, <1>2, <1>4, OnceStays
<1>5. QED
  BY <1>1, <1>3, <1>4

LEMMA BootOnce ==
    ASSUME Inv, OnceInv, DiskMayFail = FALSE, Boot \/ \E i \in Intent : BootSettling(i)
    PROVE  OnceInv'
<1>1. UNCHANGED <<sigs, task>> /\ NoNewChild
  BY DEF Boot, BootSettling, wireVars, NoNewChild
<1>2. CASE Boot
  <2>1. UNCHANGED <<settled, settledDisk>>
    BY <1>2 DEF Boot, OnceInv
  <2>2. QED
    BY <1>1, <2>1, OnceStays
<1>3. ASSUME NEW i \in Intent, BootSettling(i) PROVE OnceInv'
  <2>1. settled[i].status # "none"
    BY <1>3 DEF BootSettling, Inv, SettlementInv, BootOK
  <2>2. CASE UNCHANGED <<settled, settledDisk>>
    BY <1>1, <2>2, OnceStays
  <2>3. CASE markSettled(i)
    BY <1>1, <2>1, <2>3, OnceMarks
  <2>4. QED
    BY <1>3, <2>2, <2>3 DEF BootSettling
<1>4. QED
  BY <1>2, <1>3

\* On the chains a payout changes its state, none is added.
LEMMA ChainsOnce ==
    ASSUME Inv, OnceInv, Wire \/ Others \/ Tick
    PROVE  OnceInv'
<1>1. UNCHANGED <<settled, settledDisk, task>> /\ NoNewChild
  BY DEF Wire, Broadcast, Mine, ChildSends, PayoutLands, Others, Tick, ledgerVars, NoNewChild
<1>2. sigs \in [Intent -> Sigs]
  BY DEF Inv, TypeOK, Sigs
<1>3. CASE UNCHANGED sigs
  BY <1>1, <1>3, OnceStays
<1>4. ASSUME NEW i \in Intent, NEW n \in DOMAIN sigs[i], ChildSends(i, n) \/ PayoutLands(i, n)
      PROVE  OnceInv'
  <2>1. PICK st \in SigState : sigs' = [sigs EXCEPT ![i] = [sigs[i] EXCEPT ![n].st = st]]
    BY <1>2, <1>4 DEF ChildSends, PayoutLands, SigState
  <2>2. Len([sigs[i] EXCEPT ![n].st = st]) = Len(sigs[i])
    <3>1. sigs[i] \in Sigs /\ sigs[i][n].st # "landed"
      BY <1>2, <1>4 DEF ChildSends, PayoutLands
    <3>2. QED
      BY <3>1, SigMoves
  <2>3. \A j \in Intent : Len(sigs'[j]) = Len(sigs[j])
    BY <1>2, <2>1, <2>2
  <2>4. QED
    BY <1>1, <2>3, OnceStays
<1>5. QED
  BY <1>3, <1>4 DEF Wire, Broadcast, Mine, Others, Tick, wireVars

LEMMA QuietOnce ==
    ASSUME Inv, OnceInv, Quiet
    PROVE  OnceInv'
BY OnceStays DEF Quiet

\* The steps, by what they have to do with payouts.
Paying ==
    \/ Pay \/ ChildSigns \/ ChildFails \/ ChildSucceeds
    \/ (\E w \in Poller : PollSig(w)) \/ (\E w \in Reconciler : ReconcileCheck(w))
    \/ Boot \/ (\E i \in Intent : BootSettling(i))

LEMMA StepKinds ==
    ASSUME Inv, [Next]_vars
    PROVE  Quiet \/ Paying \/ Wire \/ Others \/ Tick
<1>1. CASE UNCHANGED vars
  BY <1>1, QuietProcess
<1>2. ASSUME NEW i \in Intent, Dispatch(i) PROVE Quiet
  BY <1>2, QuietSequencer
<1>3. CASE SequencerStep
  <2>1. Sequencer \in Task
    BY DEF Task
  <2>2. QED
    BY <1>3, <2>1, QuietSequencer, QuietTask DEF SequencerStep, Paying
<1>4. ASSUME NEW w \in Poller, PollerStep(w) PROVE Quiet \/ Paying
  <2>1. w \in Task
    BY DEF Task
  <2>2. QED
    BY <1>4, <2>1, QuietTask DEF PollerStep, Paying
<1>5. ASSUME NEW w \in Reconciler, ReconcilerStep(w) PROVE Quiet \/ Paying
  <2>1. w \in Task
    BY DEF Task
  <2>2. QED
    BY <1>5, <2>1, QuietTask DEF ReconcilerStep, Paying
<1>6. CASE Crash \/ BootStep
  BY <1>6, QuietProcess, QuietSequencer DEF BootStep, Paying
<1>7. QED
  BY <1>1, <1>2, <1>3, <1>4, <1>5, <1>6 DEF Next

LEMMA NextOnce ==
    ASSUME DiskMayFail = FALSE, Inv, OnceInv, [Next]_vars
    PROVE  OnceInv'
BY StepKinds, QuietOnce, PayOnce, ChildSignsOnce, ChildFailsOnce, FoundOnce, BootOnce, ChainsOnce DEF Paying

LEMMA InitOnce == Init => OnceInv
<1> SUFFICES ASSUME Init PROVE OnceInv
  OBVIOUS
<1>1. /\ settled = [i \in Intent |-> NotSettled] /\ settledDisk = settled
      /\ task = [t \in Task |-> Idle] /\ sigs = [i \in Intent |-> <<>>] /\ Sequencer \in Task
  BY DEF Init, Task
<1>2. Len(<<>>) = 0
  BY EmptySeq
<1>3. QED
  BY <1>1, <1>2 DEF OnceInv, NotSettled, Idle, At

LEMMA OnceHolds == DiskMayFail = FALSE => (Spec => []OnceInv)
<1> SUFFICES ASSUME DiskMayFail = FALSE PROVE Spec => []OnceInv
  OBVIOUS
<1>1. Inv /\ OnceInv /\ [Next]_vars => OnceInv'
  BY NextOnce
<1>2. QED
  BY <1>1, InitOnce, InvHolds, PTL DEF Spec

\* A signature that may still land, or has landed, is in settled_intents.json: whatever
\* a crash leaves, the next boot finds it there.
THEOREM PayoutsAreOnRecord == DiskMayFail = FALSE => (Spec => []NoUnrecordedPayout)
<1> SUFFICES ASSUME DiskMayFail = FALSE PROVE Spec => []NoUnrecordedPayout
  OBVIOUS
<1>1. Inv /\ OnceInv => NoUnrecordedPayout
  <2> SUFFICES ASSUME Inv, OnceInv, NEW i \in Intent, NEW n \in DOMAIN sigs[i]
               PROVE  settledDisk[i].sig = n
    BY DEF NoUnrecordedPayout
  <2>1. Len(sigs[i]) \in Nat /\ DOMAIN sigs[i] = 1 .. Len(sigs[i])
    BY Indices DEF Inv, TypeOK, Sigs
  <2>2. QED
    BY <2>1 DEF OnceInv
<1>2. QED
  BY <1>1, InvHolds, OnceHolds, PTL

----------------------------------------------------------------------------
(***************************************************************************)
(* The settlement implements CrossChainSwap.                               *)
(***************************************************************************)
Landings(sl) == {n \in DOMAIN sl : sl[n].st = "landed"}

\* Nothing that the abstract specification knows of changes.
LEMMA SwapStutters ==
    ASSUME UNCHANGED intents, \A i \in Intent : Landings(sigs'[i]) = Landings(sigs[i])
    PROVE  UNCHANGED Swap!swapVars
<1>1. \A i \in Intent : Payouts(i)' = Payouts(i)
  BY DEF Payouts, Landings
<1>2. \A i \in Intent : EscrowState(i)' = EscrowState(i)
  BY DEF EscrowState, Chain!Exists
<1>3. [i \in Intent |-> EscrowState(i)]' = [i \in Intent |-> EscrowState(i)]
  BY <1>2
<1>4. [i \in Intent |-> Payouts(i)]' = [i \in Intent |-> Payouts(i)]
  BY <1>1
<1>5. [i \in Intent |-> {intents[i].solver} \ {NoAccount}]' = [i \in Intent |-> {intents[i].solver} \ {NoAccount}]
  OBVIOUS
<1>6. QED
  BY <1>3, <1>4, <1>5 DEF Swap!swapVars

\* The record of one intent changes: so does its escrow.
LEMMA SwapMoves ==
    ASSUME NEW i \in Intent, OnlyRecord(i), UNCHANGED sigs
    PROVE  /\ [j \in Intent |-> EscrowState(j)]' = [[j \in Intent |-> EscrowState(j)] EXCEPT ![i] = EscrowState(i)']
           /\ [j \in Intent |-> {intents[j].solver} \ {NoAccount}]'
                = [[j \in Intent |-> {intents[j].solver} \ {NoAccount}] EXCEPT ![i] = {intents'[i].solver} \ {NoAccount}]
           /\ [j \in Intent |-> Payouts(j)]' = [j \in Intent |-> Payouts(j)]
<1>1. \A j \in Intent : j # i => EscrowState(j)' = EscrowState(j) /\ intents'[j].solver = intents[j].solver
  BY DEF OnlyRecord, EscrowState, Chain!Exists
<1>2. \A j \in Intent : Payouts(j)' = Payouts(j)
  BY DEF Payouts
<1>3. QED
  BY <1>1, <1>2

LEMMA OpenSwaps ==
    ASSUME NEW i \in Intent, Opens(i), UNCHANGED sigs
    PROVE  Swap!Next
<1>1. EscrowState(i) = "none" /\ EscrowState(i)' = "open" /\ intents'[i].solver = intents[i].solver
  BY DEF Opens, EscrowState, Chain!Exists
<1>2. Swap!Open(i)
  BY <1>1, SwapMoves DEF Opens, Swap!Open
<1>3. QED
  BY <1>2 DEF Swap!Next

LEMMA LockSwaps ==
    ASSUME NEW i \in Intent, NEW s \in Solver \cup Rival, NoAccount \notin Solver \cup Rival, Locks(i, s), UNCHANGED sigs
    PROVE  Swap!Next
<1>1. EscrowState(i) = "open" /\ EscrowState(i)' = "locked" /\ {intents'[i].solver} \ {NoAccount} = {s}
  BY DEF Locks, EscrowState, Chain!Exists
<1>2. Swap!Lock(i, s)
  BY <1>1, SwapMoves DEF Locks, Swap!Lock
<1>3. QED
  BY <1>2 DEF Swap!Next

LEMMA ReturnSwaps ==
    ASSUME NEW i \in Intent, NEW status \in {"Slashed", "Expired", "Refunded"}, Closes(i, status),
           intents[i].owner # NoAccount, UNCHANGED sigs
    PROVE  Swap!Next
<1>1. /\ EscrowState(i) \in {"open", "locked"} /\ EscrowState(i)' = "returned"
      /\ intents'[i].solver = intents[i].solver
  BY DEF Closes, EscrowState, Chain!Exists
<1>2. Swap!Return(i)
  BY <1>1, SwapMoves DEF Closes, Swap!Return
<1>3. QED
  BY <1>2 DEF Swap!Next

LEMMA OneLanding ==
    ASSUME NEW sl \in Sigs, Len(sl) <= 1
    PROVE  /\ DOMAIN sl \subseteq {1}
           /\ Cardinality(Landings(sl)) = IF HasLanded(sl) THEN 1 ELSE 0
<1>1. DOMAIN sl \subseteq {1}
  BY Indices
<1>2. Landings(sl) = IF HasLanded(sl) THEN {1} ELSE {}
  BY <1>1 DEF Landings, HasLanded
<1>3. QED
  BY <1>1, <1>2, FS_EmptySet, FS_Singleton

LEMMA OnePayout ==
    ASSUME Inv, OnceInv, NEW i \in Intent
    PROVE  /\ sigs \in [Intent -> Sigs] /\ Len(sigs[i]) <= 1 /\ DOMAIN sigs[i] \subseteq {1}
           /\ Payouts(i) = IF HasLanded(sigs[i]) THEN 1 ELSE 0
<1>1. sigs \in [Intent -> Sigs] /\ sigs[i] \in Sigs /\ settled \in [Intent -> SettledEntry]
  BY DEF Inv, TypeOK, Sigs
<1>2. Len(sigs[i]) <= 1
  BY <1>1, Indices DEF OnceInv
<1>3. Payouts(i) = Cardinality(Landings(sigs[i]))
  BY DEF Payouts, Landings
<1>4. QED
  BY <1>1, <1>2, <1>3, OneLanding

LEMMA ReleaseSwaps ==
    ASSUME Inv, OnceInv, NEW i \in Intent, Closes(i, "Settled"), intents[i].solver # NoAccount,
           HasLanded(sigs[i]), UNCHANGED sigs
    PROVE  Swap!Next
<1>1. intents[i].owner # NoAccount
  BY DEF Inv, SettlementInv, WireInv, WireOK
<1>2. EscrowState(i) = "locked" /\ EscrowState(i)' = "released" /\ intents'[i].solver = intents[i].solver
  BY <1>1 DEF Closes, EscrowState, Chain!Exists
<1>3. Payouts(i) = 1
  BY OnePayout
<1>4. Swap!Release(i)
  BY <1>2, <1>3, SwapMoves DEF Closes, Swap!Release
<1>5. QED
  BY <1>4 DEF Swap!Next

LEMMA DeliverSwaps ==
    ASSUME Inv, OnceInv, NEW i \in Intent, NEW n \in DOMAIN sigs[i], PayoutLands(i, n)
    PROVE  Swap!Next
<1>1. /\ sigs \in [Intent -> Sigs] /\ sigs[i] \in Sigs /\ NoAccount \notin Solver
      /\ WireOK(intents[i], txs[i], sigs[i])
  BY RecordTypes DEF Inv, TypeOK, Sigs, SettlementInv, WireInv
<1>2. n = 1 /\ ~HasLanded(sigs[i])
  BY OnePayout DEF PayoutLands, HasLanded
<1>3. /\ UNCHANGED intents /\ sigs' = [sigs EXCEPT ![i] = [sigs[i] EXCEPT ![n].st = "landed"]]
      /\ sigs[i] # <<>>
  BY <1>1 DEF PayoutLands, chainVars
<1>4. \A j \in Intent : Payouts(j)' = IF j = i THEN 1 ELSE Payouts(j)
  <2>1. HasLanded(sigs'[i])
    <3>1. "landed" \in SigState /\ sigs[i][n].st # "landed"
      BY DEF SigState, PayoutLands
    <3>2. /\ [sigs[i] EXCEPT ![n].st = "landed"][n].st = "landed"
          /\ Len([sigs[i] EXCEPT ![n].st = "landed"]) = Len(sigs[i])
          /\ [sigs[i] EXCEPT ![n].st = "landed"] \in Sigs
      BY <1>1, <3>1, SigMoves
    <3>3. n \in DOMAIN [sigs[i] EXCEPT ![n].st = "landed"]
      BY <1>1, <3>2, Indices
    <3>4. sigs'[i] = [sigs[i] EXCEPT ![n].st = "landed"]
      BY <1>1, <1>3
    <3>5. QED
      BY <3>2, <3>3, <3>4 DEF HasLanded
  <2>2. Payouts(i)' = 1
    <3>1. sigs'[i] \in Sigs /\ Len(sigs'[i]) <= 1
      <4>1. sigs'[i] = [sigs[i] EXCEPT ![n].st = "landed"]
        BY <1>1, <1>3
      <4>2. "landed" \in SigState /\ sigs[i][n].st # "landed"
        BY DEF SigState, PayoutLands
      <4>3. QED
        BY <1>1, <4>1, <4>2, SigMoves, OnePayout
    <3>2. Payouts(i)' = Cardinality(Landings(sigs'[i]))
      BY DEF Payouts, Landings
    <3>3. QED
      BY <2>1, <3>1, <3>2, OneLanding
  <2>3. \A j \in Intent : j # i => Payouts(j)' = Payouts(j)
    BY <1>1, <1>3 DEF Payouts
  <2>4. QED
    BY <2>2, <2>3
<1>5. Payouts(i) = 0
  BY <1>2, OnePayout
<1>6. intents[i].solver \in Solver /\ intents[i].owner # NoAccount /\ intents[i].status # "Settled"
  BY <1>1, <1>2, <1>3 DEF WireOK
<1>7. EscrowState(i) \in {"locked", "returned"} /\ {intents[i].solver} \ {NoAccount} = {intents[i].solver}
  BY <1>1, <1>6 DEF EscrowState, Chain!Exists
<1>8. [j \in Intent |-> Payouts(j)]' = [[j \in Intent |-> Payouts(j)] EXCEPT ![i] = 1]
  BY <1>4
<1>9. [j \in Intent |-> EscrowState(j)]' = [j \in Intent |-> EscrowState(j)]
  BY <1>3 DEF EscrowState, Chain!Exists
<1>10. [j \in Intent |-> {intents[j].solver} \ {NoAccount}]' = [j \in Intent |-> {intents[j].solver} \ {NoAccount}]
  BY <1>3
<1>11. Swap!Deliver(i)
  BY <1>5, <1>6, <1>7, <1>8, <1>9, <1>10 DEF Swap!Deliver
<1>12. QED
  BY <1>11 DEF Swap!Next

\* A payout that is signed, given up or sent has not landed.
LEMMA NotLanding ==
    ASSUME Inv, OnceInv, Paying \/ \E i \in Intent : \E n \in DOMAIN sigs[i] : ChildSends(i, n)
    PROVE  UNCHANGED intents /\ \A i \in Intent : Landings(sigs'[i]) = Landings(sigs[i])
<1>1. UNCHANGED intents
  BY DEF Paying, Pay, ChildSigns, ChildFails, ChildSucceeds, PollSig, ReconcileCheck, Boot, BootSettling,
         ChildSends, chainVars
<1>2. sigs \in [Intent -> Sigs]
  BY DEF Inv, TypeOK, Sigs
<1>3. ASSUME NEW i \in Intent, NEW n \in DOMAIN sigs[i], NEW st \in SigState \ {"landed"}, sigs[i][n].st # "landed",
             sigs' = [sigs EXCEPT ![i][n].st = st]
      PROVE  \A j \in Intent : Landings(sigs'[j]) = Landings(sigs[j])
  <2> DEFINE sl == [sigs[i] EXCEPT ![n].st = st]
  <2>1. /\ sl \in Sigs /\ Len(sl) = Len(sigs[i])
        /\ \A m \in DOMAIN sigs[i] : sl[m].st = IF m = n THEN st ELSE sigs[i][m].st
    BY <1>2, <1>3, SigMoves, ZenonT(60)
  <2>2. DOMAIN sl = DOMAIN sigs[i]
    OBVIOUS
  <2>3. sigs' = [sigs EXCEPT ![i] = sl]
    BY <1>3
  <2> HIDE DEF sl
  <2>4. Landings(sl) = Landings(sigs[i])
    BY <1>3, <2>1, <2>2 DEF Landings
  <2>5. QED
    BY <1>2, <2>3, <2>4
<1>4. CASE ChildSigns
  <2> DEFINE i == task[Sequencer].intent
             sig == [st |-> "signed", until |-> now + SigValidity]
             sl == Append(sigs[i], sig)
  <2>1. i \in Intent /\ sigs[i] \in Sigs
    BY <1>4, Running DEF ChildSigns, At, Task
  <2>2. sig \in Signature /\ sig.st = "signed"
    BY RecordTypes, SettlementAssumption DEF Inv, Signature, SigState
  <2>3. /\ Len(sigs[i]) \in Nat /\ DOMAIN sigs[i] = 1 .. Len(sigs[i]) /\ DOMAIN sl = 1 .. Len(sigs[i]) + 1
        /\ \A m \in 1 .. Len(sigs[i]) : sl[m] = sigs[i][m]
        /\ sl[Len(sigs[i]) + 1] = sig
    BY <2>1, <2>2, Indices, AppendProperties, LenProperties DEF Sigs
  <2>4. sigs' = [sigs EXCEPT ![i] = sl]
    BY <1>4 DEF ChildSigns
  <2> HIDE DEF sl, sig, i
  <2>5. \A m \in DOMAIN sl : m \in DOMAIN sigs[i] \/ m = Len(sigs[i]) + 1
    BY <2>3
  <2>6. Landings(sl) = Landings(sigs[i])
    BY <2>2, <2>3, <2>5 DEF Landings
  <2>7. QED
    BY <1>1, <1>2, <2>1, <2>4, <2>6
<1>5. CASE ChildFails
  <2> DEFINE i == task[Sequencer].intent
             n == task[Sequencer].ref
  <2>1. CASE At(Sequencer, "childWait") /\ sigs[i][n].st = "signed"
    <3>1. i \in Intent /\ n \in DOMAIN sigs[i] /\ "dead" \in SigState \ {"landed"}
      BY <2>1, Running DEF At, Task, TaskOK, SigState
    <3>2. sigs' = [sigs EXCEPT ![i][n].st = "dead"]
      BY <1>5, <2>1 DEF ChildFails
    <3>3. QED
      BY <1>1, <1>3, <2>1, <3>1, <3>2
  <2>2. QED
    BY <1>1, <1>5, <2>1 DEF ChildFails
<1>6. ASSUME NEW i \in Intent, NEW n \in DOMAIN sigs[i], ChildSends(i, n)
      PROVE  \A j \in Intent : Landings(sigs'[j]) = Landings(sigs[j])
  <2>1. "sent" \in SigState \ {"landed"} /\ sigs[i][n].st # "landed"
    BY <1>6 DEF ChildSends, SigState
  <2>2. sigs' = [sigs EXCEPT ![i][n].st = "sent"]
    BY <1>6 DEF ChildSends
  <2>3. QED
    BY <1>3, <2>1, <2>2
<1>7. CASE UNCHANGED sigs
  BY <1>1, <1>7
<1>8. QED
  BY <1>1, <1>4, <1>5, <1>6, <1>7
     DEF Paying, Pay, ChildSucceeds, PollSig, ReconcileCheck, Boot, BootSettling, wireVars

LEMMA MineSwaps ==
    ASSUME Inv, OnceInv, NEW i \in Intent, NEW n \in DOMAIN txs[i], Mine(i, n)
    PROVE  Swap!Next \/ UNCHANGED Swap!swapVars
<1>1. PICK result \in {"success", "reverted"} :
        /\ UNCHANGED sigs
        /\ \/ result = "reverted" /\ UNCHANGED chainVars
           \/ result = "success" /\ txs[i][n].fn = "post" /\ Locks(i, txs[i][n].from)
           \/ /\ result = "success" /\ txs[i][n].fn = "confirm" /\ Closes(i, "Settled")
              /\ intents[i].solver # NoAccount
           \/ /\ result = "success" /\ txs[i][n].fn = "slash" /\ Closes(i, "Slashed")
              /\ intents[i].solver # NoAccount
  BY MineTells
<1>2. WireOK(intents[i], txs[i], sigs[i]) /\ NoAccount \notin Solver \cup Rival
  BY RecordTypes DEF Inv, SettlementInv, WireInv
<1>3. CASE UNCHANGED chainVars
  BY <1>1, <1>3, SwapStutters DEF chainVars
<1>4. CASE txs[i][n].fn = "post" /\ Locks(i, txs[i][n].from)
  <2>1. txs[i][n].from \in Solver \cup Rival
    BY <1>2, <1>4 DEF WireOK
  <2>2. QED
    BY <1>1, <1>2, <1>4, <2>1, LockSwaps
<1>5. CASE txs[i][n].fn = "confirm" /\ Closes(i, "Settled") /\ intents[i].solver # NoAccount
  <2>1. HasLanded(sigs[i])
    BY <1>2, <1>5 DEF WireOK
  <2>2. QED
    BY <1>1, <1>5, <2>1, ReleaseSwaps
<1>6. CASE Closes(i, "Slashed") /\ intents[i].solver # NoAccount
  <2>1. intents[i].owner # NoAccount
    BY <1>2, <1>6 DEF WireOK
  <2>2. QED
    BY <1>1, <1>6, <2>1, ReturnSwaps
<1>7. QED
  BY <1>1, <1>3, <1>4, <1>5, <1>6

LEMMA SwapStep ==
    ASSUME Inv, OnceInv, [Next]_vars
    PROVE  [Swap!Next]_(Swap!swapVars)
<1>1. CASE Quiet
  BY <1>1, SwapStutters DEF Quiet, chainVars
<1>2. CASE Paying
  BY <1>2, NotLanding, SwapStutters
<1>3. CASE Wire
  <2>1. ASSUME NEW t \in Task, Broadcast(t) PROVE UNCHANGED Swap!swapVars
    BY <2>1, SwapStutters DEF Broadcast, chainVars
  <2>2. ASSUME NEW i \in Intent, NEW n \in DOMAIN sigs[i], ChildSends(i, n) PROVE UNCHANGED Swap!swapVars
    BY <2>2, NotLanding, SwapStutters
  <2>3. QED
    BY <1>3, <2>1, <2>2, MineSwaps, DeliverSwaps DEF Wire
<1>4. CASE Others
  <2>1. UNCHANGED sigs /\ NoAccount \notin Solver \cup Rival
    BY <1>4, OthersTell, RecordTypes DEF wireVars, Inv
  <2>2. PICK i \in Intent :
            \/ Opens(i)
            \/ \E s \in Rival : Locks(i, s)
            \/ Closes(i, "Expired") /\ intents[i].owner # NoAccount
            \/ Closes(i, "Refunded") /\ intents[i].owner # NoAccount
    BY <1>4, OthersTell
  <2>3. CASE Opens(i)
    BY <2>1, <2>3, OpenSwaps
  <2>4. CASE \E s \in Rival : Locks(i, s)
    BY <2>1, <2>4, LockSwaps
  <2>5. CASE Closes(i, "Expired") /\ intents[i].owner # NoAccount
    BY <2>1, <2>5, ReturnSwaps
  <2>6. CASE Closes(i, "Refunded") /\ intents[i].owner # NoAccount
    BY <2>1, <2>6, ReturnSwaps
  <2>7. QED
    BY <2>2, <2>3, <2>4, <2>5, <2>6
<1>5. CASE Tick
  BY <1>5, SwapStutters DEF Tick, Chain!Tick, Chain!contractVars, wireVars
<1>6. QED
  BY <1>1, <1>2, <1>3, <1>4, <1>5, StepKinds

LEMMA SwapStarts == Init => Swap!Init
<1> SUFFICES ASSUME Init PROVE Swap!Init
  OBVIOUS
<1>1. \A i \in Intent : intents[i].owner = NoAccount /\ intents[i].solver = NoAccount
  BY DEF Init, Chain!InitWith, Chain!EmptyIntent, Intent
<1>2. \A i \in Intent : EscrowState(i) = "none" /\ {intents[i].solver} \ {NoAccount} = {}
  BY <1>1 DEF EscrowState, Chain!Exists
<1>3. \A i \in Intent : Payouts(i) = 0
  <2> SUFFICES ASSUME NEW i \in Intent PROVE Payouts(i) = 0
    OBVIOUS
  <2>1. sigs[i] = <<>>
    BY DEF Init
  <2>2. Landings(sigs[i]) = {}
    BY <2>1 DEF Landings
  <2>3. QED
    BY <2>2, FS_EmptySet DEF Payouts, Landings
<1>4. QED
  BY <1>2, <1>3 DEF Swap!Init

\* Through crashes, lost answers, lagging nodes, failed writes of the Arbitrum ledger and
\* overlapping pollers the settlement keeps CrossChainSwap's promise: one payout at most, for
\* a lock one of our solvers holds, and no release of the escrow before it landed.
THEOREM SettlementIsASwap == DiskMayFail = FALSE => (Spec => ImplementsSwap)
<1> SUFFICES ASSUME DiskMayFail = FALSE PROVE Spec => ImplementsSwap
  OBVIOUS
<1>1. Inv /\ OnceInv /\ [Next]_vars => [Swap!Next]_(Swap!swapVars)
  BY SwapStep
<1>2. QED
  BY <1>1, SwapStarts, InvHolds, OnceHolds, PTL DEF Spec, ImplementsSwap, Swap!Spec

\* ... and so never pays a destination twice.
THEOREM PaysOnce == DiskMayFail = FALSE => (Spec => []NeverPaidTwice)
<1> SUFFICES ASSUME DiskMayFail = FALSE PROVE Spec => []NeverPaidTwice
  OBVIOUS
<1>1. Inv /\ OnceInv => NeverPaidTwice
  BY OnePayout DEF NeverPaidTwice
<1>2. QED
  BY <1>1, InvHolds, OnceHolds, PTL

----------------------------------------------------------------------------
(***************************************************************************)
(* The clock, until the process first crashes.                             *)
(***************************************************************************)
Slashing(i) == intents[i].status = "Slashed" \/ \E n \in DOMAIN txs[i] : txs[i][n].fn = "slash"

LEMMA PayingLeavesChain ==
    ASSUME Paying
    PROVE  UNCHANGED chainVars /\ UNCHANGED crashes
BY DEF Paying, Pay, ChildSigns, ChildFails, ChildSucceeds, PollSig, ReconcileCheck, Boot, BootSettling, bootVars

LEMMA CallsTakeNoTime ==
    ASSUME NEW i \in Intent, NEW a, NEW v,
           \/ Chain!postCollateral(a, i, v) \/ Chain!confirmSettlement(a, i) \/ Chain!slashSolver(a, i)
           \/ Chain!cancelIntent(a, i) \/ Chain!claimRefund(a, i) \/ Chain!Submit(a)
    PROVE  now' = now
BY DEF Chain!postCollateral, Chain!confirmSettlement, Chain!slashSolver, Chain!cancelIntent, Chain!claimRefund,
       Chain!Submit, Chain!submitIntent

\* What a step does to the clock and to the records of open intents.
LEMMA StepTells ==
    ASSUME Inv, [Next]_vars
    PROVE  /\ now \in Nat /\ now' \in Nat /\ now <= now'
           /\ now' = now \/ (Tick /\ now' = now + 1 /\ now < MaxTime)
           /\ \A i \in Intent : /\ intents[i].owner # NoAccount =>
                                    intents'[i].owner = intents[i].owner /\ intents'[i].expiry = intents[i].expiry
                                /\ intents'[i].status = "Slashed" => Slashing(i)
<1>1. now \in Nat /\ NoAccount \notin Solver \cup Rival
  BY RecordTypes DEF Inv
<1>2. CASE UNCHANGED chainVars
  BY <1>1, <1>2 DEF chainVars, Slashing
<1>3. ASSUME NEW i \in Intent, NEW n \in DOMAIN txs[i], Mine(i, n)
      PROVE  /\ now' = now
             /\ \A j \in Intent : /\ intents[j].owner # NoAccount =>
                                        intents'[j].owner = intents[j].owner /\ intents'[j].expiry = intents[j].expiry
                                  /\ intents'[j].status = "Slashed" => Slashing(j)
  <2>1. now' = now
    BY <1>3, CallsTakeNoTime DEF Mine, chainVars
  <2>2. CASE UNCHANGED chainVars
    BY <2>1, <2>2 DEF chainVars, Slashing
  <2>3. CASE Locks(i, txs[i][n].from)
    BY <2>1, <2>3 DEF Locks, OnlyRecord, Slashing
  <2>4. CASE Closes(i, "Settled")
    BY <2>1, <2>4 DEF Closes, OnlyRecord, Slashing
  <2>5. CASE txs[i][n].fn = "slash" /\ Closes(i, "Slashed")
    BY <2>1, <2>5 DEF Closes, OnlyRecord, Slashing
  <2>6. QED
    BY <1>3, <2>2, <2>3, <2>4, <2>5, MineTells
<1>4. CASE Others
  <2>1. now' = now
    BY <1>4, ZenonT(60) DEF Others, Chain!Submit, Chain!submitIntent, Chain!postCollateral, Chain!cancelIntent, Chain!claimRefund
  <2>2. PICK i \in Intent :
          \/ Opens(i)
          \/ \E s \in Rival : Locks(i, s)
          \/ Closes(i, "Expired")
          \/ Closes(i, "Refunded")
    BY <1>4, OthersTell
  <2>3. CASE Opens(i)
    BY <1>1, <2>1, <2>3 DEF Opens, OnlyRecord, Slashing
  <2>4. CASE \E s \in Rival : Locks(i, s)
    BY <1>1, <2>1, <2>4 DEF Locks, OnlyRecord, Slashing
  <2>5. CASE Closes(i, "Expired")
    BY <1>1, <2>1, <2>5 DEF Closes, OnlyRecord, Slashing
  <2>6. CASE Closes(i, "Refunded")
    BY <1>1, <2>1, <2>6 DEF Closes, OnlyRecord, Slashing
  <2>7. QED
    BY <2>2, <2>3, <2>4, <2>5, <2>6
<1>5. CASE Tick
  BY <1>1, <1>5 DEF Tick, Chain!Tick, Chain!contractVars, Slashing
<1>6. CASE Wire
  <2>1. CASE \E t \in Task : Broadcast(t)
    BY <1>2, <2>1 DEF Broadcast
  <2>2. CASE \E i \in Intent : \E n \in DOMAIN sigs[i] : ChildSends(i, n) \/ PayoutLands(i, n)
    BY <1>2, <2>2 DEF ChildSends, PayoutLands
  <2>3. CASE \E i \in Intent : \E n \in DOMAIN txs[i] : Mine(i, n)
    BY <1>1, <1>3, <2>3
  <2>4. QED
    BY <1>6, <2>1, <2>2, <2>3 DEF Wire
<1>7. QED
  BY <1>2, <1>4, <1>5, <1>6, StepKinds, PayingLeavesChain DEF Quiet

\* What a step may add to the signed transactions, and by whom.
LEMMA TxKinds ==
    ASSUME Inv, [Next]_vars
    PROVE  \/ UNCHANGED txs
           \/ \E i \in Intent : \E n \in DOMAIN txs[i], st \in TxState :
                txs' = [txs EXCEPT ![i] = [txs[i] EXCEPT ![n].st = st]] /\ txs[i][n].st # "success"
           \/ \E t \in Task : \E tx \in Transaction :
                /\ task[t].pc \in {"post", "csign", "ssign"}
                /\ tx.fn = "slash" => task[t].pc = "ssign"
                /\ txs' = [txs EXCEPT ![task[t].intent] = Append(txs[task[t].intent], tx)]
                /\ task[t].intent \in Intent
<1> DEFINE Moves(i) == \E n \in DOMAIN txs[i], st \in TxState :
                txs' = [txs EXCEPT ![i] = [txs[i] EXCEPT ![n].st = st]] /\ txs[i][n].st # "success"
           Signs(t) == \E tx \in Transaction :
                /\ task[t].pc \in {"post", "csign", "ssign"}
                /\ tx.fn = "slash" => task[t].pc = "ssign"
                /\ txs' = [txs EXCEPT ![task[t].intent] = Append(txs[task[t].intent], tx)]
                /\ task[t].intent \in Intent
<1>1. txs \in [Intent -> Txs]
  BY DEF Inv, TypeOK, Txs
<1>2. ASSUME NEW t \in Task, ConfirmSign(t) \/ ConfirmUnrecorded(t) PROVE Signs(t)
  <2>1. task[t].pc = "csign" /\ task[t].intent \in Intent
    BY <1>2, Running DEF ConfirmSign, ConfirmUnrecorded, At
  <2> DEFINE tx == [fn |-> "confirm", from |-> OrchestratorKey, st |-> "signed"]
  <2>2. tx \in Transaction /\ tx.fn # "slash"
    BY DEF Transaction, TxState
  <2>3. txs' = [txs EXCEPT ![task[t].intent] = Append(txs[task[t].intent], tx)]
    BY <1>2 DEF ConfirmSign, ConfirmUnrecorded, Sign, SignInVain
  <2>4. QED
    BY <2>1, <2>2, <2>3
<1>3. ASSUME NEW t \in Task, SlashSign(t) \/ SlashUnrecorded(t) PROVE Signs(t)
  <2>1. task[t].pc = "ssign" /\ task[t].intent \in Intent
    BY <1>3, Running DEF SlashSign, SlashUnrecorded, At
  <2> DEFINE tx == [fn |-> "slash", from |-> OrchestratorKey, st |-> "signed"]
  <2>2. tx \in Transaction
    BY DEF Transaction, TxState
  <2>3. txs' = [txs EXCEPT ![task[t].intent] = Append(txs[task[t].intent], tx)]
    BY <1>3 DEF SlashSign, SlashUnrecorded, Sign, SignInVain
  <2>4. QED
    BY <2>1, <2>2, <2>3
<1>4. ASSUME PostSign PROVE Signs(Sequencer)
  <2>1. task[Sequencer].pc = "post" /\ task[Sequencer].intent \in Intent /\ task[Sequencer].solver \in Solver
    BY <1>4, SequencerRunning DEF PostSign, At
  <2> DEFINE tx == [fn |-> "post", from |-> task[Sequencer].solver, st |-> "signed"]
  <2>2. tx \in Transaction /\ tx.fn # "slash"
    BY <2>1 DEF Transaction, TxState
  <2>3. txs' = [txs EXCEPT ![task[Sequencer].intent] = Append(txs[task[Sequencer].intent], tx)]
    BY <1>4 DEF PostSign, Sign
  <2>4. QED
    BY <2>1, <2>2, <2>3 DEF Task
<1>5. ASSUME NEW t \in Task, Broadcast(t) PROVE \E i \in Intent : Moves(i)
  <2>1. task[t].intent \in Intent /\ task[t].ref \in DOMAIN txs[task[t].intent]
    <3> DEFINE i == task[t].intent
    <3>1. task[t].pc \in {"postWait", "cwait", "swait"} /\ ~At(t, "idle")
      BY <1>5 DEF Broadcast, Waiting, At
    <3>2. /\ i \in Intent /\ TaskOK(t, task[t], arb[i], settled[i], intents[i], txs[i], sigs[i])
          /\ EntryOK(arb[i], intents[i], txs[i]) /\ txs[i] \in Txs
      BY <3>1, Running
    <3>3. QED
      BY <3>1, <3>2, Indices DEF TaskOK, EntryOK
  <2>2. txs' = [txs EXCEPT ![task[t].intent] = [txs[task[t].intent] EXCEPT ![task[t].ref].st = "mempool"]]
        /\ txs[task[t].intent][task[t].ref].st # "success" /\ "mempool" \in TxState
    BY <1>1, <1>5, <2>1 DEF Broadcast, Receipt, TxState
  <2>3. QED
    BY <2>1, <2>2
<1>6. ASSUME NEW i \in Intent, NEW n \in DOMAIN txs[i], Mine(i, n) PROVE Moves(i)
  <2>1. PICK result \in {"success", "reverted"} :
          txs' = [txs EXCEPT ![i][n].st = result] /\ txs[i][n].st = "mempool"
    BY <1>6, MineTells
  <2>2. result \in TxState /\ txs' = [txs EXCEPT ![i] = [txs[i] EXCEPT ![n].st = result]]
    BY <1>1, <2>1 DEF TxState
  <2>3. QED
    BY <2>1, <2>2
<1> HIDE DEF Moves, Signs
<1>7. ASSUME NEW t \in Task, Confirming(t) \/ TaskAborts(t) PROVE UNCHANGED txs \/ Signs(t)
  BY <1>2, <1>7 DEF Confirming, ConfirmRead, ConfirmSucceeds, ConfirmFails, TaskAborts, wireVars
<1>8. ASSUME SequencerStep PROVE UNCHANGED txs \/ Signs(Sequencer)
  <2>1. CASE Confirming(Sequencer) \/ TaskAborts(Sequencer)
    BY <1>7, <2>1 DEF Task
  <2>2. CASE Gate \/ PostUnrecorded \/ PostFails \/ PostSucceeds \/ Verify \/ Pay
    BY <2>2 DEF Gate, PostUnrecorded, PostFails, PostSucceeds, Verify, Pay, wireVars
  <2>3. CASE ChildSigns \/ ChildSucceeds \/ ChildFails
    BY <2>3 DEF ChildSigns, ChildSucceeds, ChildFails, wireVars
  <2>4. CASE PostSign
    BY <1>4, <2>4
  <2>5. QED
    BY <1>8, <2>1, <2>2, <2>3, <2>4 DEF SequencerStep
<1>9. ASSUME NEW w \in Poller, PollerStep(w) PROVE UNCHANGED txs \/ Signs(w)
  BY <1>3, <1>7, <1>9 DEF PollerStep, PollStart, PollCheck, PollSig, SlashSucceeds, SlashFails, wireVars, Task
<1>10. ASSUME NEW w \in Reconciler, ReconcilerStep(w) PROVE UNCHANGED txs \/ Signs(w)
  BY <1>7, <1>10 DEF ReconcilerStep, ReconcileStart, ReconcileCheck, ReconcileResume, wireVars, Task
<1>11. ASSUME Wire PROVE UNCHANGED txs \/ \E i \in Intent : Moves(i)
  BY <1>5, <1>6, <1>11 DEF Wire, ChildSends, PayoutLands
<1>12. ASSUME (\E i \in Intent : Dispatch(i)) \/ Crash \/ BootStep \/ Others \/ Tick \/ UNCHANGED vars
       PROVE  UNCHANGED txs
  BY <1>12 DEF Dispatch, Crash, BootStep, Boot, BootNextPass, BootSettling, BootMid, BootResume, Others, Tick,
               vars, wireVars
<1>13. UNCHANGED txs \/ (\E i \in Intent : Moves(i)) \/ (\E t \in Task : Signs(t))
  BY <1>8, <1>9, <1>10, <1>11, <1>12 DEF Next, Task
<1>14. QED
  BY <1>13 DEF Moves, Signs

\* Every step of a task is one of these: it ends, goes on under its last look at the clock,
\* looks again, or begins.
Carries(t) ==
    \E pc \in Pc : \E ref :
        /\ task' \in {[task EXCEPT ![t].pc = pc], [task EXCEPT ![t].pc = pc, ![t].ref = ref]}
        /\ ~At(t, "idle")
        /\ pc \in EarlyPc => task[t].pc \in EarlyPc
        /\ t = Sequencer /\ pc \in ConfirmPc => task[t].pc \in EarlyPc \cup ConfirmPc
        /\ pc \in LatePc => task[t].pc \in LatePc

Looks(t) ==
    LET i == task[t].intent
    IN  \E pc \in Pc, d \in Nat :
            /\ GotoAfterClock(t, pc, d)
            /\ ~At(t, "idle")
            /\ pc \in EarlyPc => d = 0 /\ now < DeadlineOf(i)
            /\ t = Sequencer /\ pc \in ConfirmPc =>
                    d = Backoff /\ now < intents[i].expiry + CONFIRM_RETRY_MAX_SEC_AFTER_EXPIRY
            /\ pc \in LatePc => now >= intents[i].expiry

Begins(t) ==
    \E pc \in {"gate", "pcheck", "rcheck"}, i \in Intent : \E s, ref :
        Begin(t, pc, i, s, ref) /\ intents[i].owner # NoAccount

OnTime(t) == Finish(t) \/ Carries(t) \/ Looks(t) \/ Begins(t)

LEMMA OnTimeKeeps ==
    ASSUME Inv, ClockInv, NEW t \in Task, UNCHANGED chainVars, OnTime(t)
    PROVE  TasksOnTime'
<1>1. /\ task \in [Task -> TaskRecord] /\ now \in Nat /\ MaxTime \in Nat /\ now <= MaxTime
      /\ {DELIVERY_MARGIN_SEC, CONFIRM_RETRY_MAX_SEC_AFTER_EXPIRY, Backoff, Patience} \subseteq Nat
      /\ \A i \in Intent : intents[i].expiry \in Nat
  BY RecordTypes, ContractConstants, SettlementAssumption
     DEF Inv, TypeOK, Contract!NumberAssumption, Contract!IntentRecord, ClockInv
<1>2. UNCHANGED <<now, intents>>
  BY DEF chainVars
<1>3. \A u \in Task : task[u].pc = "idle" \/ (task[u].intent \in Intent /\ ClockOK(u, task[u]))
  BY DEF ClockInv, TasksOnTime, At, Inv, TypeOK
<1>4. \A u \in Task : u # t => task'[u] = task[u]
  BY <1>1 DEF OnTime, Finish, Carries, Looks, GotoAfterClock, Begins, Begin
<1>5. task'[t].pc = "idle" \/ ClockOK(t, task'[t])
  <2> DEFINE i == task[t].intent
  <2>1. CASE Finish(t)
    BY <1>1, <2>1 DEF Finish, Idle
  <2>2. CASE Carries(t)
    <3>1. PICK pc \in Pc :
            /\ \E ref : task' \in {[task EXCEPT ![t].pc = pc], [task EXCEPT ![t].pc = pc, ![t].ref = ref]}
            /\ task[t].pc # "idle"
            /\ pc \in EarlyPc => task[t].pc \in EarlyPc
            /\ t = Sequencer /\ pc \in ConfirmPc => task[t].pc \in EarlyPc \cup ConfirmPc
            /\ pc \in LatePc => task[t].pc \in LatePc
      BY <2>2 DEF Carries, At
    <3>2. task'[t].pc = pc /\ task'[t].intent = i /\ task'[t].due = task[t].due /\ task[t].due \in Nat
      BY <1>1, <3>1 DEF TaskRecord
    <3>3. i \in Intent /\ ClockOK(t, task[t])
      BY <1>3, <3>1
    <3>4. QED
      BY <1>1, <3>1, <3>2, <3>3 DEF ClockOK, DeadlineOf
  <2>3. CASE Looks(t)
    <3>1. PICK pc \in Pc, d \in Nat :
            /\ task' = [task EXCEPT ![t].pc = pc, ![t].due = DueIn(d)]
            /\ task[t].pc # "idle"
            /\ pc \in EarlyPc => d = 0 /\ now < DeadlineOf(i)
            /\ t = Sequencer /\ pc \in ConfirmPc =>
                    d = Backoff /\ now < intents[i].expiry + CONFIRM_RETRY_MAX_SEC_AFTER_EXPIRY
            /\ pc \in LatePc => now >= intents[i].expiry
      BY <2>3 DEF Looks, GotoAfterClock, At
    <3>2. task'[t].pc = pc /\ task'[t].intent = i /\ task'[t].due = DueIn(d)
      BY <1>1, <3>1 DEF TaskRecord
    <3>3. i \in Intent /\ intents[i].owner # NoAccount
      BY <1>3, <3>1 DEF ClockOK
    <3>4. DueIn(d) \in Nat /\ now <= DueIn(d) /\ DueIn(d) <= now + d + Patience
      BY <1>1 DEF DueIn
    <3>5. pc \in EarlyPc => DueIn(d) < DeadlineOf(i) + Patience
      BY <1>1, <3>1, <3>3, <3>4 DEF DeadlineOf
    <3>6. t = Sequencer /\ pc \in ConfirmPc =>
            DueIn(d) < intents[i].expiry + CONFIRM_RETRY_MAX_SEC_AFTER_EXPIRY + Backoff + Patience
      BY <1>1, <3>1, <3>3, <3>4
    <3>7. QED
      BY <3>1, <3>2, <3>3, <3>4, <3>5, <3>6 DEF ClockOK
  <2>4. CASE Begins(t)
    <3>1. PICK pc \in {"gate", "pcheck", "rcheck"}, j \in Intent :
            (\E s, ref : Begin(t, pc, j, s, ref)) /\ intents[j].owner # NoAccount
      BY <2>4 DEF Begins
    <3>2. PICK s, ref : Begin(t, pc, j, s, ref)
      BY <3>1
    <3> DEFINE k == [pc |-> pc, intent |-> j, solver |-> s, ref |-> ref, due |-> DueIn(0)]
    <3>3. task'[t] = k /\ now <= DueIn(0)
      BY <1>1, <3>2 DEF Begin, DueIn
    <3>4. QED
      BY <3>1, <3>3 DEF ClockOK, EarlyPc, LatePc, ConfirmPc
  <2>5. QED
    BY <2>1, <2>2, <2>3, <2>4 DEF OnTime
<1>6. \A u \in Task : task'[u].pc = "idle" \/ ClockOK(u, task'[u])
  BY <1>3, <1>4, <1>5
<1>7. QED
  BY <1>2, <1>6 DEF TasksOnTime, ClockOK, DeadlineOf, At

\* The ways of going on.
LEMMA GoesOn ==
    ASSUME NEW t \in Task, NEW pc \in Pc, NEW from \in Pc \ {"idle"}, task[t].pc = from,
           \/ Goto(t, pc) \/ \E fn, a : Sign(t, fn, a, pc)
           \/ \E ref : task' = [task EXCEPT ![t].pc = pc, ![t].ref = ref],
           pc \in EarlyPc => from \in EarlyPc,
           t = Sequencer /\ pc \in ConfirmPc => from \in EarlyPc \cup ConfirmPc,
           pc \in LatePc => from \in LatePc
    PROVE  OnTime(t)
<1>1. \E ref : task' \in {[task EXCEPT ![t].pc = pc], [task EXCEPT ![t].pc = pc, ![t].ref = ref]}
  <2>1. CASE Goto(t, pc)
    BY <2>1 DEF Goto
  <2>2. ASSUME NEW fn, NEW a, Sign(t, fn, a, pc)
        PROVE  task' = [task EXCEPT ![t].pc = pc, ![t].ref = Len(txs[task[t].intent]) + 1]
    BY <2>2 DEF Sign
  <2>3. QED
    BY <2>1, <2>2
<1>2. QED
  BY <1>1 DEF OnTime, Carries, At

LEMMA PayoutRetryOnTime ==
    ASSUME NEW i, i = task[Sequencer].intent, ~At(Sequencer, "idle"), PayoutFailed(i)
    PROVE  OnTime(Sequencer)
<1>1. CASE now < DeadlineOf(i) /\ GotoAfterClock(Sequencer, "pay", 0)
  <2>1. "pay" \in Pc /\ 0 \in Nat /\ "pay" \notin ConfirmPc \cup LatePc
    BY DEF Pc, ConfirmPc, LatePc
  <2>2. QED
    BY <1>1, <2>1 DEF OnTime, Looks
<1>2. QED
  BY <1>1 DEF PayoutFailed, setArbitrumStageAndEnd, OnTime

LEMMA ConfirmRetryOnTime ==
    ASSUME Inv, NEW t \in Task, ~At(t, "idle"), RetryOrEnd(t)
    PROVE  OnTime(t)
<1> DEFINE i == task[t].intent
<1>1. /\ now \in Nat /\ intents[i].expiry \in Nat /\ CONFIRM_RETRY_MAX_SEC_AFTER_EXPIRY \in Nat /\ Backoff \in Nat
      /\ "cread" \in Pc /\ "cread" \notin EarlyPc \cup LatePc
  BY Running, RecordTypes, SettlementAssumption DEF Inv, Contract!IntentRecord, Pc, EarlyPc, LatePc
<1>2. CASE now < intents[i].expiry + CONFIRM_RETRY_MAX_SEC_AFTER_EXPIRY /\ GotoAfterClock(t, "cread", Backoff)
  BY <1>1, <1>2 DEF OnTime, Looks
<1>3. QED
  BY <1>1, <1>2 DEF RetryOrEnd, OnTime

LEMMA ConfirmingOnTime ==
    ASSUME Inv, NEW t \in Task, Confirming(t)
    PROVE  OnTime(t) /\ UNCHANGED chainVars
<1>1. UNCHANGED chainVars /\ task[t].pc \in ConfirmPc /\ ~At(t, "idle")
  BY DEF Confirming, ConfirmRead, ConfirmSign, ConfirmUnrecorded, ConfirmSucceeds, ConfirmFails, At, ConfirmPc
<1>2. ConfirmPc \subseteq Pc \ ({"idle"} \cup EarlyPc \cup LatePc)
  BY DEF ConfirmPc, Pc, EarlyPc, LatePc
<1>3. CASE Finish(t)
  BY <1>1, <1>3 DEF OnTime
<1>4. CASE RetryOrEnd(t)
  BY <1>1, <1>4, ConfirmRetryOnTime
<1>5. CASE Goto(t, "csign") \/ \E fn, a : Sign(t, fn, a, "cwait")
  <2>1. "csign" \in ConfirmPc /\ "cwait" \in ConfirmPc
    BY DEF ConfirmPc
  <2>2. PICK pc \in ConfirmPc : Goto(t, pc) \/ \E fn, a : Sign(t, fn, a, pc)
    BY <1>5, <2>1
  <2>3. QED
    BY <1>1, <1>2, <2>2, GoesOn
<1>6. QED
  BY <1>1, <1>3, <1>4, <1>5
     DEF Confirming, ConfirmRead, ConfirmSign, ConfirmUnrecorded, ConfirmSucceeds, ConfirmFails, setArbitrumStageAndEnd

LEMMA SequencerOnTime ==
    ASSUME Inv, SequencerStep
    PROVE  OnTime(Sequencer) /\ UNCHANGED chainVars
<1>1. Sequencer \in Task /\ EarlyPc \subseteq Pc \ ({"idle"} \cup ConfirmPc \cup LatePc) /\ "cread" \in Pc
      /\ "cread" \notin EarlyPc \cup LatePc
  BY DEF Task, EarlyPc, Pc, ConfirmPc, LatePc
<1>2. CASE Confirming(Sequencer)
  BY <1>1, <1>2, ConfirmingOnTime
<1>3. UNCHANGED chainVars
  BY <1>1, <1>2, ConfirmingOnTime
     DEF SequencerStep, Gate, PostSign, PostUnrecorded, PostFails, PostSucceeds, Verify, Pay, ChildSigns,
         ChildSucceeds, ChildFails, TaskAborts
<1>4. CASE Finish(Sequencer)
  BY <1>3, <1>4 DEF OnTime
<1>5. ASSUME task[Sequencer].pc \in EarlyPc, NEW pc \in EarlyPc \cup {"cread"},
             Goto(Sequencer, pc) \/ \E fn, a : Sign(Sequencer, fn, a, pc)
      PROVE  OnTime(Sequencer)
  BY <1>1, <1>5, GoesOn
<1>6. CASE Gate
  <2>1. CASE now < DeadlineOf(task[Sequencer].intent) /\ GotoAfterClock(Sequencer, "post", 0)
    BY <1>1, <1>3, <1>6, <2>1 DEF OnTime, Looks, Gate, At, EarlyPc
  <2>2. QED
    BY <1>4, <1>6, <2>1 DEF Gate, setArbitrumStageAndEnd
<1>7. CASE PostSign \/ PostSucceeds
  BY <1>3, <1>4, <1>5, <1>7 DEF PostSign, PostSucceeds, At, EarlyPc
<1>8. CASE PostUnrecorded \/ PostFails \/ TaskAborts(Sequencer)
  BY <1>4, <1>8 DEF PostUnrecorded, PostFails, TaskAborts, setArbitrumStageAndEnd
<1>9. CASE Verify \/ ChildSucceeds
  BY <1>3, <1>4, <1>5, <1>9 DEF Verify, ChildSucceeds, At, EarlyPc
<1>10. CASE Pay \/ ChildFails
  BY <1>3, <1>5, <1>10, PayoutRetryOnTime DEF Pay, ChildFails, At, EarlyPc
<1>11. CASE ChildSigns
  <2>1. task' = [task EXCEPT ![Sequencer].pc = "childWait",
                             ![Sequencer].ref = Len(sigs[task[Sequencer].intent]) + 1]
        /\ task[Sequencer].pc = "child"
    BY <1>11 DEF ChildSigns, At
  <2>2. "child" \in EarlyPc /\ "childWait" \in EarlyPc
    BY DEF EarlyPc
  <2>3. QED
    BY <1>1, <1>3, <2>1, <2>2, GoesOn
<1>12. QED
  BY <1>2, <1>6, <1>7, <1>8, <1>9, <1>10, <1>11 DEF SequencerStep

LEMMA PollerOnTime ==
    ASSUME Inv, NEW w \in Poller, PollerStep(w)
    PROVE  OnTime(w) /\ UNCHANGED chainVars
<1>1. w \in Task /\ w # Sequencer /\ {"cread", "psig", "ssign", "swait"} \subseteq Pc \ EarlyPc
      /\ LatePc \subseteq Pc \ {"idle"} /\ "cread" \notin LatePc
  BY SettlementAssumption DEF Task, Pc, EarlyPc, LatePc
<1>2. CASE Confirming(w)
  BY <1>1, <1>2, ConfirmingOnTime
<1>3. UNCHANGED chainVars
  BY <1>1, <1>2, ConfirmingOnTime
     DEF PollerStep, PollStart, PollCheck, PollSig, SlashSign, SlashUnrecorded, SlashSucceeds, SlashFails, TaskAborts
<1>4. CASE Finish(w)
  BY <1>3, <1>4 DEF OnTime
<1>5. ASSUME NEW i \in Intent, PollStart(w, i) PROVE OnTime(w)
  <2>1. EntryOK(arb[i], intents[i], txs[i]) /\ WireOK(intents[i], txs[i], sigs[i]) /\ NoAccount \notin Solver
    BY RecordTypes DEF Inv, SettlementInv, EntryInv, WireInv
  <2>2. intents[i].owner # NoAccount
    BY <1>5, <2>1 DEF PollStart, EntryOK, WireOK, LockedStage
  <2>3. \E s, ref : Begin(w, "pcheck", i, s, ref)
    BY <1>5 DEF PollStart
  <2>4. QED
    BY <2>2, <2>3 DEF OnTime, Begins
<1>6. CASE PollCheck(w)
  <2>1. now \in Nat /\ intents[task[w].intent].expiry \in Nat /\ task[w].pc = "pcheck" /\ ~At(w, "idle")
    BY <1>1, <1>6, Running, RecordTypes DEF PollCheck, At, Inv, Contract!IntentRecord
  <2>2. ASSUME NEW pc \in {"ssign", "cread", "psig"}, GotoAfterClock(w, pc, 0), ~(now < intents[task[w].intent].expiry)
        PROVE  OnTime(w)
    BY <1>1, <2>1, <2>2 DEF OnTime, Looks
  <2>3. QED
    BY <1>3, <1>4, <1>6, <2>2 DEF PollCheck
<1>7. CASE PollSig(w) \/ SlashSign(w)
  <2>1. \E pc \in {"cread", "ssign", "swait"} : Goto(w, pc) \/ \E fn, a : Sign(w, fn, a, pc)
    BY <1>7 DEF PollSig, SlashSign
  <2>2. task[w].pc \in LatePc
    BY <1>7 DEF PollSig, SlashSign, At, LatePc
  <2>3. QED
    BY <1>1, <1>3, <2>1, <2>2, GoesOn
<1>8. CASE SlashUnrecorded(w) \/ SlashSucceeds(w) \/ SlashFails(w) \/ TaskAborts(w)
  BY <1>4, <1>8 DEF SlashUnrecorded, SlashSucceeds, SlashFails, TaskAborts, setArbitrumStageAndEnd
<1>9. QED
  BY <1>2, <1>3, <1>5, <1>6, <1>7, <1>8 DEF PollerStep

LEMMA ReconcilerOnTime ==
    ASSUME Inv, NEW w \in Reconciler, ReconcilerStep(w)
    PROVE  OnTime(w) /\ UNCHANGED chainVars
<1>1. w \in Task /\ w # Sequencer /\ {"cread", "rcheck", "rresume"} \subseteq Pc \ (EarlyPc \cup LatePc \cup {"idle"})
  BY SettlementAssumption DEF Task, Pc, EarlyPc, LatePc
<1>2. CASE Confirming(w)
  BY <1>1, <1>2, ConfirmingOnTime
<1>3. UNCHANGED chainVars
  BY <1>1, <1>2, ConfirmingOnTime DEF ReconcilerStep, ReconcileStart, ReconcileCheck, ReconcileResume, TaskAborts
<1>4. CASE Finish(w)
  BY <1>3, <1>4 DEF OnTime
<1>5. ASSUME NEW i \in Intent, ReconcileStart(w, i) PROVE OnTime(w)
  <2>1. SettledOK(settled[i], sigs[i]) /\ WireOK(intents[i], txs[i], sigs[i]) /\ NoAccount \notin Solver
        /\ sigs[i] \in Sigs
    BY RecordTypes DEF Inv, TypeOK, SettlementInv, SettledInv, WireInv, Sigs
  <2>2. settled[i].sig \in DOMAIN sigs[i]
    BY <1>5, <2>1 DEF ReconcileStart, SettledOK
  <2>3. sigs[i] # <<>>
    BY <2>1, <2>2, Indices
  <2>4. intents[i].owner # NoAccount
    BY <2>1, <2>3 DEF WireOK
  <2>5. \E s, ref : Begin(w, "rcheck", i, s, ref)
    BY <1>5 DEF ReconcileStart
  <2>6. QED
    BY <2>4, <2>5 DEF OnTime, Begins
<1>6. CASE ReconcileCheck(w)
  <2>1. Goto(w, "rresume") \/ Finish(w)
    BY <1>6 DEF ReconcileCheck
  <2>2. task[w].pc = "rcheck" /\ {"rcheck", "rresume"} \cap ConfirmPc = {}
    BY <1>6 DEF ReconcileCheck, At, ConfirmPc
  <2>3. QED
    BY <1>1, <1>3, <1>4, <2>1, <2>2, GoesOn
<1>7. CASE ReconcileResume(w)
  <2>1. GotoAfterClock(w, "cread", 0) \/ Finish(w)
    BY <1>7 DEF ReconcileResume
  <2>2. task[w].pc = "rresume"
    BY <1>7 DEF ReconcileResume, At
  <2>3. QED
    BY <1>1, <1>3, <1>4, <2>1, <2>2 DEF OnTime, Looks, At
<1>8. CASE TaskAborts(w)
  BY <1>4, <1>8 DEF TaskAborts
<1>9. QED
  BY <1>2, <1>3, <1>5, <1>6, <1>7, <1>8 DEF ReconcilerStep

LEMMA DispatchOnTime ==
    ASSUME NEW i \in Intent, Dispatch(i)
    PROVE  OnTime(Sequencer) /\ UNCHANGED chainVars
<1>1. intents[i].owner # NoAccount /\ UNCHANGED chainVars
  BY DEF Dispatch, Chain!Exists
<1>2. \E s, ref : Begin(Sequencer, "gate", i, s, ref)
  BY DEF Dispatch
<1>3. QED
  BY <1>1, <1>2 DEF OnTime, Begins

\* A step of no task leaves them all on time: the clock waits for them.
LEMMA WaitsForTasks ==
    ASSUME Inv, ClockInv, [Next]_vars, UNCHANGED task
    PROVE  TasksOnTime'
<1> SUFFICES ASSUME NEW t \in Task, task[t].pc # "idle"
             PROVE  ClockOK(t, task[t])'
  BY DEF TasksOnTime, At
<1>1. /\ task[t] \in TaskRecord /\ task[t].intent \in Intent /\ ClockOK(t, task[t])
  BY Running DEF ClockInv, TasksOnTime, At
<1> DEFINE i == task[t].intent
<1>2. intents'[i].owner # NoAccount /\ intents'[i].expiry = intents[i].expiry /\ now' >= now
      /\ now \in Nat /\ now' \in Nat /\ intents[i].expiry \in Nat
  BY <1>1, StepTells, RecordTypes DEF ClockOK, Inv, Contract!IntentRecord
<1>3. now' <= task[t].due
  <2>1. CASE now' = now
    BY <1>1, <2>1 DEF ClockOK
  <2>2. CASE Tick /\ now' = now + 1
    BY <1>1, <1>2, <2>2 DEF Tick, At, TaskRecord
  <2>3. QED
    BY <2>1, <2>2, StepTells
<1>4. QED
  BY <1>1, <1>2, <1>3 DEF ClockOK, DeadlineOf

LEMMA StaysOnTime ==
    ASSUME Inv, ClockInv, [Next]_vars, ~Crash
    PROVE  TasksOnTime'
<1>1. CASE SequencerStep
  BY <1>1, SequencerOnTime, OnTimeKeeps DEF Task
<1>2. ASSUME NEW i \in Intent, Dispatch(i) PROVE TasksOnTime'
  BY <1>2, DispatchOnTime, OnTimeKeeps DEF Task
<1>3. ASSUME NEW w \in Poller, PollerStep(w) PROVE TasksOnTime'
  BY <1>3, PollerOnTime, OnTimeKeeps DEF Task
<1>4. ASSUME NEW w \in Reconciler, ReconcilerStep(w) PROVE TasksOnTime'
  BY <1>4, ReconcilerOnTime, OnTimeKeeps DEF Task
<1>5. CASE Wire \/ BootStep \/ Others \/ Tick \/ UNCHANGED vars
  <2>1. ASSUME NEW i \in Intent PROVE ~BootResume(i)
    BY DEF BootResume, ClockInv
  <2>2. UNCHANGED task
    BY <1>5, <2>1 DEF Wire, Broadcast, Mine, ChildSends, PayoutLands, BootStep, Boot, BootNextPass, BootSettling,
                      BootMid, Others, Tick, vars
  <2>3. QED
    BY <2>2, WaitsForTasks
<1>6. QED
  BY <1>1, <1>2, <1>3, <1>4, <1>5 DEF Next

\* What a step may do to the signed payouts.
LEMMA SigKinds ==
    ASSUME Inv, [Next]_vars
    PROVE  \/ UNCHANGED sigs
           \/ \E i \in Intent : \E n \in DOMAIN sigs[i], st \in SigState :
                /\ sigs' = [sigs EXCEPT ![i] = [sigs[i] EXCEPT ![n].st = st]]
                /\ st = "landed" => now <= sigs[i][n].until
           \/ ChildSigns
<1> DEFINE Moves(i, n) == \E st \in SigState : /\ sigs' = [sigs EXCEPT ![i] = [sigs[i] EXCEPT ![n].st = st]]
                                               /\ st = "landed" => now <= sigs[i][n].until
<1>1. sigs \in [Intent -> Sigs]
  BY DEF Inv, TypeOK, Sigs
<1>2. ASSUME NEW i \in Intent, NEW n \in DOMAIN sigs[i], ChildSends(i, n) \/ PayoutLands(i, n)
      PROVE  Moves(i, n)
  BY <1>1, <1>2 DEF ChildSends, PayoutLands, SigState
<1>3. ASSUME ChildFails PROVE UNCHANGED sigs \/ \E i \in Intent : \E n \in DOMAIN sigs[i] : Moves(i, n)
  <2> DEFINE i == task[Sequencer].intent
             n == task[Sequencer].ref
  <2>1. task[Sequencer].pc \in {"child", "childWait"} /\ Sequencer \in Task /\ ~At(Sequencer, "idle")
    BY <1>3 DEF ChildFails, At, Task
  <2>2. i \in Intent /\ (task[Sequencer].pc = "childWait" => n \in DOMAIN sigs[i])
    BY <2>1, Running DEF TaskOK
  <2>3. CASE task[Sequencer].pc = "childWait" /\ sigs' = [sigs EXCEPT ![i] = [sigs[i] EXCEPT ![n].st = "dead"]]
    BY <2>2, <2>3 DEF SigState
  <2>4. QED
    BY <1>1, <1>3, <2>2, <2>3 DEF ChildFails, At
<1>4. ASSUME Wire PROVE UNCHANGED sigs \/ \E i \in Intent : \E n \in DOMAIN sigs[i] : Moves(i, n)
  <2> HIDE DEF Moves
  <2>1. QED
    BY <1>2, <1>4 DEF Wire, Broadcast, Mine
<1>5. ASSUME Others \/ Tick \/ Pay \/ ChildSucceeds \/ (\E w \in Poller : PollSig(w))
             \/ (\E w \in Reconciler : ReconcileCheck(w)) \/ Boot \/ (\E i \in Intent : BootSettling(i))
      PROVE  UNCHANGED sigs
  BY <1>5 DEF Others, Tick, Pay, ChildSucceeds, PollSig, ReconcileCheck, Boot, BootSettling, wireVars
<1>6. UNCHANGED sigs \/ ChildSigns \/ \E i \in Intent : \E n \in DOMAIN sigs[i] : Moves(i, n)
  <2> HIDE DEF Moves
  <2>1. QED
    BY <1>3, <1>4, <1>5, StepKinds DEF Paying, Quiet
<1>7. QED
  BY <1>6

LEMMA MarksStay ==
    ASSUME Inv, ClockInv, [Next]_vars, NEW i \in Intent
    PROVE  /\ txs'[i] # <<>> => intents'[i].owner # NoAccount
           /\ \A n \in DOMAIN sigs'[i] : sigs'[i][n].until < DeadlineOf(i)' + Patience + SigValidity
<1>1. /\ now \in Nat /\ {DELIVERY_MARGIN_SEC, Patience, SigValidity} \subseteq Nat
      /\ sigs \in [Intent -> Sigs] /\ txs \in [Intent -> Txs]
      /\ intents[i].owner # NoAccount => intents'[i].owner = intents[i].owner /\ intents'[i].expiry = intents[i].expiry
  BY StepTells, SettlementAssumption DEF Inv, TypeOK, Txs, Sigs
<1>2. intents[i].owner # NoAccount => intents'[i].owner # NoAccount /\ DeadlineOf(i)' = DeadlineOf(i)
  BY <1>1 DEF DeadlineOf
<1>3. txs'[i] # <<>> => intents'[i].owner # NoAccount
  <2>1. CASE UNCHANGED txs
    BY <1>1, <2>1 DEF ClockInv
  <2>2. ASSUME NEW j \in Intent, NEW n \in DOMAIN txs[j], NEW st, txs' = [txs EXCEPT ![j] = [txs[j] EXCEPT ![n].st = st]]
        PROVE  txs'[i] # <<>> => txs[i] # <<>>
    <3>1. txs[j] # <<>>
      BY <1>1, Indices
    <3>2. QED
      BY <1>1, <2>2, <3>1
  <2>3. ASSUME NEW t \in Task, task[t].pc # "idle", NEW tx,
               txs' = [txs EXCEPT ![task[t].intent] = Append(txs[task[t].intent], tx)]
        PROVE  txs'[i] # <<>> => txs[i] # <<>> \/ intents[i].owner # NoAccount
    <3>1. intents[task[t].intent].owner # NoAccount
      BY <2>3 DEF ClockInv, TasksOnTime, ClockOK, At
    <3>2. QED
      BY <1>1, <2>3, <3>1
  <2>4. txs'[i] # <<>> => txs[i] # <<>> \/ intents[i].owner # NoAccount
    BY <2>1, <2>2, <2>3, TxKinds
  <2>5. QED
    BY <1>2, <2>4 DEF ClockInv
<1>4. sigs[i] # <<>> => intents[i].owner # NoAccount
  BY RecordTypes DEF Inv, SettlementInv, WireInv, WireOK
<1>5. ASSUME NEW n \in DOMAIN sigs[i]
      PROVE  sigs[i][n].until < DeadlineOf(i)' + Patience + SigValidity
  <2>1. sigs[i] # <<>>
    BY <1>1, <1>5, Indices
  <2>2. QED
    BY <1>2, <1>4, <2>1 DEF ClockInv
<1>6. ASSUME NEW n \in DOMAIN sigs'[i]
      PROVE  sigs'[i][n].until < DeadlineOf(i)' + Patience + SigValidity
  <2>1. CASE UNCHANGED sigs
    BY <1>5, <1>6, <2>1
  <2>2. ASSUME NEW j \in Intent, NEW m \in DOMAIN sigs[j], NEW st \in SigState,
               sigs' = [sigs EXCEPT ![j] = [sigs[j] EXCEPT ![m].st = st]]
        PROVE  n \in DOMAIN sigs[i] /\ sigs'[i][n].until = sigs[i][n].until
    <3>1. sigs[j][m] \in Signature
      BY <1>1, ElementOfSeq, Indices DEF Sigs
    <3>2. QED
      BY <1>1, <1>6, <2>2, <3>1, Indices DEF Signature
  <2>3. CASE ChildSigns
    <3> DEFINE j == task[Sequencer].intent
               sig == [st |-> "signed", until |-> now + SigValidity]
    <3>1. sigs' = [sigs EXCEPT ![j] = Append(sigs[j], sig)] /\ task[Sequencer].pc = "child" /\ Sequencer \in Task
      BY <2>3 DEF ChildSigns, At, Task
    <3>2. j \in Intent /\ task[Sequencer] \in TaskRecord
      BY <3>1, Running DEF At
    <3>3. intents[j].owner # NoAccount /\ now <= task[Sequencer].due /\ task[Sequencer].due < DeadlineOf(j) + Patience
      BY <3>1 DEF ClockInv, TasksOnTime, ClockOK, At, EarlyPc
    <3>4. i = j => sig.until < DeadlineOf(i)' + Patience + SigValidity
      <4>1. intents[j].expiry \in Nat /\ task[Sequencer].due \in Nat
        BY <3>2, RecordTypes DEF Inv, Contract!IntentRecord, TaskRecord
      <4>2. QED
        BY <1>1, <1>2, <3>3, <4>1 DEF DeadlineOf
    <3>5. i # j => n \in DOMAIN sigs[i] /\ sigs'[i][n] = sigs[i][n]
      BY <1>1, <1>6, <3>1, <3>2
    <3>6. i = j => (n \in DOMAIN sigs[i] /\ sigs'[i][n] = sigs[i][n]) \/ sigs'[i][n] = sig
      BY <1>1, <1>6, <3>1, <3>2, AppendProperties, Indices DEF Sigs
    <3>7. QED
      BY <1>5, <3>4, <3>5, <3>6
  <2>4. QED
    BY <1>5, <2>1, <2>2, <2>3, SigKinds
<1>7. QED
  BY <1>3, <1>6

\* Before the first crash the ledgers are empty until the boot is over.
LEMMA BootsEmpty ==
    ASSUME Inv, ClockInv, [Next]_vars, ~Crash, phase' # "up"
    PROVE  /\ At(Sequencer, "idle")' /\ (phase' # "settling" => bootTodo' = {})
           /\ \A i \in Intent : arb'[i].stage = "none" /\ arbDisk'[i].stage = "none"
<1>1. CASE phase = "up"
  BY <1>1 DEF Next, Dispatch, SequencerStep, Gate, PostSign, PostUnrecorded, PostFails, PostSucceeds, Verify, Pay,
     ChildSigns, ChildSucceeds, ChildFails, Confirming, ConfirmRead, ConfirmSign, ConfirmUnrecorded, ConfirmSucceeds,
     ConfirmFails, TaskAborts, PollerStep, PollStart, PollCheck, PollSig, SlashSign, SlashUnrecorded, SlashSucceeds,
     SlashFails, ReconcilerStep, ReconcileStart, ReconcileCheck, ReconcileResume, Wire, Broadcast, Mine, ChildSends,
     PayoutLands, BootStep, Boot, BootNextPass, BootSettling, BootMid, BootResume, Others, Tick, bootVars, vars
<1>2. CASE phase # "up"
  <2>1. \A t \in Task : task[t].pc = "idle"
    BY <1>2 DEF Inv, TypeOK, SettlementInv, BootOK, ClockInv, At
  <2>2. /\ (phase # "settling" => bootTodo = {})
        /\ \A i \in Intent : arb[i].stage = "none" /\ arbDisk[i].stage = "none"
    BY <1>2 DEF ClockInv
  <2>3. ~SequencerStep
    BY <2>1 DEF Task, SequencerStep, Gate, PostSign, PostUnrecorded, PostFails, PostSucceeds, Verify, Pay, ChildSigns,
                ChildSucceeds, ChildFails, Confirming, ConfirmRead, ConfirmSign, ConfirmUnrecorded, ConfirmSucceeds,
                ConfirmFails, TaskAborts, At
  <2>4. ASSUME NEW w \in Poller PROVE ~PollerStep(w)
    BY <1>2, <2>1 DEF Task, PollerStep, PollStart, PollCheck, PollSig, SlashSign, SlashUnrecorded, SlashSucceeds,
                      SlashFails, Confirming, ConfirmRead, ConfirmSign, ConfirmUnrecorded, ConfirmSucceeds,
                      ConfirmFails, TaskAborts, At
  <2>5. ASSUME NEW w \in Reconciler PROVE ~ReconcilerStep(w)
    BY <1>2, <2>1 DEF Task, ReconcilerStep, ReconcileStart, ReconcileCheck, ReconcileResume, Confirming, ConfirmRead,
                      ConfirmSign, ConfirmUnrecorded, ConfirmSucceeds, ConfirmFails, TaskAborts, At
  <2>6. CASE Wire \/ Others \/ Tick \/ UNCHANGED vars
    BY <2>1, <2>2, <2>6 DEF Task, Wire, Broadcast, Mine, ChildSends, PayoutLands, Others, Tick, vars, ledgerVars,
                            arbVars, bootVars, At
  <2>7. CASE Boot
    BY <2>1, <2>2, <2>7 DEF Task, Boot, At
  <2>8. CASE BootNextPass
    BY <2>1, <2>2, <2>8 DEF Task, BootNextPass, MidSequence, ledgerVars, arbVars, At
  <2>9. ASSUME NEW i \in Intent, BootSettling(i) \/ BootMid(i) \/ BootResume(i)
        PROVE  BootSettling(i) /\ phase = "settling"
    BY <2>2, <2>9 DEF BootSettling, BootMid, BootResume
  <2>10. CASE \E i \in Intent : BootSettling(i) /\ phase = "settling"
    BY <2>1, <2>2, <2>10 DEF Task, BootSettling, arbVars, At
  <2>11. QED
    BY <1>2, <2>3, <2>4, <2>5, <2>6, <2>7, <2>8, <2>9, <2>10 DEF Next, BootStep, Dispatch
<1>3. QED
  BY <1>1, <1>2

LEMMA NextClock ==
    ASSUME Inv, ClockInv, [Next]_vars, ~Crash
    PROVE  ClockInv'
<1>1. now' <= MaxTime
  BY StepTells, ContractConstants DEF ClockInv, Contract!NumberAssumption
<1>2. QED
  BY <1>1, StaysOnTime, MarksStay, BootsEmpty DEF ClockInv

LEMMA InitClock == Init => ClockInv
<1> SUFFICES ASSUME Init PROVE ClockInv
  OBVIOUS
<1>1. now = 0 /\ MaxTime \in Nat
  BY ContractConstants DEF Init, Chain!InitWith, Contract!NumberAssumption
<1>2. QED
  BY <1>1 DEF Init, ClockInv, TasksOnTime, At, Idle, NoEntry, Task

LEMMA CrashesCount ==
    ASSUME Inv, [Next]_vars
    PROVE  crashes' = 0 => crashes = 0 /\ ~Crash
<1>1. crashes \in Nat
  BY DEF Inv, TypeOK
<1>2. CASE Crash
  BY <1>1, <1>2 DEF Crash
<1>3. CASE ~Crash
  BY <1>3 DEF Next, Dispatch, SequencerStep, Gate, PostSign, PostUnrecorded, PostFails, PostSucceeds, Verify, Pay,
     ChildSigns, ChildSucceeds, ChildFails, Confirming, ConfirmRead, ConfirmSign, ConfirmUnrecorded, ConfirmSucceeds,
     ConfirmFails, TaskAborts, PollerStep, PollStart, PollCheck, PollSig, SlashSign, SlashUnrecorded, SlashSucceeds,
     SlashFails, ReconcilerStep, ReconcileStart, ReconcileCheck, ReconcileResume, Wire, Broadcast, Mine, ChildSends,
     PayoutLands, BootStep, Boot, BootNextPass, BootSettling, BootMid, BootResume, Others, Tick, bootVars, vars
<1>4. QED
  BY <1>2, <1>3

LEMMA ClockHolds == Spec => [](crashes = 0 => ClockInv)
<1>1. Inv /\ (crashes = 0 => ClockInv) /\ [Next]_vars => (crashes = 0 => ClockInv)'
  BY CrashesCount, NextClock
<1>2. QED
  BY <1>1, InitClock, InvHolds, PTL DEF Spec

\* The confirmation of a payout gives up before the user can take the escrow back, in a
\* process that has not crashed: confirmSettlementWithRetry looks at the clock between two
\* attempts.  (The boot resumes a confirmation however late it is.)
THEOREM ConfirmsInTime ==
    CONFIRM_RETRY_MAX_SEC_AFTER_EXPIRY + Backoff + Patience <= REFUND_GRACE
        => (Spec => [](crashes = 0 => ConfirmEndsBeforeRefund))
<1> SUFFICES ASSUME CONFIRM_RETRY_MAX_SEC_AFTER_EXPIRY + Backoff + Patience <= REFUND_GRACE
             PROVE  Spec => [](crashes = 0 => ConfirmEndsBeforeRefund)
  OBVIOUS
<1>1. ASSUME Inv, ClockInv, task[Sequencer].pc \in ConfirmPc
      PROVE  now < intents[task[Sequencer].intent].expiry + REFUND_GRACE
  <2>1. Sequencer \in Task /\ ~At(Sequencer, "idle")
    BY <1>1 DEF Task, At, ConfirmPc
  <2>2. /\ task[Sequencer].due \in Nat /\ now \in Nat /\ intents[task[Sequencer].intent].expiry \in Nat
        /\ {CONFIRM_RETRY_MAX_SEC_AFTER_EXPIRY, Backoff, Patience, REFUND_GRACE} \subseteq Nat
    BY <1>1, <2>1, Running, RecordTypes, SettlementAssumption, ContractConstants
       DEF TaskRecord, Inv, Contract!IntentRecord, Contract!NumberAssumption
  <2>3. ClockOK(Sequencer, task[Sequencer])
    BY <1>1, <2>1 DEF ClockInv, TasksOnTime
  <2>4. QED
    BY <1>1, <2>2, <2>3 DEF ClockOK
<1>2. Inv /\ (crashes = 0 => ClockInv) => (crashes = 0 => ConfirmEndsBeforeRefund)
  BY <1>1 DEF ConfirmEndsBeforeRefund, ConfirmPc
<1>3. QED
  BY <1>2, InvHolds, ClockHolds, PTL

\* From the expiry on nothing can land that has not landed.
LEMMA UnpayableStays ==
    ASSUME Patience + SigValidity <= DELIVERY_MARGIN_SEC,
           Inv, ClockInv, [Next]_vars, NEW i \in Intent, intents[i].owner # NoAccount, Unpayable(i)
    PROVE  Unpayable(i)'
<1>1. /\ now \in Nat /\ now' \in Nat /\ now <= now' /\ intents[i].expiry \in Nat
      /\ intents'[i].expiry = intents[i].expiry
      /\ {DELIVERY_MARGIN_SEC, Patience, SigValidity} \subseteq Nat /\ sigs \in [Intent -> Sigs]
  BY StepTells, RecordTypes, SettlementAssumption DEF Inv, TypeOK, Sigs, Contract!IntentRecord
<1>2. now' >= intents'[i].expiry
  BY <1>1 DEF Unpayable
<1>3. ASSUME NEW n \in DOMAIN sigs[i] PROVE sigs[i][n].st # "landed" /\ ~(now <= sigs[i][n].until)
  <2>1. sigs[i][n].until \in Nat
    <3>1. sigs[i][n] \in Signature
      BY <1>1, ElementOfSeq, Indices DEF Sigs
    <3>2. QED
      BY <3>1 DEF Signature
  <2>2. sigs[i][n].until < intents[i].expiry - DELIVERY_MARGIN_SEC + Patience + SigValidity
    BY <1>3 DEF ClockInv, DeadlineOf
  <2>3. sigs[i][n].st # "landed" /\ now >= intents[i].expiry
    BY <1>3 DEF Unpayable, Landed
  <2>4. QED
    BY <1>1, <2>1, <2>2, <2>3
<1>4. ASSUME NEW n \in DOMAIN sigs'[i] PROVE sigs'[i][n].st # "landed"
  <2>1. CASE UNCHANGED sigs
    BY <1>3, <1>4, <2>1
  <2>2. ASSUME NEW j \in Intent, NEW m \in DOMAIN sigs[j], NEW st \in SigState,
               sigs' = [sigs EXCEPT ![j] = [sigs[j] EXCEPT ![m].st = st]],
               st = "landed" => now <= sigs[j][m].until
        PROVE  sigs'[i][n].st # "landed"
    <3>1. sigs[j][m] \in Signature
      BY <1>1, ElementOfSeq, Indices DEF Sigs
    <3>2. QED
      BY <1>1, <1>3, <1>4, <2>2, <3>1, Indices DEF Signature
  <2>3. CASE ChildSigns
    <3> DEFINE j == task[Sequencer].intent
               sig == [st |-> "signed", until |-> now + SigValidity]
    <3>1. sigs' = [sigs EXCEPT ![j] = Append(sigs[j], sig)] /\ task[Sequencer].pc = "child" /\ Sequencer \in Task
      BY <2>3 DEF ChildSigns, At, Task
    <3>2. j \in Intent
      BY <3>1, Running DEF At
    <3>3. (n \in DOMAIN sigs[i] /\ sigs'[i][n] = sigs[i][n]) \/ sigs'[i][n] = sig
      BY <1>1, <1>4, <3>1, <3>2, AppendProperties, Indices DEF Sigs
    <3>4. QED
      BY <1>3, <3>3
  <2>4. QED
    BY <2>1, <2>2, <2>3, SigKinds
<1>5. QED
  BY <1>2, <1>4 DEF Unpayable, Landed

\* How a task's state changes.
Turns(t, pc) ==
    \/ Goto(t, pc) \/ Finish(t)
    \/ \E d : GotoAfterClock(t, pc, d)
    \/ \E i, s, ref : Begin(t, pc, i, s, ref)
    \/ \E fn, a : Sign(t, fn, a, pc)
    \/ \E ref : task' = [task EXCEPT ![t].pc = pc, ![t].ref = ref]

LEMMA Turned ==
    ASSUME Inv, NEW t \in Task, NEW u \in Task, NEW pc, Turns(u, pc)
    PROVE  IF t = u THEN task'[t].pc \in {pc, "idle"} ELSE task'[t] = task[t]
<1>1. task \in [Task -> TaskRecord]
  BY DEF Inv, TypeOK
<1>2. CASE Goto(u, pc) \/ \E ref : task' = [task EXCEPT ![u].pc = pc, ![u].ref = ref]
  BY <1>1, <1>2 DEF Goto, TaskRecord
<1>3. CASE Finish(u)
  BY <1>1, <1>3 DEF Finish, Idle
<1>4. ASSUME NEW d, GotoAfterClock(u, pc, d)
      PROVE  IF t = u THEN task'[t].pc \in {pc, "idle"} ELSE task'[t] = task[t]
  BY <1>1, <1>4 DEF GotoAfterClock, TaskRecord
<1>5. ASSUME NEW i, NEW s, NEW ref, Begin(u, pc, i, s, ref)
      PROVE  IF t = u THEN task'[t].pc \in {pc, "idle"} ELSE task'[t] = task[t]
  BY <1>1, <1>5 DEF Begin
<1>6. ASSUME NEW fn, NEW a, Sign(u, fn, a, pc)
      PROVE  IF t = u THEN task'[t].pc \in {pc, "idle"} ELSE task'[t] = task[t]
  BY <1>1, <1>6 DEF Sign, TaskRecord
<1>7. QED
  BY <1>2, <1>3, <1>4, <1>5, <1>6 DEF Turns

Unslashing == Pc \ {"ssign", "swait"}

LEMMA ConfirmingTurns ==
    ASSUME NEW t \in Task, Confirming(t) \/ TaskAborts(t)
    PROVE  \E pc \in Unslashing : Turns(t, pc)
<1>1. {"cread", "csign", "cwait"} \subseteq Unslashing
  BY DEF Unslashing, Pc
<1>2. \E pc \in {"cread", "csign", "cwait"} :
        \/ Goto(t, pc) \/ Finish(t)
        \/ \E d : GotoAfterClock(t, pc, d)
        \/ \E fn, a : Sign(t, fn, a, pc)
  BY DEF Confirming, ConfirmRead, ConfirmSign, ConfirmUnrecorded, ConfirmSucceeds, ConfirmFails,
         setArbitrumStageAndEnd, RetryOrEnd, TaskAborts
<1>3. QED
  BY <1>1, <1>2 DEF Turns

LEMMA SequencerTurns ==
    ASSUME \/ SequencerStep
           \/ \E i \in Intent : Dispatch(i) \/ BootResume(i)
    PROVE  \E pc \in Unslashing : Turns(Sequencer, pc)
<1> DEFINE Pcs == {"gate", "post", "postWait", "verify", "pay", "child", "childWait", "cread"}
<1>1. Pcs \subseteq Unslashing /\ Sequencer \in Task
  BY DEF Unslashing, Pc, Task
<1>2. CASE Confirming(Sequencer) \/ TaskAborts(Sequencer)
  BY <1>1, <1>2, ConfirmingTurns
<1>3. CASE \E i \in Intent : Dispatch(i) \/ BootResume(i)
  <2>1. \E pc \in Pcs : \E i, s, ref : Begin(Sequencer, pc, i, s, ref)
    BY <1>3 DEF Dispatch, BootResume
  <2>2. QED
    BY <1>1, <2>1 DEF Turns
<1>4. CASE Gate \/ PostSign \/ PostUnrecorded \/ PostFails \/ PostSucceeds \/ Verify
  <2>1. \E pc \in Pcs :
          \/ Goto(Sequencer, pc) \/ Finish(Sequencer)
          \/ \E d : GotoAfterClock(Sequencer, pc, d)
          \/ \E fn, a : Sign(Sequencer, fn, a, pc)
    BY <1>4 DEF Gate, PostSign, PostUnrecorded, PostFails, PostSucceeds, Verify, setArbitrumStageAndEnd
  <2>2. QED
    BY <1>1, <2>1 DEF Turns
<1>5. CASE Pay \/ ChildFails \/ ChildSucceeds
  <2>1. \E pc \in Pcs : \/ Goto(Sequencer, pc) \/ Finish(Sequencer)
                         \/ \E d : GotoAfterClock(Sequencer, pc, d)
    BY <1>5 DEF Pay, ChildFails, ChildSucceeds, PayoutFailed, setArbitrumStageAndEnd
  <2>2. QED
    BY <1>1, <2>1 DEF Turns
<1>6. CASE ChildSigns
  <2>1. \E ref : task' = [task EXCEPT ![Sequencer].pc = "childWait", ![Sequencer].ref = ref]
    BY <1>6 DEF ChildSigns
  <2>2. QED
    BY <1>1, <2>1 DEF Turns
<1>7. QED
  BY <1>2, <1>3, <1>4, <1>5, <1>6 DEF SequencerStep

LEMMA ReconcilerTurns ==
    ASSUME NEW w \in Reconciler, ReconcilerStep(w)
    PROVE  \E pc \in Unslashing : Turns(w, pc)
<1>1. {"rcheck", "rresume", "cread"} \subseteq Unslashing /\ w \in Task
  BY DEF Unslashing, Pc, Task
<1>2. CASE Confirming(w) \/ TaskAborts(w)
  BY <1>1, <1>2, ConfirmingTurns
<1>3. CASE (\E i \in Intent : ReconcileStart(w, i)) \/ ReconcileCheck(w) \/ ReconcileResume(w)
  <2>1. \E pc \in {"rcheck", "rresume", "cread"} :
          \/ Goto(w, pc) \/ Finish(w)
          \/ \E d : GotoAfterClock(w, pc, d)
          \/ \E i, s, ref : Begin(w, pc, i, s, ref)
    BY <1>3 DEF ReconcileStart, ReconcileCheck, ReconcileResume
  <2>2. QED
    BY <1>1, <2>1 DEF Turns
<1>4. QED
  BY <1>2, <1>3 DEF ReconcilerStep

\* A poller's turn may be towards the slashing.
LEMMA PollerTurns ==
    ASSUME NEW w \in Poller, PollerStep(w)
    PROVE  \/ \E pc \in Unslashing : Turns(w, pc)
           \/ SlashSign(w) /\ Turns(w, "swait")
           \/ (PollCheck(w) \/ PollSig(w)) /\ Turns(w, "ssign")
<1>1. {"pcheck", "psig", "cread"} \subseteq Unslashing /\ w \in Task
  BY DEF Unslashing, Pc, Task
<1>2. CASE Confirming(w) \/ TaskAborts(w)
  BY <1>1, <1>2, ConfirmingTurns
<1>3. CASE \E i \in Intent : PollStart(w, i)
  <2>1. \E i, s, ref : Begin(w, "pcheck", i, s, ref)
    BY <1>3 DEF PollStart
  <2>2. QED
    BY <1>1, <2>1 DEF Turns
<1>4. CASE SlashUnrecorded(w) \/ SlashSucceeds(w) \/ SlashFails(w)
  BY <1>1, <1>4 DEF SlashUnrecorded, SlashSucceeds, SlashFails, setArbitrumStageAndEnd, Turns
<1>5. CASE SlashSign(w)
  BY <1>5 DEF SlashSign, Turns
<1>6. CASE PollCheck(w) \/ PollSig(w)
  <2>1. \E pc \in {"psig", "cread", "ssign"} :
          \/ Goto(w, pc) \/ Finish(w)
          \/ \E d : GotoAfterClock(w, pc, d)
    BY <1>6 DEF PollCheck, PollSig
  <2>2. PICK pc \in {"psig", "cread", "ssign"} : Turns(w, pc)
    BY <2>1 DEF Turns
  <2>3. QED
    BY <1>1, <1>6, <2>2
<1>7. QED
  BY <1>2, <1>3, <1>4, <1>5, <1>6 DEF PollerStep

\* Only two steps bring a task to the slashing.
LEMMA SlashComesFrom ==
    ASSUME Inv, [Next]_vars, NEW t \in Task, task'[t].pc \in {"ssign", "swait"}
    PROVE  \/ task'[t] = task[t]
           \/ t \in Poller /\ (SlashSign(t) \/ PollCheck(t) \/ PollSig(t))
<1>1. task \in [Task -> TaskRecord] /\ Sequencer \in Task /\ Poller \subseteq Task /\ Reconciler \subseteq Task
      /\ "idle" \in Unslashing /\ {"ssign", "swait"} \cap Unslashing = {}
  BY DEF Inv, TypeOK, Task, Unslashing, Pc
<1>2. ASSUME NEW u \in Task, NEW pc \in Unslashing, Turns(u, pc) PROVE task'[t] = task[t]
  BY <1>1, <1>2, Turned
<1>3. CASE SequencerStep \/ \E i \in Intent : Dispatch(i) \/ BootResume(i)
  BY <1>1, <1>2, <1>3, SequencerTurns
<1>4. ASSUME NEW w \in Reconciler, ReconcilerStep(w) PROVE task'[t] = task[t]
  BY <1>1, <1>2, <1>4, ReconcilerTurns
<1>5. ASSUME NEW w \in Poller, PollerStep(w)
      PROVE  task'[t] = task[t] \/ (t = w /\ (SlashSign(t) \/ PollCheck(t) \/ PollSig(t)))
  BY <1>1, <1>2, <1>5, PollerTurns, Turned
<1>6. CASE Crash
  BY <1>6 DEF Crash, Idle
<1>7. CASE \/ Wire \/ Others \/ Tick \/ Boot \/ BootNextPass \/ UNCHANGED vars
           \/ \E i \in Intent : BootSettling(i) \/ BootMid(i)
  BY <1>7 DEF Wire, Broadcast, Mine, ChildSends, PayoutLands, Others, Tick, Boot, BootNextPass, BootSettling,
              BootMid, vars
<1>8. QED
  BY <1>3, <1>4, <1>5, <1>6, <1>7 DEF Next, BootStep

\* The record of what a slash would have to find: nothing landed, and it is too late.
LEMMA SlashDecisions ==
    ASSUME Inv, OnceInv, ClockInv, NEW w \in Poller, PollCheck(w) \/ PollSig(w), task'[w].pc = "ssign"
    PROVE  Unpayable(task[w].intent) /\ task'[w].intent = task[w].intent
<1> DEFINE i == task[w].intent
<1>1. /\ task \in [Task -> TaskRecord] /\ w \in Task /\ task[w].pc \in {"pcheck", "psig"} /\ ~At(w, "idle")
  BY DEF Inv, TypeOK, Task, PollCheck, PollSig, At
<1>2. /\ i \in Intent /\ settled[i] \in SettledEntry /\ sigs[i] \in Sigs /\ Len(sigs[i]) \in Nat
      /\ DOMAIN sigs[i] = 1 .. Len(sigs[i])
      /\ now \in Nat /\ intents[i].expiry \in Nat
      /\ Len(sigs[i]) = settled[i].sig /\ settled[i].sig <= 1
      /\ settled[i].status = "none" <=> settled[i].sig = 0
  BY <1>1, Running, Indices, RecordTypes DEF OnceInv, Inv, Contract!IntentRecord
<1>3. ~Finish(w)
  <2>1. Finish(w) => task'[w].pc = "idle"
    BY <1>1 DEF Finish, Idle
  <2>2. QED
    BY <2>1
<1>4. CASE PollCheck(w)
  <2>1. /\ ~(now < intents[i].expiry)
        /\ \/ GotoAfterClock(w, "ssign", 0) /\ settled[i].status = "none"
           \/ GotoAfterClock(w, "cread", 0)
           \/ GotoAfterClock(w, "psig", 0)
    BY <1>3, <1>4 DEF PollCheck
  <2>2. settled[i].status = "none" /\ task'[w].intent = i
    BY <1>1, <2>1 DEF GotoAfterClock, TaskRecord
  <2>3. QED
    BY <1>2, <2>1, <2>2 DEF Unpayable, Landed
<1>5. CASE PollSig(w)
  <2>1. now >= intents[i].expiry
    BY <1>1, <1>5 DEF PollSig, At, ClockInv, TasksOnTime, ClockOK, LatePc
  <2>2. sigs[i][settled[i].sig].st # "landed" /\ task'[w].intent = i
    BY <1>1, <1>5 DEF PollSig, Goto, TaskRecord
  <2>3. ~Landed(i)
    BY <1>2, <2>2 DEF Landed
  <2>4. QED
    BY <2>1, <2>2, <2>3 DEF Unpayable
<1>6. QED
  BY <1>4, <1>5

LEMMA NextSlash ==
    ASSUME Patience + SigValidity <= DELIVERY_MARGIN_SEC,
           Inv, OnceInv, ClockInv, SlashInv, [Next]_vars
    PROVE  SlashInv'
<1>1. ASSUME NEW i \in Intent, Unpayable(i), intents[i].owner # NoAccount PROVE Unpayable(i)'
  BY <1>1, UnpayableStays
<1>2. ASSUME NEW t \in Task, task[t].pc # "idle", NEW i, i = task[t].intent, Unpayable(i) PROVE Unpayable(i)' /\ i \in Intent
  <2>1. i \in Intent /\ ClockOK(t, task[t])
    BY <1>2, Running DEF ClockInv, TasksOnTime, At
  <2>2. QED
    BY <1>1, <1>2, <2>1 DEF ClockOK
<1>3. ASSUME NEW t \in Task, task'[t].pc \in {"ssign", "swait"}, NEW i, i = task'[t].intent PROVE Unpayable(i)'
  <2>1. CASE task'[t] = task[t]
    <3>1. i = task[t].intent /\ task[t].pc # "idle" /\ Unpayable(task[t].intent)
      BY <1>3, <2>1 DEF SlashInv
    <3>2. QED
      BY <1>2, <3>1
  <2>2. CASE t \in Poller /\ SlashSign(t)
    <3>1. task[t].pc = "ssign" /\ i = task[t].intent
      BY <1>3, <2>2 DEF SlashSign, Sign, At, Inv, TypeOK, TaskRecord
    <3>2. Unpayable(task[t].intent)
      BY <3>1 DEF SlashInv
    <3>3. QED
      BY <1>2, <3>1, <3>2
  <2>3. CASE t \in Poller /\ (PollCheck(t) \/ PollSig(t))
    <3>1. task'[t].pc = "ssign" /\ task[t].pc # "idle"
      BY <1>3, <2>3 DEF PollCheck, PollSig, Goto, Finish, GotoAfterClock, Idle, At, Inv, TypeOK, TaskRecord
    <3>2. Unpayable(task[t].intent) /\ i = task[t].intent
      BY <1>3, <2>3, <3>1, SlashDecisions
    <3>3. QED
      BY <1>2, <3>1, <3>2
  <2>4. QED
    BY <1>3, <2>1, <2>2, <2>3, SlashComesFrom
<1>4. ASSUME NEW i \in Intent, Slashing(i) PROVE Unpayable(i)'
  <2>1. Unpayable(i)
    BY <1>4 DEF SlashInv, Slashing
  <2>2. txs[i] \in Txs /\ (intents[i].status = "Slashed" => intents[i].owner # NoAccount)
    BY DEF Inv, TypeOK, Txs, SettlementInv, WireInv, WireOK
  <2>3. intents[i].owner # NoAccount
    BY <1>4, <2>2, Indices DEF Slashing, ClockInv
  <2>4. QED
    BY <1>1, <2>1, <2>3
<1>5. ASSUME NEW i \in Intent, NEW n \in DOMAIN txs'[i], txs'[i][n].fn = "slash" PROVE Unpayable(i)'
  <2>1. txs \in [Intent -> Txs]
    BY DEF Inv, TypeOK, Txs
  <2>2. CASE n \in DOMAIN txs[i] /\ txs[i][n].fn = "slash"
    BY <1>4, <2>2 DEF Slashing
  <2>3. CASE UNCHANGED txs
    BY <1>5, <2>2, <2>3
  <2>4. ASSUME NEW j \in Intent, NEW m \in DOMAIN txs[j], NEW st \in TxState,
               txs' = [txs EXCEPT ![j] = [txs[j] EXCEPT ![m].st = st]]
        PROVE  n \in DOMAIN txs[i] /\ txs[i][n].fn = "slash"
    <3>1. txs[j][m] \in Transaction
      BY <2>1, ElementOfSeq, Indices DEF Txs
    <3>2. QED
      BY <1>5, <2>1, <2>4, <3>1, Indices DEF Transaction
  <2>5. ASSUME NEW t \in Task, NEW tx \in Transaction, task[t].pc \in {"post", "csign", "ssign"},
               tx.fn = "slash" => task[t].pc = "ssign",
               txs' = [txs EXCEPT ![task[t].intent] = Append(txs[task[t].intent], tx)],
               task[t].intent \in Intent
        PROVE  Unpayable(i)'
    <3>1. \/ n \in DOMAIN txs[i] /\ txs'[i][n] = txs[i][n]
          \/ task[t].intent = i /\ txs'[i][n] = tx
      BY <1>5, <2>1, <2>5, AppendProperties, Indices DEF Txs
    <3>2. CASE task[t].intent = i /\ tx.fn = "slash"
      BY <1>2, <2>5, <3>2 DEF SlashInv
    <3>3. QED
      BY <1>5, <2>2, <3>1, <3>2
  <2>6. QED
    BY <2>2, <2>3, <2>4, <2>5, TxKinds
<1>6. ASSUME NEW i \in Intent, intents'[i].status = "Slashed" PROVE Unpayable(i)'
  BY <1>4, <1>6, StepTells
<1>7. \A t \in Task : task'[t].pc \in {"ssign", "swait"} => Unpayable(task[t].intent)'
  BY <1>3 DEF Unpayable, Landed
<1>8. QED
  BY <1>5, <1>6, <1>7 DEF SlashInv

LEMMA InitSlash == Init => SlashInv
BY DEF Init, Chain!InitWith, Chain!EmptyIntent, Chain!Intent, Intent, SlashInv, Idle

\* A solver that delivered is not slashed by a process that has not crashed, if the
\* delivery margin leaves a payout the time to land or to die before the expiry.  (After a
\* crash a resumed sequence pays without looking at the clock: MCLateResume.cfg.)
THEOREM DeliveredIsSafe ==
    DiskMayFail = FALSE /\ Patience + SigValidity <= DELIVERY_MARGIN_SEC
        => (Spec => [](crashes = 0 => DeliveredNeverSlashed))
<1> SUFFICES ASSUME DiskMayFail = FALSE, Patience + SigValidity <= DELIVERY_MARGIN_SEC
             PROVE  Spec => [](crashes = 0 => DeliveredNeverSlashed)
  OBVIOUS
<1>1. Inv /\ OnceInv /\ (crashes = 0 => ClockInv) /\ (crashes = 0 => SlashInv) /\ [Next]_vars
        => (crashes = 0 => SlashInv)'
  BY CrashesCount, NextSlash
<1>2. SlashInv => DeliveredNeverSlashed
  BY DEF SlashInv, DeliveredNeverSlashed, Unpayable
<1>3. QED
  BY <1>1, <1>2, InitSlash, InvHolds, OnceHolds, ClockHolds, PTL DEF Spec

=============================================================================
