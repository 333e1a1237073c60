--------------------------- MODULE SolverRouting ---------------------------
(***************************************************************************)
(* Which configured solver posts the collateral of an intent, and the      *)
(* capital reserved for it: orchestrator/src/solver_routing.ts, with the   *)
(* part of the settlement sequence that moves the solver's capital         *)
(* (arbitrum_settlement.ts up to the postCollateral receipt).              *)
(*                                                                         *)
(* A job runs dispatchArbitrumSettlement for one intent; a step is the     *)
(* code between two awaits.  The process's queue runs one job at a time;   *)
(* the reservation book promises more, that concurrent selections do not   *)
(* book the same capital twice, so the model has a set of jobs.            *)
(***************************************************************************)
EXTENDS Integers, Sequences, FiniteSets, Functions

CONSTANTS
    Intent, Solver, NoSolver, Job, NoJob,
    Amount,             \* [Intent -> Nat]
    GasBuffer,          \* ARBITRUM_GAS_BUFFER_WEI
    Capital,            \* [Solver -> Nat], the solvers' wallets at the start
    TierCap,            \* [Solver -> Nat], what the solver's tier may carry
    SuccessRate,        \* [Solver -> Int], -1 without a history
    Address,            \* [Solver -> Nat], the order of the addresses
    Hold,               \* RESERVATION_HOLD_SEC
    Lag,                \* how far behind an RPC node may be
    Patience,           \* longest time from a selection's reads to its decision
    MayLoseReceipt,     \* waiting for a receipt may fail although the transaction is out
    BootOutlastsLag,    \* a restart takes longer than an RPC node may be behind
    MaxTx,              \* bound: postCollateral transactions signed
    MaxCrashes,         \* bound: process crashes
    MaxTime             \* bound: last second explored

ASSUME RoutingAssumption ==
    /\ NoSolver \notin Solver /\ NoJob \notin Job
    /\ Hold \in Nat /\ Lag \in Nat /\ Patience \in Nat /\ MaxTime \in Nat
    /\ MaxTx \in Nat /\ MaxCrashes \in Nat
    /\ IsFiniteSet(Intent) /\ Amount \in [Intent -> Nat] /\ GasBuffer \in Nat
    /\ Capital \in [Solver -> Nat]
    /\ Address \in [Solver -> Nat] /\ \A s, t \in Solver : Address[s] = Address[t] => s = t

VARIABLES
    now,
    ledger,     \* the Arbitrum ledger: stage and solver of each intent
    book,       \* ReservationBook: a set of reservations
    lock,       \* the job inside runExclusive
    up,         \* the boot reconciliation is over
    job,        \* the jobs
    txs,        \* postCollateral transactions signed by this process
    mined,      \* the chain: collateral that left a wallet, in order
    crashes

vars == <<now, ledger, book, lock, job, txs, mined, crashes, up>>

\* The reservation is still open; its collateral is not resolved.
Pending == -1

Idle == [pc |-> "idle", intent |-> {}, solver |-> NoSolver, ref |-> 0, due |-> 0]
NoEntry == [stage |-> "none", solver |-> NoSolver]

\* collateral + gas buffer: what is reserved, and at most what a transaction takes.
Need(i) == (Amount[i] * 150) \div 100 + GasBuffer
NeedOf(S) == SumFunctionOnSet([i \in Intent |-> Need(i)], S)

At(j, pc) == job[j].pc = pc
On(j, i) == job[j].intent = {i}
Goto(j, pc) == job' = [job EXCEPT ![j].pc = pc]
Finish(j) == job' = [job EXCEPT ![j] = Idle]
setArbitrumStage(i, stage, solver) == ledger' = [ledger EXCEPT ![i] = [stage |-> stage, solver |-> solver]]

----------------------------------------------------------------------------
(***************************************************************************)
(* The chain, through a node that may lag.                                 *)
(***************************************************************************)
\* The contract takes an intent's collateral once.
MinedFor(s, k) == {mined[n].intent : n \in {m \in 1 .. k : mined[m].solver = s}}
Spent(s, k) == NeedOf(MinedFor(s, k))
Wallet(s) == Capital[s] - Spent(s, Len(mined))

\* How many of the mined transactions the answering node may know of.
View == {k \in 0 .. Len(mined) : \A n \in DOMAIN mined : n > k => now < mined[n].at + Lag}

----------------------------------------------------------------------------
(***************************************************************************)
(* The reservation book: a solver's map has one reservation by intent.     *)
(***************************************************************************)
Of(s, i) == {r \in book : r.solver = s /\ r.intent = i}
Lapsed(r) == r.release # Pending /\ now >= r.release

reserve(kept, s, i) == book' = (kept \ Of(s, i)) \cup {[solver |-> s, intent |-> i, release |-> Pending]}
release(s, i) == book' = book \ Of(s, i)

\* Mutant of holdFor: confirmed collateral is not counted any more.
holdForNothing(s, i) == release(s, i)

holdFor(s, i) ==
    book' = {IF r \in Of(s, i) /\ r.release = Pending THEN [r EXCEPT !.release = now + Hold] ELSE r : r \in book}

ReservedFor(s) == {r.intent : r \in {x \in book : x.solver = s /\ ~Lapsed(x)}}
reservedWei(s) == NeedOf(ReservedFor(s))
hasIntent(i) == \E r \in book : r.intent = i

\* Signed collateral transactions the book does not count, after a restart.
InFlight == {i \in Intent : ledger[i].stage = "posting_collateral" /\ ~hasIntent(i)}

Available(s, balance) ==
    balance - reservedWei(s) - NeedOf({i \in InFlight : ledger[i].solver = s})

----------------------------------------------------------------------------
(***************************************************************************)
(* selectSolver.                                                           *)
(***************************************************************************)
\* Routing runs only for an intent whose sequence never started or failed before any
\* collateral left.  Two jobs on one intent cannot overlap: the queue is sequential.
Dispatch(j, i) ==
    /\ up
    /\ At(j, "idle")
    /\ \A k \in Job : ~On(k, i)
    /\ ledger[i].stage \in {"none", "collateral_failed"}
    /\ job' = [job EXCEPT ![j] = [pc |-> "enter", intent |-> {i}, solver |-> NoSolver, ref |-> 0, due |-> 0]]
    /\ UNCHANGED <<now, ledger, book, lock, txs, mined, crashes, up>>

\* Mutant of Reads: selections are not serialized.
ReadsUnlocked(j) ==
    /\ At(j, "enter")
    /\ lock' = j
    /\ \E k \in View : job' = [job EXCEPT ![j] = [pc |-> "decide", intent |-> job[j].intent, solver |-> NoSolver,
                                           ref |-> k, due |-> now + Patience]]
    /\ UNCHANGED <<now, ledger, book, txs, mined, crashes, up>>

\* runExclusive admits one selection; its reads are one step, however long the decision
\* takes to come.  ref is what the answering node knows of the chain.
Reads(j) ==
    /\ At(j, "enter")
    /\ lock = NoJob
    /\ lock' = j
    /\ \E k \in View : job' = [job EXCEPT ![j] = [pc |-> "decide", intent |-> job[j].intent, solver |-> NoSolver,
                                           ref |-> k, due |-> now + Patience]]
    /\ UNCHANGED <<now, ledger, book, txs, mined, crashes, up>>

\* Smallest tier cap, then higher success rate, then more capital, then lowest address.
Better(a, b, avail) ==
    \/ TierCap[a] < TierCap[b]
    \/ /\ TierCap[a] = TierCap[b]
       /\ \/ SuccessRate[a] > SuccessRate[b]
          \/ /\ SuccessRate[a] = SuccessRate[b]
             /\ \/ avail[a] > avail[b]
                \/ avail[a] = avail[b] /\ Address[a] < Address[b]

\* What decide computes for the solvers whose reads succeeded and who are approved.
Eligible(answered, i, avail) == {s \in answered : avail[s] >= Need(i) /\ TierCap[s] >= Amount[i]}

\* One synchronous step: evaluate, rank, reserve.  balances is whose balance was read (for
\* them reservedWei purges what has lapsed), answered whom no failed read, missing approval
\* or track record and no word of the chain about the intent ruled out.
Decide(j) ==
    /\ At(j, "decide")
    /\ lock' = NoJob
    /\ \E balances \in SUBSET Solver : \E answered \in SUBSET balances, i \in job[j].intent :
        LET avail == [s \in Solver |-> Available(s, Capital[s] - Spent(s, job[j].ref))]
            able == Eligible(answered, i, avail)
            kept == {r \in book : ~(Lapsed(r) /\ r.solver \in balances)}
        IN  \/ /\ able = {}
               /\ book' = kept
               /\ setArbitrumStage(i, "collateral_failed", ledger[i].solver)
               /\ Finish(j)
            \/ \E s \in able :
                /\ \A o \in able \ {s} : Better(s, o, avail)
                /\ reserve(kept, s, i)
                /\ job' = [job EXCEPT ![j] = [pc |-> "gate", intent |-> {i}, solver |-> s, ref |-> 0, due |-> 0]]
                /\ UNCHANGED ledger
    /\ UNCHANGED <<now, txs, mined, crashes, up>>

----------------------------------------------------------------------------
(***************************************************************************)
(* The sequence with the selected solver, up to the collateral's receipt.  *)
(***************************************************************************)
\* Mutant of Fails: the reservation is released only where postCollateral answered.
FailsAfterGateOnly(j) ==
    \E i \in job[j].intent :
        /\ setArbitrumStage(i, "collateral_failed", ledger[i].solver)
        /\ IF At(j, "gate") THEN UNCHANGED book ELSE release(job[j].solver, i)
        /\ Finish(j)

\* The refusal of the final gate or a failed postCollateral, and the finally.
Fails(j) ==
    \E i \in job[j].intent :
        /\ setArbitrumStage(i, "collateral_failed", ledger[i].solver)
        /\ release(job[j].solver, i)
        /\ Finish(j)

\* evaluateArbitrumGate on a fresh balance, reservations aside, and on the clock.
Gate(j) ==
    /\ At(j, "gate")
    /\ \/ Fails(j)
       \/ /\ \E k \in View, i \in job[j].intent : Capital[job[j].solver] - Spent(job[j].solver, k) >= Need(i)
          /\ Goto(j, "post")
          /\ UNCHANGED <<ledger, book>>
    /\ UNCHANGED <<now, lock, txs, mined, crashes, up>>

\* An error of the balance read leaves the sequence through the finally.
GateThrows(j) ==
    /\ At(j, "gate")
    /\ \E i \in job[j].intent : release(job[j].solver, i)
    /\ Finish(j)
    /\ UNCHANGED <<now, ledger, lock, txs, mined, crashes, up>>

\* Mutant of PostSign: the hash is not recorded before the broadcast.
PostSignUnrecorded(j) ==
    /\ At(j, "post")
    /\ Len(txs) < MaxTx
    /\ \E i \in job[j].intent :
        txs' = Append(txs, [solver |-> job[j].solver, intent |-> i, st |-> "signed"])
    /\ job' = [job EXCEPT ![j] = [pc |-> "wait", intent |-> job[j].intent, solver |-> job[j].solver,
                               ref |-> Len(txs) + 1, due |-> 0]]
    /\ UNCHANGED <<now, ledger, book, lock, mined, crashes, up>>

\* onSigned writes the ledger before the broadcast.
PostSign(j) ==
    /\ At(j, "post")
    /\ Len(txs) < MaxTx
    /\ \E i \in job[j].intent :
        /\ txs' = Append(txs, [solver |-> job[j].solver, intent |-> i, st |-> "signed"])
        /\ setArbitrumStage(i, "posting_collateral", job[j].solver)
    /\ job' = [job EXCEPT ![j] = [pc |-> "wait", intent |-> job[j].intent, solver |-> job[j].solver,
                               ref |-> Len(txs) + 1, due |-> 0]]
    /\ UNCHANGED <<now, book, lock, mined, crashes, up>>

Broadcast(j) ==
    /\ At(j, "wait")
    /\ txs[job[j].ref].st = "signed"
    /\ txs' = [txs EXCEPT ![job[j].ref].st = "mempool"]
    /\ UNCHANGED <<now, ledger, book, lock, job, mined, crashes, up>>

PostFails(j) ==
    /\ \/ At(j, "post") /\ UNCHANGED txs
       \/ /\ At(j, "wait")
          /\ txs[job[j].ref].st = "signed"
          /\ txs' = [txs EXCEPT ![job[j].ref].st = "dropped"]
       \/ /\ At(j, "wait")
          /\ txs[job[j].ref].st = "reverted" \/ (MayLoseReceipt /\ txs[job[j].ref].st # "signed")
          /\ UNCHANGED txs
    /\ Fails(j)
    /\ UNCHANGED <<now, lock, mined, crashes, up>>

\* The reservation goes on hold; the rest of the sequence no longer touches it.
PostSucceeds(j) ==
    /\ At(j, "wait")
    /\ txs[job[j].ref].st = "success"
    /\ \E i \in job[j].intent :
        /\ holdFor(job[j].solver, i)
        /\ setArbitrumStage(i, "collateral_posted", ledger[i].solver)
    /\ Finish(j)
    /\ UNCHANGED <<now, lock, txs, mined, crashes, up>>

----------------------------------------------------------------------------
(***************************************************************************)
(* The chain, the clock and the process.                                   *)
(***************************************************************************)
\* A transaction is executed if the wallet covers it; it may revert for many reasons.
Mine(n) ==
    /\ txs[n].st = "mempool"
    /\ \/ /\ Wallet(txs[n].solver) >= Need(txs[n].intent)
          /\ \A m \in DOMAIN mined : mined[m].intent # txs[n].intent
          /\ txs' = [txs EXCEPT ![n].st = "success"]
          /\ mined' = Append(mined, [solver |-> txs[n].solver, intent |-> txs[n].intent, at |-> now])
       \/ txs' = [txs EXCEPT ![n].st = "reverted"] /\ UNCHANGED mined
    /\ UNCHANGED <<now, ledger, book, lock, job, crashes, up>>

Tick ==
    /\ now < MaxTime
    /\ \A j \in Job : At(j, "decide") => now < job[j].due
    /\ now' = now + 1
    /\ UNCHANGED <<ledger, book, lock, job, txs, mined, crashes, up>>

\* The book is memory only; the ledger and the transactions already out remain.
Crash ==
    /\ crashes < MaxCrashes
    /\ crashes' = crashes + 1
    /\ book' = {}
    /\ lock' = NoJob
    /\ job' = [j \in Job |-> Idle]
    /\ txs' = [n \in DOMAIN txs |-> IF txs[n].st = "signed" THEN [txs[n] EXCEPT !.st = "dropped"] ELSE txs[n]]
    /\ up' = FALSE
    /\ UNCHANGED <<now, ledger, mined>>

\* reconcileArbitrumLedger settles an entry a crash left behind, from its receipt ...
BootMid(i) ==
    /\ ~up
    /\ ledger[i].stage = "posting_collateral"
    /\ \E n \in DOMAIN txs :
        /\ txs[n].intent = i
        /\ \A m \in DOMAIN txs : txs[m].intent = i => m <= n
        /\ \/ txs[n].st = "success" /\ setArbitrumStage(i, "collateral_posted", ledger[i].solver)
           \/ txs[n].st = "reverted" /\ setArbitrumStage(i, "collateral_failed", ledger[i].solver)
    /\ UNCHANGED <<now, book, lock, job, txs, mined, crashes, up>>

\* ... or leaves it, if there is none yet or the read fails, until the next boot.
BootDone ==
    /\ ~up
    /\ BootOutlastsLag => \A k \in DOMAIN mined : mined[k].at + Lag <= now
    /\ up' = TRUE
    /\ UNCHANGED <<now, ledger, book, lock, job, txs, mined, crashes>>

Init ==
    /\ now = 0
    /\ ledger = [i \in Intent |-> NoEntry]
    /\ book = {}
    /\ lock = NoJob
    /\ job = [j \in Job |-> Idle]
    /\ txs = <<>>
    /\ mined = <<>>
    /\ crashes = 0
    /\ up = FALSE

JobStep(j) ==
    \/ \E i \in Intent : Dispatch(j, i)
    \/ Reads(j) \/ Decide(j) \/ Gate(j) \/ GateThrows(j)
    \/ PostSign(j) \/ Broadcast(j) \/ PostFails(j) \/ PostSucceeds(j)

Next ==
    \/ \E j \in Job : JobStep(j)
    \/ \E n \in DOMAIN txs : Mine(n)
    \/ \E i \in Intent : BootMid(i)
    \/ BootDone
    \/ Crash
    \/ Tick

Spec == Init /\ [][Next]_vars

----------------------------------------------------------------------------
Stage == {"none", "posting_collateral", "collateral_posted", "collateral_failed"}
TxState == {"signed", "mempool", "success", "reverted", "dropped"}
Working == {"gate", "post", "wait"}

Entry == [stage : Stage, solver : Solver \cup {NoSolver}]
Reservation == [solver : Solver, intent : Intent, release : Nat \cup {Pending}]
JobRecord == [pc : {"idle", "enter", "decide"} \cup Working, intent : SUBSET Intent,
              solver : Solver \cup {NoSolver}, ref : Nat, due : Nat]
TxRecord == [solver : Solver, intent : Intent, st : TxState]

\* The shape of the book, of the ledger's entries and of the jobs; the mutex of
\* runExclusive is held exactly by the job that is between its reads and its decision.
TypeOK ==
    /\ now \in Nat
    /\ ledger \in [Intent -> Entry]
    /\ book \subseteq Reservation
    /\ job \in [Job -> JobRecord]
    /\ txs \in Seq(TxRecord)
    /\ mined \in Seq([solver : Solver, intent : Intent, at : Nat])
    /\ \A j \in Job : At(j, "wait") => job[j].ref \in DOMAIN txs
    /\ lock \in Job \cup {NoJob}
    /\ up \in BOOLEAN
    /\ \A j \in Job : At(j, "decide") <=> lock = j

\* The process has promised solver s's capital to intent i: a job is about to sign, or a
\* transaction is out that may still be mined.
Live(n) == txs[n].st \in {"signed", "mempool"}
Committed(s, i) ==
    \/ \E j \in Job : job[j].pc \in {"gate", "post"} /\ On(j, i) /\ job[j].solver = s
    \/ \E n \in DOMAIN txs : Live(n) /\ txs[n].solver = s /\ txs[n].intent = i

\* A solver's capital is never promised twice: what is committed of it is in its wallet
\* (solver_routing.ts, L7).
Promised(s) == {i \in Intent : Committed(s, i)}
CapitalCovers == \A s \in Solver : NeedOf(Promised(s)) <= Wallet(s)

\* Routing counts every commitment, once: in the book while this process knows of it, in
\* the ledger's in-flight entries after a restart, never in neither.
CommitmentsCounted ==
    \A s \in Solver, i \in Intent :
        Committed(s, i) =>
            \/ \E r \in book : r.solver = s /\ r.intent = i /\ r.release = Pending
            \/ i \in InFlight /\ ledger[i].solver = s

\* No reservation outlives its job: an open one belongs to a job at work for that solver
\* and intent, so that no failure, refusal or exception keeps capital booked for ever.
NoLeakedReservation ==
    \A r \in book : r.release = Pending =>
        \E j \in Job : job[j].pc \in Working /\ On(j, r.intent) /\ job[j].solver = r.solver
=============================================================================
