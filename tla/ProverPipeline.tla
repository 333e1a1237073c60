--------------------------- MODULE ProverPipeline ---------------------------
(***************************************************************************)
(* From an IntentCreated log to a settlement, and what the dashboard       *)
(* records of it: ProverQueue, proveIntent and the settle gate of          *)
(* orchestrator/src/prover_pipeline.ts, logIntentCreated,                  *)
(* triggerZKVerification, runSolanaPayout and the finality poller of       *)
(* listener.ts, and the records of intent_state.ts.                        *)
(*                                                                         *)
(* An action is the code between two awaits.  The settlement sequence is   *)
(* module Settlement; here it is what it does to the settled ledger and to *)
(* the record.  Provers are processes of the host: they outlive the        *)
(* listener and share the flock and the proof files.                       *)
(***************************************************************************)
EXTENDS Integers, Sequences, FiniteSets

CONSTANTS
    Intent, NoIntent,
    Prover,             \* process slots of the host
    Reconciler,         \* passes of reconcileSettlingLedger that may overlap
    MAX_PROVER_RETRIES,
    RecordMayFail,      \* a write of a record (writeStateFile) may throw
    MaxBlock,           \* bound: blocks a transaction may be found in
    MaxMoves,           \* bound: inclusions and reorganisations of an intent
    MaxDeliveries,      \* bound: logs of an intent
    MaxCrashes          \* bound: crashes of the listener

ASSUME ProverAssumption ==
    /\ NoIntent \notin Intent
    /\ MAX_PROVER_RETRIES \in Nat \ {0} /\ RecordMayFail \in BOOLEAN
    /\ MaxBlock \in Nat /\ MaxMoves \in Nat /\ MaxDeliveries \in Nat /\ MaxCrashes \in Nat

VARIABLES
    where,          \* the canonical block that holds the intent's transaction, 0 if none
    finalized,      \* the finalized tag has passed it
    moves, deliveries, crashes,
    proc,           \* the prover processes
    proof,          \* proof_<id>.bin and .json: the block they commit to, 0 if missing
    sig,            \* the payout: none, held (no GO), sent, landed
    payouts,        \* history: payouts signed
    ledger,         \* settled_intents.json
    rec,            \* state/intents/<id>.json
    dispatched,     \* intents the Arbitrum ledger knows
    phase,          \* down, boot, up
    queue, job,     \* ProverQueue and the job it runs
    since,          \* history: blocks that were canonical since the job started
    pass,           \* passes of reconcileSettlingLedger, one entry each
    alerted         \* alreadyAlertedSettlingSigs

chainVars == <<where, finalized, moves, deliveries, crashes>>
hostVars == <<proc, proof>>
payVars == <<sig, payouts, ledger, dispatched>>
taskVars == <<phase, pass, alerted>>
vars == <<chainVars, hostVars, payVars, taskVars, rec, queue, job, since>>

NoProc == [st |-> "none", i |-> NoIntent, block |-> 0, code |-> "none", mine |-> FALSE]
NoJob == [i |-> NoIntent, pc |-> "idle", attempt |-> 0, json |-> 0, answer |-> 0]
NoPass == [st |-> "free", i |-> NoIntent, landed |-> FALSE]
blankState == [status |-> "queued", settlement |-> "none", block |-> 0, final |-> FALSE]

setStatus(r, i, s) == [r EXCEPT ![i].status = s]
setSettlement(i, s) == [rec EXCEPT ![i].settlement = s]

isAlreadySettled(i) == ledger[i] = "settled"

\* Mutant of midSettlement: "settling" counts for nothing.
midSettlementNever(i) == FALSE

midSettlement(i) == ledger[i] = "settling"

----------------------------------------------------------------------------
(***************************************************************************)
(* The chain and the host.                                                 *)
(***************************************************************************)
\* The intent's transaction is included, or a reorganisation moves or drops it.
ChainMoves(i) ==
    /\ moves[i] < MaxMoves /\ ~finalized[i]
    /\ \E b \in 0 .. MaxBlock :
        /\ b # where[i]
        /\ where' = [where EXCEPT ![i] = b]
        /\ since' = IF job.i = i THEN since \cup {b} ELSE since
    /\ moves' = [moves EXCEPT ![i] = @ + 1]
    /\ UNCHANGED <<finalized, deliveries, crashes, hostVars, payVars, taskVars, rec, queue, job>>

\* The finalized tag passes the blocks the intent was in.
Finalize(i) ==
    /\ moves[i] > 0 /\ ~finalized[i]
    /\ finalized' = [finalized EXCEPT ![i] = TRUE]
    /\ UNCHANGED <<where, moves, deliveries, crashes, hostVars, payVars, taskVars, rec, queue, job, since>>

ProcStep == UNCHANGED <<chainVars, payVars, taskVars, rec, queue, job, since>>

\* flock: one prover at a time on the host, whoever started it.
ProverLocks(p) ==
    /\ proc[p].st = "waiting"
    /\ \A q \in Prover : proc[q].st \notin {"running", "saved"}
    /\ proc' = [proc EXCEPT ![p].st = "running"]
    /\ UNCHANGED proof /\ ProcStep

\* native_precheck finds the transaction and its block.
ProverReads(p) ==
    /\ proc[p].st = "running" /\ proc[p].block = 0 /\ where[proc[p].i] # 0
    /\ proc' = [proc EXCEPT ![p].block = where[proc[p].i]]
    /\ UNCHANGED proof /\ ProcStep

\* The proof verifies and its .bin is renamed into place.
ProverSaves(p) ==
    /\ proc[p].st = "running" /\ proc[p].block # 0
    /\ proof' = [proof EXCEPT ![proc[p].i].bin = proc[p].block]
    /\ proc' = [proc EXCEPT ![p].st = "saved"]
    /\ ProcStep

\* A process that ends tells its parent, if that is still there, and releases the lock.
Exit(p, c) ==
    proc' = [proc EXCEPT ![p] = IF proc[p].mine THEN [@ EXCEPT !.st = "exited", !.code = c] ELSE NoProc]

\* The .json follows; that its write failed is a warning and still exit 0.
ProverSucceeds(p) ==
    /\ proc[p].st = "saved"
    /\ proof' \in {proof, [proof EXCEPT ![proc[p].i].json = proc[p].block]}
    /\ Exit(p, "ok")
    /\ ProcStep

\* infra: an RPC error, out of memory, RuntimeMaxSec, the spawn itself; semantic: the
\* precheck refuses the intent; unverified: the proof does not verify.
ProverFails(p) ==
    /\ \/ proc[p].st \in {"waiting", "running", "saved"} /\ Exit(p, "infra")
       \/ proc[p].st = "running" /\ proc[p].block # 0 /\ Exit(p, "semantic")
       \/ proc[p].st = "running" /\ proc[p].block # 0 /\ Exit(p, "unverified")
    /\ UNCHANGED proof /\ ProcStep

PayoutLands(i) ==
    /\ sig[i] = "sent"
    /\ sig' = [sig EXCEPT ![i] = "landed"]
    /\ UNCHANGED <<chainVars, hostVars, payouts, ledger, dispatched, taskVars, rec, queue, job, since>>

----------------------------------------------------------------------------
(***************************************************************************)
(* The queue.                                                              *)
(***************************************************************************)
\* runProverProcess; hp is what the host's processes are otherwise.
Spawn(hp, i) ==
    \E p \in Prover :
        /\ hp[p].st = "none"
        /\ proc' = [hp EXCEPT ![p] = [NoProc EXCEPT !.st = "waiting", !.i = i, !.mine = TRUE]]

\* ProverQueue.pump when no job is running: the first of q starts, up to its first await.
\* A job whose setProving throws ends as a rejected promise.
Pump(q, hp, r) ==
    \/ /\ q = <<>>
       /\ queue' = q /\ job' = NoJob /\ since' = {}
       /\ proc' = hp /\ rec' = r
    \/ /\ q # <<>>
       /\ queue' = Tail(q)
       /\ since' = {where[Head(q)]}
       /\ \/ /\ job' = [NoJob EXCEPT !.i = Head(q), !.pc = "proving", !.attempt = 1]
             /\ Spawn(hp, Head(q))
             /\ rec' = setStatus(r, Head(q), "proving")
          \/ /\ RecordMayFail
             /\ job' = [NoJob EXCEPT !.i = Head(q), !.pc = "threw"]
             /\ proc' = hp /\ rec' = r

\* Mutant of JobEnds: running is reset, and pump is left to the next log.
JobEndsUnpumped(hp, r) ==
    /\ queue' = queue /\ job' = NoJob /\ since' = {}
    /\ proc' = hp /\ rec' = r

\* The job's promise settles, one way or the other, and the queue goes on.
JobEnds(hp, r) == Pump(queue, hp, r)

\* logIntentCreated: a record, and a job for the queue.  A log may come again, after a
\* reorganisation or from the watcher, and starts another job.
IntentCreated(i) ==
    LET r == [rec EXCEPT ![i].status = "queued", ![i].block = where[i]] IN
    /\ phase = "up" /\ where[i] # 0 /\ deliveries[i] < MaxDeliveries
    /\ deliveries' = [deliveries EXCEPT ![i] = @ + 1]
    /\ \/ job.pc = "idle" /\ Pump(Append(queue, i), proc, r)
       \/ /\ job.pc # "idle"
          /\ queue' = Append(queue, i) /\ rec' = r
          /\ UNCHANGED <<job, proc, since>>
       \/ RecordMayFail /\ UNCHANGED <<queue, rec, job, proc, since>>
    /\ UNCHANGED <<where, finalized, moves, crashes, proof, payVars, taskVars>>

----------------------------------------------------------------------------
(***************************************************************************)
(* The job: proveIntent and triggerZKVerification.                         *)
(***************************************************************************)
\* The job's own prover has ended with code c.
Ended(p, c) == job.pc = "proving" /\ proc[p].mine /\ proc[p].st = "exited" /\ proc[p].code = c
Reaped(p) == [proc EXCEPT ![p] = NoProc]
JobStep == UNCHANGED <<chainVars, proof, payVars, taskVars>>

\* readProofJson: both files must be there; whose run wrote them is not known.
readProofJson(i) == IF proof[i].bin # 0 THEN proof[i].json ELSE 0

ProofVerified(p) ==
    /\ Ended(p, "ok") /\ readProofJson(job.i) # 0
    /\ rec' = setStatus(rec, job.i, "verified")
    /\ job' = [job EXCEPT !.pc = "header", !.json = readProofJson(job.i)]
    /\ proc' = Reaped(p)
    /\ UNCHANGED <<queue, since>> /\ JobStep

ProofGivenUp(p) ==
    /\ \/ Ended(p, "ok") /\ readProofJson(job.i) = 0 /\ JobEnds(Reaped(p), setStatus(rec, job.i, "alert"))
       \/ Ended(p, "semantic") /\ JobEnds(Reaped(p), setStatus(rec, job.i, "rejected"))
       \/ Ended(p, "unverified") /\ JobEnds(Reaped(p), setStatus(rec, job.i, "alert"))
       \/ Ended(p, "infra") /\ job.attempt = MAX_PROVER_RETRIES
          /\ JobEnds(Reaped(p), setStatus(rec, job.i, "alert"))
    /\ JobStep

ProofRetried(p) ==
    /\ Ended(p, "infra") /\ job.attempt < MAX_PROVER_RETRIES
    /\ rec' = setStatus(rec, job.i, "retrying")
    /\ job' = [job EXCEPT !.pc = "backoff", !.attempt = @ + 1]
    /\ proc' = Reaped(p)
    /\ UNCHANGED <<queue, since>> /\ JobStep

\* The record of the outcome cannot be written, and proveIntent throws.
ProofThrows(p) ==
    /\ RecordMayFail
    /\ \E c \in {"ok", "infra", "semantic", "unverified"} : Ended(p, c)
    /\ job' = [job EXCEPT !.pc = "threw"]
    /\ proc' = Reaped(p)
    /\ UNCHANGED <<queue, since, rec>> /\ JobStep

\* The sleep is over.
Backoff ==
    /\ job.pc = "backoff"
    /\ Spawn(proc, job.i)
    /\ job' = [job EXCEPT !.pc = "proving"]
    /\ UNCHANGED <<queue, since, rec>> /\ JobStep

JobThrows == job.pc = "threw" /\ JobEnds(proc, rec) /\ JobStep

\* getBlock of the number the proof names: the hash that is canonical there now.
HeaderAnswered ==
    /\ job.pc = "header"
    /\ job' = [job EXCEPT !.pc = "gate", !.answer = where[job.i]]
    /\ UNCHANGED <<queue, since, rec, proc>> /\ JobStep

HeaderFails == job.pc = "header" /\ JobEnds(proc, rec) /\ JobStep

\* Mutant of evaluateSettleGate: the proof's own word for the block is taken.
evaluateSettleGateTrusting == ~isAlreadySettled(job.i)

\* evaluateSettleGate, as far as its checks depend on state; expiry is any refusal.
evaluateSettleGate == job.json = job.answer /\ ~isAlreadySettled(job.i)

GatePasses ==
    /\ job.pc = "gate" /\ evaluateSettleGate /\ ~midSettlement(job.i)
    /\ job' = [job EXCEPT !.pc = "settle"]
    /\ dispatched' = dispatched \cup {job.i}
    /\ UNCHANGED <<chainVars, hostVars, sig, payouts, ledger, taskVars, rec, queue, since>>

GateRefuses == job.pc = "gate" /\ JobEnds(proc, rec) /\ JobStep

----------------------------------------------------------------------------
(***************************************************************************)
(* The settlement, where it meets the settled ledger and the record.       *)
(***************************************************************************)
PayStep == UNCHANGED <<chainVars, hostVars, dispatched, taskVars, queue, since>>

\* It stops before a payout is signed, or goes on after one until the sequence is over.
SettleEnds == job.pc \in {"settle", "rest"} /\ JobEnds(proc, rec) /\ JobStep

\* runSolanaPayout up to GO.  If setSettling throws, GO is never written.  The
\* ledger's write succeeds here; module Settlement has the failure that persistLedger swallows.
ChildSigns ==
    /\ job.pc = "settle" /\ ~isAlreadySettled(job.i) /\ ~midSettlement(job.i)
    /\ ledger' = [ledger EXCEPT ![job.i] = "settling"]
    /\ payouts' = [payouts EXCEPT ![job.i] = @ + 1]
    /\ \/ /\ rec' = setSettlement(job.i, "settling")
          /\ sig' = [sig EXCEPT ![job.i] = "sent"]
       \/ /\ RecordMayFail /\ UNCHANGED rec
          /\ sig' = [sig EXCEPT ![job.i] = "held"]
    /\ job' = [job EXCEPT !.pc = "child"]
    /\ PayStep

\* Mutant of ChildFails: the record takes the signature for the delivery.
ChildFailsSettled ==
    /\ job.pc = "child"
    /\ rec' = setSettlement(job.i, "settled")
    /\ job' = [job EXCEPT !.pc = "rest"]
    /\ UNCHANGED <<ledger, sig, payouts>> /\ PayStep

\* The child fails: the payout may land all the same.  An exception in the close handler
\* leaves the promise pending for ever.
ChildFails ==
    /\ job.pc = "child"
    /\ \/ /\ rec' = setSettlement(job.i, "unconfirmed-needs-review")
          /\ job' = [job EXCEPT !.pc = "rest"]
       \/ /\ RecordMayFail /\ UNCHANGED rec
          /\ job' = [job EXCEPT !.pc = "stuck"]
    /\ UNCHANGED <<ledger, sig, payouts>> /\ PayStep

ChildSucceeds ==
    /\ job.pc = "child" /\ sig[job.i] = "landed"
    /\ ledger' = [ledger EXCEPT ![job.i] = "settled"]
    /\ \/ /\ rec' = setSettlement(job.i, "settled")
          /\ job' = [job EXCEPT !.pc = "rest"]
       \/ /\ RecordMayFail /\ UNCHANGED rec
          /\ job' = [job EXCEPT !.pc = "stuck"]
    /\ UNCHANGED <<sig, payouts>> /\ PayStep

----------------------------------------------------------------------------
(***************************************************************************)
(* reconcileSettlingLedger, at boot and from its timer; the finality timer.*)
(***************************************************************************)
PassStep == UNCHANGED <<chainVars, hostVars, sig, payouts, dispatched, phase, queue, job, since>>

ReconcileStart(p) ==
    /\ phase # "down" /\ pass[p].st = "free"
    /\ \E i \in Intent :
        /\ midSettlement(i)
        /\ pass' = [pass EXCEPT ![p] = [NoPass EXCEPT !.st = "asked", !.i = i]]
    /\ UNCHANGED <<ledger, rec, alerted>> /\ PassStep

ReconcileAnswered(p) ==
    /\ pass[p].st = "asked"
    /\ pass' = [pass EXCEPT ![p].st = "answered", ![p].landed = sig[pass[p].i] = "landed"]
    /\ UNCHANGED <<ledger, rec, alerted>> /\ PassStep

ReconcileFails(p) ==
    /\ pass[p].st = "asked"
    /\ pass' = [pass EXCEPT ![p] = NoPass]
    /\ UNCHANGED <<ledger, rec, alerted>> /\ PassStep

\* The answer is applied to whatever the ledger and the record have become meanwhile.
\* resumeConfirmIfSolanaLanded, from the slash poller, does the same with a positive answer.
ReconcileApplies(p) ==
    LET i == pass[p].i IN
    /\ pass[p].st = "answered"
    /\ pass' = [pass EXCEPT ![p] = NoPass]
    /\ \/ /\ pass[p].landed
          /\ ledger' = [ledger EXCEPT ![i] = "settled"]
          /\ \/ rec' = setSettlement(i, "settled") /\ alerted' = alerted \ {i}
             \/ RecordMayFail /\ UNCHANGED <<rec, alerted>>
       \/ /\ ~pass[p].landed /\ i \notin alerted
          /\ alerted' = alerted \cup {i}
          /\ \/ rec' = setSettlement(i, "unconfirmed-needs-review")
             \/ RecordMayFail /\ UNCHANGED rec
          /\ UNCHANGED ledger
       \/ ~pass[p].landed /\ i \in alerted /\ UNCHANGED <<ledger, rec, alerted>>
    /\ PassStep

\* pollFinality compares the recorded block number with the finalized one.
PollFinality(i) ==
    /\ phase = "up" /\ rec[i].block # 0 /\ ~rec[i].final /\ finalized[i]
    /\ rec' = [rec EXCEPT ![i].final = TRUE]
    /\ UNCHANGED <<chainVars, hostVars, payVars, taskVars, queue, job, since>>

----------------------------------------------------------------------------
(***************************************************************************)
(* The process.                                                            *)
(***************************************************************************)
Boot ==
    /\ phase = "down"
    /\ phase' = "boot"
    /\ UNCHANGED <<chainVars, hostVars, payVars, pass, alerted, rec, queue, job, since>>

\* resumeCollateralPostedIntent, from the files that are there.
BootResume(i) ==
    /\ phase = "boot" /\ job.pc = "idle" /\ i \in dispatched /\ readProofJson(i) # 0
    /\ job' = [NoJob EXCEPT !.i = i, !.pc = "settle"]
    /\ UNCHANGED <<chainVars, hostVars, payVars, taskVars, rec, queue, since>>

\* Reconciliation is awaited; then the watchers and the timers start.
BootDone ==
    /\ phase = "boot" /\ job.pc = "idle" /\ \A p \in Reconciler : pass[p].st = "free"
    /\ phase' = "up"
    /\ UNCHANGED <<chainVars, hostVars, payVars, pass, alerted, rec, queue, job, since>>

\* Queue, job and passes are gone; provers go on without a parent.
Crash ==
    /\ phase # "down" /\ crashes < MaxCrashes
    /\ crashes' = crashes + 1
    /\ phase' = "down"
    /\ queue' = <<>> /\ job' = NoJob /\ since' = {}
    /\ pass' = [p \in Reconciler |-> NoPass] /\ alerted' = {}
    /\ proc' = [p \in Prover |->
                    IF proc[p].st = "exited" THEN NoProc ELSE [proc[p] EXCEPT !.mine = FALSE]]
    /\ UNCHANGED <<where, finalized, moves, deliveries, proof, payVars, rec>>

Init ==
    /\ where = [i \in Intent |-> 0] /\ finalized = [i \in Intent |-> FALSE]
    /\ moves = [i \in Intent |-> 0] /\ deliveries = [i \in Intent |-> 0] /\ crashes = 0
    /\ proc = [p \in Prover |-> NoProc]
    /\ proof = [i \in Intent |-> [bin |-> 0, json |-> 0]]
    /\ sig = [i \in Intent |-> "none"] /\ payouts = [i \in Intent |-> 0]
    /\ ledger = [i \in Intent |-> "none"]
    /\ rec = [i \in Intent |-> blankState]
    /\ dispatched = {}
    /\ phase = "down"
    /\ queue = <<>> /\ job = NoJob /\ since = {}
    /\ pass = [p \in Reconciler |-> NoPass] /\ alerted = {}

ProverActs(p) ==
    ProverLocks(p) \/ ProverReads(p) \/ ProverSaves(p) \/ ProverSucceeds(p) \/ ProverFails(p)

JobActs ==
    \/ \E p \in Prover : ProofVerified(p) \/ ProofGivenUp(p) \/ ProofRetried(p) \/ ProofThrows(p)
    \/ Backoff \/ JobThrows \/ HeaderAnswered \/ HeaderFails \/ GatePasses \/ GateRefuses
    \/ SettleEnds \/ ChildSigns \/ ChildFails \/ ChildSucceeds

PassActs(p) ==
    ReconcileStart(p) \/ ReconcileAnswered(p) \/ ReconcileFails(p) \/ ReconcileApplies(p)

Next ==
    \/ \E i \in Intent :
        \/ ChainMoves(i) \/ Finalize(i) \/ PayoutLands(i)
        \/ IntentCreated(i) \/ PollFinality(i) \/ BootResume(i)
    \/ \E p \in Prover : ProverActs(p)
    \/ JobActs
    \/ \E p \in Reconciler : PassActs(p)
    \/ Boot \/ BootDone \/ Crash

Spec == Init /\ [][Next]_vars

\* A prover is ended by RuntimeMaxSec and a waiting one gets the lock in the end; every
\* await of the job ends: a sleep, an RPC call with its timeout, a child, a sequence
\* (Settlement's SequenceEnds).
Fairness ==
    /\ \A p \in Prover :
        /\ SF_vars(ProverLocks(p))
        /\ WF_vars(proc[p].st # "waiting" /\ (ProverSucceeds(p) \/ ProverFails(p)))
    /\ WF_vars(JobActs)

FairSpec == Spec /\ Fairness

----------------------------------------------------------------------------
Status == {"queued", "proving", "retrying", "verified", "rejected", "alert"}
Settlements == {"none", "settling", "settled", "unconfirmed-needs-review"}
Pc == {"idle", "proving", "backoff", "threw", "header", "gate", "settle", "child", "rest", "stuck"}

Block == 0 .. MaxBlock
Process == [st : {"none", "waiting", "running", "saved", "exited"}, i : Intent \cup {NoIntent}, block : Block,
            code : {"none", "ok", "infra", "semantic", "unverified"}, mine : BOOLEAN]
Job == [i : Intent \cup {NoIntent}, pc : Pc, attempt : 0 .. MAX_PROVER_RETRIES, json : Block, answer : Block]
Pass == [st : {"free", "asked", "answered"}, i : Intent \cup {NoIntent}, landed : BOOLEAN]
Record == [status : Status, settlement : Settlements, block : Block, final : BOOLEAN]

\* The shape of the state; a job that waits for a prover has one, and only one, of its own.
TypeOK ==
    /\ where \in [Intent -> Block] /\ finalized \in [Intent -> BOOLEAN]
    /\ moves \in [Intent -> Nat] /\ deliveries \in [Intent -> Nat] /\ crashes \in Nat
    /\ proc \in [Prover -> Process]
    /\ proof \in [Intent -> [bin : Block, json : Block]]
    /\ sig \in [Intent -> {"none", "held", "sent", "landed"}] /\ payouts \in [Intent -> Nat]
    /\ ledger \in [Intent -> {"none", "settling", "settled"}] /\ dispatched \subseteq Intent
    /\ rec \in [Intent -> Record]
    /\ phase \in {"down", "boot", "up"}
    /\ queue \in Seq(Intent) /\ job \in Job /\ since \subseteq Block
    /\ pass \in [Reconciler -> Pass] /\ alerted \subseteq Intent
    /\ \A p \in Reconciler : pass[p].st # "free" => pass[p].i \in Intent
    /\ job.pc # "idle" => job.i \in Intent
    /\ \A p \in Prover :
        /\ proc[p].st # "none" => proc[p].i \in Intent
        /\ proc[p].mine => job.pc = "proving" /\ proc[p].st # "none"
        /\ \A q \in Prover : proc[p].mine /\ proc[q].mine => p = q
    /\ job.pc = "proving" => \E p \in Prover : proc[p].mine

\* What is being settled was on the canonical chain, in the very block the proof is about,
\* at some time since the job started: neither an old proof file (a .json whose write
\* failed, the output of an orphan) nor a reorganisation during the proof gets an intent
\* settled that is not there.
SettledWasOnChain == job.pc = "settle" /\ job.json # 0 => job.json \in since

\* However often a log is delivered and wherever the process crashes, one payout is signed.
NoSecondPayout == \A i \in Intent : payouts[i] <= 1

\* The dashboard does not show a delivery that the ledger and Solana do not know of, nor a
\* verified proof that is not on disk.
RecordsClaimNoMore ==
    \A i \in Intent :
        /\ rec[i].settlement = "settled" => ledger[i] = "settled" /\ sig[i] = "landed"
        /\ rec[i].status = "verified" => proof[i].bin # 0 /\ proof[i].json # 0

\* Whatever becomes of a job - given up, refused, thrown, its prover behind an orphan on the
\* lock - the jobs behind it get their turn, until the process crashes or a payout child's
\* close handler throws.
QueueDrains == queue # <<>> ~> (queue = <<>> \/ phase = "down" \/ job.pc = "stuck")

\* The same without the second exception: a record is for display only, and that it could
\* not be written stops nothing.
RecordsStopNothing == queue # <<>> ~> (queue = <<>> \/ phase = "down")

\* The settlement field mirrors the ledger's outcome, once nobody is at work on it.
RecordMirrorsLedger ==
    \A i \in Intent :
        (ledger[i] = "settled" /\ job.pc = "idle" /\ \A p \in Reconciler : pass[p].st = "free")
            => rec[i].settlement = "settled"

\* A record is marked final when its block has been swallowed by the finalized tag.
FinalIsOnChain == \A i \in Intent : rec[i].final => where[i] = rec[i].block
=============================================================================
