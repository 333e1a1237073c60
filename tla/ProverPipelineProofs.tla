------------------------ MODULE ProverPipelineProofs ------------------------
(***************************************************************************)
(* Proofs about the prover pipeline, for any number of intents, provers,   *)
(* retries, reorganisations, deliveries and crashes.                       *)
(***************************************************************************)
EXTENDS ProverPipeline, SequenceTheorems, TLAPS

\* Why the properties are preserved: the ledger forgets no signature, an answer of Solana stays true,
\* a prover that saved knows its block, and the blocks of the job's intent are kept track
\* of from the job's start.
LedgerInv ==
    /\ \A i \in Intent : ledger[i] = "none" => payouts[i] = 0 /\ sig[i] = "none"
    /\ job.pc = "child" => ledger[job.i] # "none"
    /\ \A p \in Reconciler : pass[p].landed => pass[p].st = "answered" /\ sig[pass[p].i] = "landed"

SinceInv ==
    /\ job.pc \in {"proving", "backoff", "header", "gate"} => where[job.i] \in since
    /\ job.pc = "gate" => job.answer \in since
    /\ SettledWasOnChain

ProverSavedInv == \A p \in Prover : proc[p].st = "saved" => proc[p].block # 0

\* The part of TypeOK that the queue and the job are responsible for.
QueueTypes ==
    /\ proc \in [Prover -> Process]
    /\ rec \in [Intent -> Record]
    /\ queue \in Seq(Intent) /\ job \in Job /\ since \subseteq Block
    /\ job.pc # "idle" => job.i \in Intent
    /\ \A p \in Prover :
        /\ proc[p].st # "none" => proc[p].i \in Intent
        /\ proc[p].mine => job.pc = "proving" /\ proc[p].st # "none"
        /\ \A q \in Prover : proc[p].mine /\ proc[q].mine => p = q
    /\ job.pc = "proving" => \E p \in Prover : proc[p].mine

\* The rest of it.
OtherTypes ==
    /\ where \in [Intent -> Block] /\ finalized \in [Intent -> BOOLEAN]
    /\ moves \in [Intent -> Nat] /\ deliveries \in [Intent -> Nat] /\ crashes \in Nat
    /\ proof \in [Intent -> [bin : Block, json : Block]]
    /\ sig \in [Intent -> {"none", "held", "sent", "landed"}] /\ payouts \in [Intent -> Nat]
    /\ ledger \in [Intent -> {"none", "settling", "settled"}] /\ dispatched \subseteq Intent
    /\ phase \in {"down", "boot", "up"}
    /\ pass \in [Reconciler -> Pass] /\ alerted \subseteq Intent
    /\ \A p \in Reconciler : pass[p].st # "free" => pass[p].i \in Intent

LEMMA TypeParts == TypeOK <=> QueueTypes /\ OtherTypes
BY DEF TypeOK, QueueTypes, OtherTypes

\* The processes of the host when none of them is the job's.
Orphans(hp) ==
    /\ hp \in [Prover -> Process]
    /\ \A p \in Prover : ~hp[p].mine /\ (hp[p].st # "none" => hp[p].i \in Intent)

\* The constants the types are made of.
LEMMA Blanks ==
    /\ 0 \in Block /\ 0 \in 0 .. MAX_PROVER_RETRIES /\ 1 \in 0 .. MAX_PROVER_RETRIES
    /\ NoJob \in Job /\ NoProc \in Process /\ NoPass \in Pass /\ blankState \in Record
    /\ NoJob.pc = "idle" /\ NoProc.st = "none" /\ ~NoProc.mine
<1>1. 0 \in Block /\ 0 \in 0 .. MAX_PROVER_RETRIES /\ 1 \in 0 .. MAX_PROVER_RETRIES
  BY ProverAssumption DEF Block
<1>2. QED
  BY <1>1 DEF NoJob, NoProc, NoPass, blankState, Job, Process, Pass, Record, Pc, Status, Settlements

\* setStatus changes one record to one of the right type.
LEMMA SetStatusType ==
    ASSUME NEW r \in [Intent -> Record], NEW i \in Intent, NEW s \in Status
    PROVE  setStatus(r, i, s) \in [Intent -> Record]
BY DEF setStatus, Record

\* runProverProcess starts the one prover the job waits for.
LEMMA SpawnType ==
    ASSUME NEW hp, Orphans(hp), NEW i \in Intent, Spawn(hp, i)
    PROVE  /\ proc' \in [Prover -> Process]
           /\ \A p \in Prover :
                /\ proc'[p].st # "none" => proc'[p].i \in Intent
                /\ proc'[p].mine => proc'[p].st # "none"
                /\ \A q \in Prover : proc'[p].mine /\ proc'[q].mine => p = q
           /\ \E p \in Prover : proc'[p].mine
<1>1. PICK p \in Prover :
        proc' = [hp EXCEPT ![p] = [NoProc EXCEPT !.st = "waiting", !.i = i, !.mine = TRUE]]
  BY DEF Spawn
<1> DEFINE new == [NoProc EXCEPT !.st = "waiting", !.i = i, !.mine = TRUE]
<1>2. new \in Process /\ new.st = "waiting" /\ new.i = i /\ new.mine
  BY Blanks DEF NoProc, Process
<1> HIDE DEF new
<1>3. \A q \in Prover : proc'[q] = IF q = p THEN new ELSE hp[q]
  BY <1>1 DEF Orphans, new
<1>4. proc' \in [Prover -> Process]
  BY <1>1, <1>2 DEF Orphans, new
<1>5. QED
  BY <1>2, <1>3, <1>4 DEF Orphans

\* ProverQueue.pump starts the next job, or none.
LEMMA PumpType ==
    ASSUME NEW q \in Seq(Intent), NEW hp, Orphans(hp), NEW r \in [Intent -> Record],
           where \in [Intent -> Block], Pump(q, hp, r)
    PROVE  QueueTypes'
<1>1. CASE q = <<>>
  BY <1>1, Blanks DEF Pump, QueueTypes, Orphans
<1>2. CASE q # <<>>
  <2>1. Head(q) \in Intent /\ Tail(q) \in Seq(Intent)
    BY <1>2, HeadTailProperties
  <2>2. queue' \in Seq(Intent) /\ since' \subseteq Block
    BY <1>2, <2>1 DEF Pump
  <2>3. CASE /\ job' = [NoJob EXCEPT !.i = Head(q), !.pc = "proving", !.attempt = 1]
             /\ Spawn(hp, Head(q))
             /\ rec' = setStatus(r, Head(q), "proving")
    <3>1. job' \in Job /\ job'.pc = "proving" /\ job'.i = Head(q)
      BY <2>1, <2>3, Blanks DEF NoJob, Job, Pc
    <3>2. rec' \in [Intent -> Record]
      BY <2>1, <2>3, SetStatusType DEF Status
    <3>3. QED
      BY <2>1, <2>2, <2>3, <3>1, <3>2, SpawnType DEF QueueTypes
  <2>4. CASE /\ job' = [NoJob EXCEPT !.i = Head(q), !.pc = "threw"]
             /\ proc' = hp /\ rec' = r
    <3>1. job' \in Job /\ job'.pc = "threw" /\ job'.i = Head(q)
      BY <2>1, <2>4, Blanks DEF NoJob, Job, Pc
    <3>2. QED
      BY <2>1, <2>2, <2>4, <3>1 DEF QueueTypes, Orphans
  <2>5. QED
    BY <1>2, <2>3, <2>4 DEF Pump
<1>3. QED
  BY <1>1, <1>2

\* Without a job that waits for a prover, the processes are all orphans ...
LEMMA NoProverOfTheJob ==
    ASSUME TypeOK, job.pc # "proving"
    PROVE  Orphans(proc)
BY DEF TypeOK, Orphans, Process

\* ... and so are the others when the job's own has ended.
LEMMA ReapedType ==
    ASSUME TypeOK, NEW p \in Prover, NEW c, Ended(p, c)
    PROVE  /\ Orphans(Reaped(p)) /\ job.pc = "proving" /\ job.i \in Intent
<1>1. /\ proc \in [Prover -> Process] /\ proc[p].mine
      /\ job.pc = "proving" /\ job.i \in Intent
      /\ \A q \in Prover : q # p => ~proc[q].mine
      /\ \A q \in Prover : proc[q].st # "none" => proc[q].i \in Intent
  BY DEF TypeOK, Ended
<1>2. \A q \in Prover : Reaped(p)[q] = IF q = p THEN NoProc ELSE proc[q]
  BY <1>1 DEF Reaped
<1>3. Reaped(p) \in [Prover -> Process]
  BY <1>1, Blanks DEF Reaped
<1>4. QED
  BY <1>1, <1>2, <1>3, Blanks DEF Orphans

\* A step that touches nothing of the queue's.
LEMMA QueueTypesKept ==
    ASSUME QueueTypes, UNCHANGED <<proc, rec, queue, job, since>>
    PROVE  QueueTypes'
BY DEF QueueTypes

\* A step of the job that keeps the processes, the queue and its intent.
LEMMA JobTypesKept ==
    ASSUME QueueTypes, UNCHANGED <<proc, queue, since>>, job' \in Job, rec' \in [Intent -> Record],
           job.pc \notin {"idle", "proving"}, job'.pc # "proving", job'.i = job.i
    PROVE  QueueTypes'
BY DEF QueueTypes

\* A step that keeps the job and writes a record.
LEMMA RecordTypesKept ==
    ASSUME QueueTypes, UNCHANGED <<proc, queue, since, job>>, rec' \in [Intent -> Record]
    PROVE  QueueTypes'
BY DEF QueueTypes

\* A prover's step keeps what it works for and whose it is, or ends.
LEMMA ProverTypes ==
    ASSUME TypeOK, NEW p \in Prover, ProverActs(p)
    PROVE  TypeOK'
<1>1. /\ proc \in [Prover -> Process]
      /\ proc[p].st # "none" => proc[p].i \in Intent
      /\ proc[p].mine => job.pc = "proving" /\ proc[p].st # "none"
  BY DEF TypeOK
<1>2. UNCHANGED <<chainVars, payVars, taskVars, rec, queue, job, since>>
  BY DEF ProverActs, ProverLocks, ProverReads, ProverSaves, ProverSucceeds, ProverFails, ProcStep
<1>3. proof' \in [Intent -> [bin : Block, json : Block]]
  <2>1. proof \in [Intent -> [bin : Block, json : Block]] /\ proc[p].block \in Block
    BY <1>1 DEF TypeOK, Process
  <2>2. \/ proof' = proof
        \/ proof' = [proof EXCEPT ![proc[p].i].bin = proc[p].block]
        \/ proof' = [proof EXCEPT ![proc[p].i].json = proc[p].block]
    BY DEF ProverActs, ProverLocks, ProverReads, ProverSaves, ProverSucceeds, ProverFails
  <2>3. CASE proof' = proof
    BY <2>1, <2>3
  <2>4. CASE proof' = [proof EXCEPT ![proc[p].i].bin = proc[p].block]
    BY <2>1, <2>4
  <2>5. CASE proof' = [proof EXCEPT ![proc[p].i].json = proc[p].block]
    BY <2>1, <2>5
  <2>6. QED
    BY <2>2, <2>3, <2>4, <2>5
<1>4. OtherTypes'
  BY <1>2, <1>3, TypeParts DEF OtherTypes, chainVars, payVars, taskVars
<1> DEFINE Good(n) == /\ n \in Process
                      /\ n.mine = proc[p].mine
                      /\ n.st # "none" => n.i \in Intent
                      /\ n.mine => n.st # "none"
<1>5. \E n : Good(n) /\ proc' = [proc EXCEPT ![p] = n]
  <2>1. CASE ProverLocks(p)
    <3>1. Good([proc[p] EXCEPT !.st = "running"])
      BY <1>1, <2>1 DEF ProverLocks, Process
    <3>2. proc' = [proc EXCEPT ![p] = [proc[p] EXCEPT !.st = "running"]]
      BY <1>1, <2>1 DEF ProverLocks
    <3>3. QED
      BY <3>1, <3>2
  <2>2. CASE ProverReads(p)
    <3>1. where[proc[p].i] \in Block
      BY <1>1, <2>2 DEF ProverReads, TypeOK
    <3>2. Good([proc[p] EXCEPT !.block = where[proc[p].i]])
      BY <1>1, <2>2, <3>1 DEF ProverReads, Process
    <3>3. proc' = [proc EXCEPT ![p] = [proc[p] EXCEPT !.block = where[proc[p].i]]]
      BY <1>1, <2>2 DEF ProverReads
    <3>4. QED
      BY <3>2, <3>3
  <2>3. CASE ProverSaves(p)
    <3>1. Good([proc[p] EXCEPT !.st = "saved"])
      BY <1>1, <2>3 DEF ProverSaves, Process
    <3>2. proc' = [proc EXCEPT ![p] = [proc[p] EXCEPT !.st = "saved"]]
      BY <1>1, <2>3 DEF ProverSaves
    <3>3. QED
      BY <3>1, <3>2
  <2>4. ASSUME NEW c \in {"ok", "infra", "semantic", "unverified"}, proc[p].st # "none", Exit(p, c)
        PROVE  \E n : Good(n) /\ proc' = [proc EXCEPT ![p] = n]
    <3>1. CASE proc[p].mine
      <4>1. Good([proc[p] EXCEPT !.st = "exited", !.code = c])
        BY <1>1, <2>4, <3>1 DEF Process
      <4>2. proc' = [proc EXCEPT ![p] = [proc[p] EXCEPT !.st = "exited", !.code = c]]
        BY <1>1, <2>4, <3>1 DEF Exit
      <4>3. QED
        BY <4>1, <4>2
    <3>2. CASE ~proc[p].mine
      <4>1. proc[p].mine \in BOOLEAN
        BY <1>1 DEF Process
      <4>2. Good(NoProc)
        BY <3>2, <4>1, Blanks DEF NoProc
      <4>3. proc' = [proc EXCEPT ![p] = NoProc]
        BY <1>1, <2>4, <3>2 DEF Exit
      <4>4. QED
        BY <4>2, <4>3
    <3>3. QED
      BY <3>1, <3>2
  <2>5. CASE ProverSucceeds(p)
    BY <2>4, <2>5 DEF ProverSucceeds
  <2>6. CASE ProverFails(p)
    BY <2>4, <2>6 DEF ProverFails
  <2>7. QED
    BY <2>1, <2>2, <2>3, <2>5, <2>6 DEF ProverActs
<1>6. PICK n : Good(n) /\ proc' = [proc EXCEPT ![p] = n]
  BY <1>5
<1>7. \A q \in Prover : proc'[q] = IF q = p THEN n ELSE proc[q]
  BY <1>1, <1>6
<1>8. \A q \in Prover : proc'[q].mine = proc[q].mine
  BY <1>6, <1>7
<1>9. proc' \in [Prover -> Process]
  BY <1>1, <1>6
<1>10. ASSUME NEW q \in Prover
       PROVE  /\ proc'[q].st # "none" => proc'[q].i \in Intent
              /\ proc'[q].mine => job'.pc = "proving" /\ proc'[q].st # "none"
  BY <1>1, <1>2, <1>6, <1>7, <1>8 DEF TypeOK
<1>11. /\ \A q, u \in Prover : proc'[q].mine /\ proc'[u].mine => q = u
       /\ job'.pc = "proving" => \E q \in Prover : proc'[q].mine
  BY <1>2, <1>8 DEF TypeOK
<1>12. QueueTypes'
  <2>1. /\ rec' \in [Intent -> Record] /\ queue' \in Seq(Intent) /\ job' \in Job /\ since' \subseteq Block
        /\ job'.pc # "idle" => job'.i \in Intent
    BY <1>2 DEF TypeOK
  <2>2. QED
    BY <1>9, <1>10, <1>11, <2>1 DEF QueueTypes
<1>13. QED
  BY <1>4, <1>12, TypeParts DEF TypeOK, QueueTypes, OtherTypes

\* The job's steps.
LEMMA JobTypes ==
    ASSUME TypeOK, JobActs
    PROVE  TypeOK'
<1>1. QueueTypes /\ OtherTypes /\ where \in [Intent -> Block] /\ rec \in [Intent -> Record]
  BY TypeParts DEF QueueTypes, OtherTypes
<1>2. job \in Job /\ queue \in Seq(Intent) /\ (job.pc # "idle" => job.i \in Intent)
  BY <1>1 DEF QueueTypes
<1>3. ASSUME NEW pc \in Pc, pc # "proving", job' = [job EXCEPT !.pc = pc], job.pc \notin {"idle", "proving"},
             rec' \in [Intent -> Record], UNCHANGED <<proc, queue, since>>
      PROVE  QueueTypes'
  <2>1. job' \in Job /\ job'.pc = pc /\ job'.i = job.i
    BY <1>2, <1>3 DEF Job
  <2>2. QED
    BY <1>1, <1>3, <2>1, JobTypesKept
<1>4. ASSUME JobEnds(proc, rec), job.pc # "proving" PROVE QueueTypes'
  BY <1>1, <1>2, <1>4, NoProverOfTheJob, PumpType DEF JobEnds
<1>5. ASSUME NEW i \in Intent, NEW s \in Settlements PROVE setSettlement(i, s) \in [Intent -> Record]
  BY <1>1 DEF setSettlement, Record
<1>6. ASSUME NEW p \in Prover, ProofVerified(p) PROVE TypeOK'
  <2>1. Orphans(Reaped(p)) /\ job.i \in Intent
    BY <1>6, ReapedType DEF ProofVerified
  <2>2. readProofJson(job.i) \in Block
    BY <1>1, <2>1, Blanks DEF readProofJson, OtherTypes
  <2>3. job' \in Job /\ job'.pc = "header" /\ job'.i = job.i
    BY <1>2, <1>6, <2>2 DEF ProofVerified, Job, Pc
  <2>4. rec' \in [Intent -> Record]
    BY <1>1, <1>6, <2>1, SetStatusType DEF ProofVerified, Status
  <2>5. QueueTypes'
    BY <1>1, <1>6, <2>1, <2>3, <2>4 DEF ProofVerified, QueueTypes, Orphans
  <2>6. QED
    BY <1>1, <1>6, <2>5 DEF ProofVerified, JobStep, chainVars, payVars, taskVars, TypeOK, QueueTypes,
                            OtherTypes
<1>7. ASSUME NEW p \in Prover, ProofGivenUp(p) PROVE TypeOK'
  <2>1. \E c : Ended(p, c)
    BY <1>7 DEF ProofGivenUp
  <2>2. Orphans(Reaped(p)) /\ job.i \in Intent
    BY <2>1, ReapedType
  <2>3. \E s \in Status : JobEnds(Reaped(p), setStatus(rec, job.i, s))
    BY <1>7 DEF ProofGivenUp, Status
  <2>4. QueueTypes'
    BY <1>1, <1>2, <2>2, <2>3, SetStatusType, PumpType DEF JobEnds
  <2>5. QED
    BY <1>1, <1>7, <2>4 DEF ProofGivenUp, JobStep, chainVars, payVars, taskVars, TypeOK, QueueTypes,
                            OtherTypes
<1>8. ASSUME NEW p \in Prover, ProofRetried(p) PROVE TypeOK'
  <2>1. Orphans(Reaped(p)) /\ job.i \in Intent
    BY <1>8, ReapedType DEF ProofRetried
  <2>2. job.attempt + 1 \in 0 .. MAX_PROVER_RETRIES
    BY <1>2, <1>8, ProverAssumption DEF ProofRetried, Job
  <2>3. job' \in Job /\ job'.pc = "backoff" /\ job'.i = job.i
    BY <1>2, <1>8, <2>2 DEF ProofRetried, Job, Pc
  <2>4. rec' \in [Intent -> Record]
    BY <1>1, <1>8, <2>1, SetStatusType DEF ProofRetried, Status
  <2>5. QueueTypes'
    BY <1>1, <1>8, <2>1, <2>3, <2>4 DEF ProofRetried, QueueTypes, Orphans
  <2>6. QED
    BY <1>1, <1>8, <2>5 DEF ProofRetried, JobStep, chainVars, payVars, taskVars, TypeOK, QueueTypes,
                            OtherTypes
<1>9. ASSUME NEW p \in Prover, ProofThrows(p) PROVE TypeOK'
  <2>1. Orphans(Reaped(p)) /\ job.i \in Intent
    BY <1>9, ReapedType DEF ProofThrows
  <2>2. job' \in Job /\ job'.pc = "threw" /\ job'.i = job.i
    BY <1>2, <1>9 DEF ProofThrows, Job, Pc
  <2>3. QueueTypes'
    BY <1>1, <1>9, <2>1, <2>2 DEF ProofThrows, QueueTypes, Orphans
  <2>4. QED
    BY <1>1, <1>9, <2>3 DEF ProofThrows, JobStep, chainVars, payVars, taskVars, TypeOK, QueueTypes,
                            OtherTypes
<1>10. CASE Backoff
  <2>1. Orphans(proc) /\ job.i \in Intent
    BY <1>2, <1>10, NoProverOfTheJob DEF Backoff
  <2>2. job' \in Job /\ job'.pc = "proving" /\ job'.i = job.i
    BY <1>2, <1>10 DEF Backoff, Job, Pc
  <2>3. QueueTypes'
    BY <1>1, <1>10, <2>1, <2>2, SpawnType DEF Backoff, QueueTypes
  <2>4. QED
    BY <1>1, <1>10, <2>3 DEF Backoff, JobStep, chainVars, payVars, taskVars, TypeOK, QueueTypes,
                             OtherTypes
<1>11. CASE JobThrows \/ HeaderFails \/ GateRefuses \/ SettleEnds
  <2>1. QueueTypes'
    BY <1>4, <1>11 DEF JobThrows, HeaderFails, GateRefuses, SettleEnds
  <2>2. QED
    BY <1>1, <1>11, <2>1 DEF JobThrows, HeaderFails, GateRefuses, SettleEnds, JobStep, chainVars, payVars,
                             taskVars, TypeOK, QueueTypes, OtherTypes
<1>12. CASE HeaderAnswered
  <2>1. job' \in Job /\ job'.pc = "gate" /\ job'.i = job.i
    BY <1>1, <1>2, <1>12 DEF HeaderAnswered, Job, Pc
  <2>2. QueueTypes'
    BY <1>1, <1>12, <2>1, JobTypesKept DEF HeaderAnswered
  <2>3. QED
    BY <1>1, <1>12, <2>2 DEF HeaderAnswered, JobStep, chainVars, payVars, taskVars, TypeOK, QueueTypes,
                             OtherTypes
<1>13. CASE GatePasses
  <2>1. QueueTypes'
    BY <1>1, <1>3, <1>13 DEF GatePasses, Pc, hostVars
  <2>2. dispatched' \subseteq Intent
    BY <1>1, <1>2, <1>13 DEF GatePasses, OtherTypes
  <2>3. QED
    BY <1>1, <1>13, <2>1, <2>2 DEF GatePasses, chainVars, hostVars, taskVars, TypeOK, QueueTypes, OtherTypes
<1>14. CASE ChildSigns
  <2>1. job.i \in Intent /\ job.pc = "settle"
    BY <1>2, <1>14 DEF ChildSigns
  <2>2. rec' \in [Intent -> Record]
    BY <1>1, <1>5, <1>14, <2>1 DEF ChildSigns, Settlements
  <2>3. QueueTypes'
    BY <1>1, <1>3, <1>14, <2>2 DEF ChildSigns, PayStep, Pc, hostVars
  <2>4. /\ sig' \in [Intent -> {"none", "held", "sent", "landed"}] /\ payouts' \in [Intent -> Nat]
        /\ ledger' \in [Intent -> {"none", "settling", "settled"}]
    BY <1>1, <1>14, <2>1 DEF ChildSigns, OtherTypes
  <2>5. QED
    BY <1>1, <1>14, <2>3, <2>4 DEF ChildSigns, PayStep, chainVars, hostVars, taskVars, TypeOK, QueueTypes,
                                   OtherTypes
<1>15. CASE ChildFails
  <2>1. rec' \in [Intent -> Record]
    BY <1>1, <1>2, <1>5, <1>15 DEF ChildFails, Settlements
  <2>2. QueueTypes'
    BY <1>1, <1>3, <1>15, <2>1 DEF ChildFails, PayStep, Pc, hostVars
  <2>3. QED
    BY <1>1, <1>15, <2>2 DEF ChildFails, PayStep, chainVars, hostVars, taskVars, TypeOK, QueueTypes,
                             OtherTypes
<1>16. CASE ChildSucceeds
  <2>1. rec' \in [Intent -> Record]
    BY <1>1, <1>2, <1>5, <1>16 DEF ChildSucceeds, Settlements
  <2>2. QueueTypes'
    BY <1>1, <1>3, <1>16, <2>1 DEF ChildSucceeds, PayStep, Pc, hostVars
  <2>3. ledger' \in [Intent -> {"none", "settling", "settled"}]
    BY <1>1, <1>16 DEF ChildSucceeds, OtherTypes
  <2>4. QED
    BY <1>1, <1>16, <2>2, <2>3 DEF ChildSucceeds, PayStep, chainVars, hostVars, taskVars, TypeOK, QueueTypes,
                                   OtherTypes
<1>17. QED
  BY <1>6, <1>7, <1>8, <1>9, <1>10, <1>11, <1>12, <1>13, <1>14, <1>15, <1>16 DEF JobActs

\* The passes of the reconciliation.
LEMMA PassTypes ==
    ASSUME TypeOK, NEW p \in Reconciler, PassActs(p)
    PROVE  TypeOK'
<1>1. QueueTypes /\ OtherTypes /\ rec \in [Intent -> Record] /\ pass[p] \in Pass
  BY TypeParts DEF QueueTypes, OtherTypes
<1>2. UNCHANGED <<chainVars, hostVars, sig, payouts, dispatched, phase, queue, job, since>>
  BY DEF PassActs, ReconcileStart, ReconcileAnswered, ReconcileFails, ReconcileApplies, PassStep
<1>3. pass' \in [Reconciler -> Pass] /\ \A q \in Reconciler : pass'[q].st # "free" => pass'[q].i \in Intent
  <2> DEFINE Good(n) == n \in Pass /\ (n.st # "free" => n.i \in Intent)
  <2>1. \E n : Good(n) /\ pass' = [pass EXCEPT ![p] = n]
    <3>1. CASE ReconcileStart(p)
      <4>1. PICK i \in Intent : pass' = [pass EXCEPT ![p] = [NoPass EXCEPT !.st = "asked", !.i = i]]
        BY <3>1 DEF ReconcileStart
      <4>2. Good([NoPass EXCEPT !.st = "asked", !.i = i])
        BY DEF NoPass, Pass
      <4>3. QED
        BY <4>1, <4>2
    <3>2. CASE ReconcileAnswered(p)
      <4>1. pass[p].i \in Intent
        BY <1>1, <3>2 DEF ReconcileAnswered, OtherTypes
      <4>2. Good([pass[p] EXCEPT !.st = "answered", !.landed = sig[pass[p].i] = "landed"])
        BY <1>1, <4>1 DEF Pass
      <4>3. pass' = [pass EXCEPT ![p] = [pass[p] EXCEPT !.st = "answered",
                                                        !.landed = sig[pass[p].i] = "landed"]]
        BY <1>1, <3>2 DEF ReconcileAnswered, OtherTypes
      <4>4. QED
        BY <4>2, <4>3
    <3>3. CASE ReconcileFails(p) \/ ReconcileApplies(p)
      <4>1. Good(NoPass)
        BY Blanks DEF NoPass
      <4>2. pass' = [pass EXCEPT ![p] = NoPass]
        BY <3>3 DEF ReconcileFails, ReconcileApplies
      <4>3. QED
        BY <4>1, <4>2
    <3>4. QED
      BY <3>1, <3>2, <3>3 DEF PassActs
  <2>2. PICK n : Good(n) /\ pass' = [pass EXCEPT ![p] = n]
    BY <2>1
  <2>3. QED
    BY <1>1, <2>2 DEF OtherTypes
<1>4. CASE ReconcileApplies(p)
  <2>1. pass[p].i \in Intent
    BY <1>1, <1>4 DEF ReconcileApplies, OtherTypes
  <2>2. \A s \in Settlements : setSettlement(pass[p].i, s) \in [Intent -> Record]
    BY <1>1, <2>1 DEF setSettlement, Record
  <2>3. rec' \in [Intent -> Record]
    BY <1>1, <1>4, <2>2 DEF ReconcileApplies, Settlements
  <2>4. ledger' \in [Intent -> {"none", "settling", "settled"}]
    BY <1>1, <1>4 DEF ReconcileApplies, OtherTypes
  <2>5. alerted' \subseteq Intent
    BY <1>1, <1>4, <2>1 DEF ReconcileApplies, OtherTypes
  <2>6. QueueTypes'
    BY <1>1, <1>2, <2>3, RecordTypesKept DEF hostVars
  <2>7. QED
    BY <1>1, <1>2, <1>3, <2>4, <2>5, <2>6 DEF chainVars, hostVars, TypeOK, QueueTypes, OtherTypes
<1>5. CASE ReconcileStart(p) \/ ReconcileAnswered(p) \/ ReconcileFails(p)
  <2>1. UNCHANGED <<ledger, rec, alerted>>
    BY <1>5 DEF ReconcileStart, ReconcileAnswered, ReconcileFails
  <2>2. QED
    BY <1>1, <1>2, <1>3, <2>1 DEF chainVars, hostVars, TypeOK, QueueTypes, OtherTypes
<1>6. QED
  BY <1>4, <1>5 DEF PassActs

\* The record of a new log.
LEMMA CreatedRecord ==
    ASSUME TypeOK, NEW i \in Intent
    PROVE  [rec EXCEPT ![i].status = "queued", ![i].block = where[i]] \in [Intent -> Record]
<1>1. rec \in [Intent -> Record] /\ where[i] \in Block
  BY DEF TypeOK
<1>2. [rec[i] EXCEPT !.status = "queued", !.block = where[i]] \in Record
  BY <1>1 DEF Record, Status
<1>3. [rec EXCEPT ![i].status = "queued", ![i].block = where[i]]
        = [rec EXCEPT ![i] = [rec[i] EXCEPT !.status = "queued", !.block = where[i]]]
  BY <1>1
<1>4. QED
  BY <1>1, <1>2, <1>3

\* A new log, with or without a job that starts at once.
LEMMA CreatedTypes ==
    ASSUME TypeOK, NEW i \in Intent, IntentCreated(i)
    PROVE  TypeOK'
<1>1. QueueTypes /\ OtherTypes
  BY TypeParts
<1> DEFINE r == [rec EXCEPT ![i].status = "queued", ![i].block = where[i]]
<1>2. r \in [Intent -> Record]
  BY CreatedRecord
<1>3. Append(queue, i) \in Seq(Intent)
  BY <1>1, AppendProperties DEF QueueTypes
<1> HIDE DEF r
<1>4. QueueTypes'
  <2>1. CASE job.pc = "idle" /\ Pump(Append(queue, i), proc, r)
    BY <1>1, <1>2, <1>3, <2>1, NoProverOfTheJob, PumpType DEF OtherTypes
  <2>2. CASE /\ job.pc # "idle"
             /\ queue' = Append(queue, i) /\ rec' = r
             /\ UNCHANGED <<job, proc, since>>
    BY <1>1, <1>2, <1>3, <2>2 DEF QueueTypes
  <2>3. CASE UNCHANGED <<queue, rec, job, proc, since>>
    BY <1>1, <2>3, QueueTypesKept
  <2>4. QED
    BY <2>1, <2>2, <2>3 DEF IntentCreated, r
<1>5. QED
  BY <1>1, <1>4 DEF IntentCreated, payVars, taskVars, TypeOK, QueueTypes, OtherTypes

\* The chain, the finality timer and the resume at boot.
LEMMA EnvironmentTypes ==
    ASSUME TypeOK, NEW i \in Intent,
           ChainMoves(i) \/ Finalize(i) \/ PayoutLands(i) \/ PollFinality(i) \/ BootResume(i)
    PROVE  TypeOK'
<1>1. QueueTypes /\ OtherTypes
  BY TypeParts
<1>2. CASE ChainMoves(i)
  <2>1. QueueTypes'
    BY <1>1, <1>2 DEF ChainMoves, hostVars, QueueTypes, Block
  <2>2. where' \in [Intent -> Block] /\ moves' \in [Intent -> Nat]
    BY <1>1, <1>2 DEF ChainMoves, OtherTypes, Block
  <2>3. QED
    BY <1>1, <1>2, <2>1, <2>2 DEF ChainMoves, hostVars, payVars, taskVars, TypeOK, QueueTypes, OtherTypes
<1>3. CASE Finalize(i)
  BY <1>1, <1>3 DEF Finalize, hostVars, payVars, taskVars, TypeOK, QueueTypes, OtherTypes
<1>4. CASE PayoutLands(i)
  BY <1>1, <1>4 DEF PayoutLands, chainVars, hostVars, taskVars, TypeOK, QueueTypes, OtherTypes
<1>5. CASE PollFinality(i)
  <2>1. rec' \in [Intent -> Record]
    BY <1>1, <1>5 DEF PollFinality, QueueTypes, Record
  <2>2. QueueTypes'
    BY <1>1, <1>5, <2>1, RecordTypesKept DEF PollFinality, hostVars
  <2>3. QED
    BY <1>1, <1>5, <2>2 DEF PollFinality, chainVars, hostVars, payVars, taskVars, TypeOK, QueueTypes,
                            OtherTypes
<1>6. CASE BootResume(i)
  <2>1. job' \in Job /\ job'.pc = "settle" /\ job'.i = i
    BY <1>6, Blanks DEF BootResume, NoJob, Job, Pc
  <2>2. QueueTypes'
    BY <1>1, <1>6, <2>1 DEF BootResume, hostVars, QueueTypes
  <2>3. QED
    BY <1>1, <1>6, <2>2 DEF BootResume, chainVars, hostVars, payVars, taskVars, TypeOK, QueueTypes,
                            OtherTypes
<1>7. QED
  BY <1>2, <1>3, <1>4, <1>5, <1>6

\* The process starts and dies.
LEMMA ProcessTypes ==
    ASSUME TypeOK, Boot \/ BootDone \/ Crash
    PROVE  TypeOK'
<1>1. QueueTypes /\ OtherTypes
  BY TypeParts
<1>2. CASE Boot \/ BootDone
  BY <1>1, <1>2 DEF Boot, BootDone, chainVars, hostVars, payVars, TypeOK, QueueTypes, OtherTypes
<1>3. CASE Crash
  <2> DEFINE left(p) == IF proc[p].st = "exited" THEN NoProc ELSE [proc[p] EXCEPT !.mine = FALSE]
  <2>1. ASSUME NEW p \in Prover
        PROVE  left(p) \in Process /\ ~left(p).mine /\ (left(p).st # "none" => left(p).i \in Intent)
    BY <1>1, Blanks DEF QueueTypes, Process
  <2>2. proc' = [p \in Prover |-> left(p)]
    BY <1>3 DEF Crash
  <2> HIDE DEF left
  <2>3. QueueTypes'
    <3>1. queue' = <<>> /\ job' = NoJob /\ since' = {} /\ rec' = rec
      BY <1>3 DEF Crash
    <3>2. QED
      BY <1>1, <2>1, <2>2, <3>1, Blanks DEF QueueTypes
  <2>4. /\ pass' \in [Reconciler -> Pass] /\ crashes' \in Nat /\ alerted' = {} /\ phase' = "down"
        /\ \A q \in Reconciler : pass'[q].st = "free"
        /\ UNCHANGED <<where, finalized, moves, deliveries, proof, payVars>>
    BY <1>1, <1>3, Blanks DEF Crash, OtherTypes, NoPass
  <2>5. QED
    BY <1>1, <2>3, <2>4 DEF payVars, TypeOK, QueueTypes, OtherTypes
<1>4. QED
  BY <1>2, <1>3

LEMMA InitTypes == Init => TypeOK
<1> SUFFICES ASSUME Init PROVE TypeOK
  OBVIOUS
<1>1. 0 \in Block /\ <<>> \in Seq(Intent) /\ NoPass.st = "free"
  BY Blanks, EmptySeq DEF NoPass
<1>2. QueueTypes
  <2>1. proc \in [Prover -> Process] /\ \A p \in Prover : proc[p] = NoProc
    BY Blanks DEF Init
  <2>2. rec \in [Intent -> Record] /\ queue \in Seq(Intent) /\ job = NoJob /\ since = {}
    BY <1>1, Blanks DEF Init
  <2>3. QED
    BY <2>1, <2>2, Blanks DEF QueueTypes
<1>3. OtherTypes
  <2>1. pass \in [Reconciler -> Pass] /\ \A p \in Reconciler : pass[p].st = "free"
    BY <1>1, Blanks DEF Init
  <2>2. QED
    BY <1>1, <2>1 DEF Init, OtherTypes
<1>4. QED
  BY <1>2, <1>3, TypeParts

\* Every step keeps the types.
LEMMA NextTypes == TypeOK /\ [Next]_vars => TypeOK'
<1> SUFFICES ASSUME TypeOK, [Next]_vars PROVE TypeOK'
  OBVIOUS
<1>1. CASE UNCHANGED vars
  BY <1>1 DEF vars, chainVars, hostVars, payVars, taskVars, TypeOK
<1>2. QED
  BY <1>1, ProverTypes, JobTypes, PassTypes, CreatedTypes, EnvironmentTypes, ProcessTypes DEF Next

\* Every process, record, file and ledger entry of the pipeline has the shape the code
\* gives it, and the one job of ProverQueue waits for exactly one prover of its own.
THEOREM TypeCorrect == Spec => []TypeOK
<1>1. QED
  BY InitTypes, NextTypes, PTL DEF Spec

----------------------------------------------------------------------------
(***************************************************************************)
(* The payouts.  The ledger entry is written with the signature and never  *)
(* taken back, so a signature is never made twice; an answer of Solana     *)
(* that is still being applied stays true.                                 *)
(***************************************************************************)
\* ProverQueue.pump: the job it starts is at its beginning, the records it touches say so.
LEMMA PumpStarts ==
    ASSUME NEW q \in Seq(Intent), NEW hp, Orphans(hp), NEW r \in [Intent -> Record], Pump(q, hp, r)
    PROVE  /\ job'.pc \in {"idle", "proving", "threw"}
           /\ job'.pc = "proving" => where[job'.i] \in since'
           /\ \A i \in Intent : /\ rec'[i].settlement = r[i].settlement
                                /\ rec'[i].status \in {r[i].status, "proving"}
           /\ \A p \in Prover : proc'[p].st = "saved" => proc'[p] = hp[p]
<1>1. CASE q = <<>>
  BY <1>1, Blanks DEF Pump
<1>2. CASE q # <<>>
  <2>1. Head(q) \in Intent
    BY <1>2, HeadTailProperties
  <2>2. CASE /\ job' = [NoJob EXCEPT !.i = Head(q), !.pc = "proving", !.attempt = 1]
             /\ Spawn(hp, Head(q))
             /\ rec' = setStatus(r, Head(q), "proving")
    <3>1. job'.pc = "proving" /\ job'.i = Head(q) /\ since' = {where[Head(q)]}
      BY <1>2, <2>2 DEF NoJob, Pump
    <3>2. \A i \in Intent : /\ rec'[i].settlement = r[i].settlement
                            /\ rec'[i].status \in {r[i].status, "proving"}
      BY <2>1, <2>2 DEF setStatus, Record
    <3>3. \A p \in Prover : proc'[p].st = "saved" => proc'[p] = hp[p]
      BY <2>2 DEF Spawn, Orphans, NoProc
    <3>4. QED
      BY <3>1, <3>2, <3>3
  <2>3. CASE /\ job' = [NoJob EXCEPT !.i = Head(q), !.pc = "threw"]
             /\ proc' = hp /\ rec' = r
    BY <2>3 DEF NoJob
  <2>4. QED
    BY <1>2, <2>2, <2>3 DEF Pump
<1>3. QED
  BY <1>1, <1>2

\* What ends in a pump of the queue, from whichever step.
LEMMA EndStarts ==
    ASSUME TypeOK, NEW hp, Orphans(hp), NEW r \in [Intent -> Record], JobEnds(hp, r)
    PROVE  /\ job'.pc \in {"idle", "proving", "threw"}
           /\ job'.pc = "proving" => where[job'.i] \in since'
           /\ \A i \in Intent : /\ rec'[i].settlement = r[i].settlement
                                /\ rec'[i].status \in {r[i].status, "proving"}
           /\ \A p \in Prover : proc'[p].st = "saved" => proc'[p] = hp[p]
BY PumpStarts DEF JobEnds, TypeOK

\* A job that is given up before the settlement: how its step is a JobEnds.
LEMMA GivenUpEnds ==
    ASSUME TypeOK, NEW p \in Prover, ProofGivenUp(p)
    PROVE  \E s \in {"alert", "rejected"} : /\ JobEnds(Reaped(p), setStatus(rec, job.i, s))
                                            /\ setStatus(rec, job.i, s) \in [Intent -> Record]
                                            /\ Orphans(Reaped(p)) /\ job.i \in Intent
<1>1. PICK s \in {"alert", "rejected"} : JobEnds(Reaped(p), setStatus(rec, job.i, s))
  BY DEF ProofGivenUp
<1>2. Orphans(Reaped(p)) /\ job.i \in Intent
  BY ReapedType DEF ProofGivenUp
<1>3. setStatus(rec, job.i, s) \in [Intent -> Record]
  BY <1>2, SetStatusType DEF TypeOK, Status
<1>4. QED
  BY <1>1, <1>2, <1>3

\* The steps that end a job without a prover.
Ending == JobThrows \/ HeaderFails \/ GateRefuses \/ SettleEnds

LEMMA EndingEnds ==
    ASSUME TypeOK, Ending
    PROVE  JobEnds(proc, rec) /\ Orphans(proc) /\ rec \in [Intent -> Record]
           /\ UNCHANGED <<chainVars, proof, payVars, taskVars>>
<1>1. JobEnds(proc, rec) /\ job.pc # "proving"
  BY DEF Ending, JobThrows, HeaderFails, GateRefuses, SettleEnds
<1>2. UNCHANGED <<chainVars, proof, payVars, taskVars>>
  BY DEF Ending, JobThrows, HeaderFails, GateRefuses, SettleEnds, JobStep
<1>3. QED
  BY <1>1, <1>2, NoProverOfTheJob DEF TypeOK

\* Nothing but a payout child, an answer of Solana and a pass concerns the ledger.
LEMMA LedgerFrame ==
    ASSUME LedgerInv, NoSecondPayout, UNCHANGED <<ledger, payouts, sig, pass>>,
           job'.pc = "child" => job' = job
    PROVE  LedgerInv' /\ NoSecondPayout'
BY DEF LedgerInv, NoSecondPayout

LEMMA LedgerJob ==
    ASSUME TypeOK, LedgerInv, NoSecondPayout, JobActs
    PROVE  LedgerInv' /\ NoSecondPayout'
<1>0. job \in Job /\ (job.pc # "idle" => job.i \in Intent)
  BY DEF TypeOK
<1>1. ASSUME NEW p \in Prover, ProofVerified(p) \/ ProofRetried(p) \/ ProofThrows(p)
      PROVE  LedgerInv' /\ NoSecondPayout'
  <2>1. job'.pc \in {"header", "backoff", "threw"}
    BY <1>0, <1>1 DEF ProofVerified, ProofRetried, ProofThrows, Job
  <2>2. QED
    BY <1>1, <2>1, LedgerFrame DEF ProofVerified, ProofRetried, ProofThrows, JobStep, payVars, taskVars
<1>2. ASSUME NEW p \in Prover, ProofGivenUp(p) PROVE LedgerInv' /\ NoSecondPayout'
  <2>1. job'.pc # "child"
    BY <1>2, GivenUpEnds, EndStarts
  <2>2. QED
    BY <1>2, <2>1, LedgerFrame DEF ProofGivenUp, JobStep, payVars, taskVars
<1>3. CASE Ending
  <2>1. job'.pc # "child"
    BY <1>3, EndingEnds, EndStarts
  <2>2. QED
    BY <1>3, <2>1, EndingEnds, LedgerFrame DEF payVars, taskVars
<1>4. CASE Backoff \/ HeaderAnswered \/ GatePasses \/ ChildFails
  <2>1. job'.pc # "child"
    BY <1>0, <1>4 DEF Backoff, HeaderAnswered, GatePasses, ChildFails, Job
  <2>2. UNCHANGED <<ledger, payouts, sig, pass>>
    BY <1>4 DEF Backoff, HeaderAnswered, GatePasses, ChildFails, JobStep, PayStep, payVars, taskVars
  <2>3. QED
    BY <2>1, <2>2, LedgerFrame
<1>5. CASE ChildSigns
  <2>1. job.i \in Intent /\ job'.i = job.i /\ ledger[job.i] = "none"
    BY <1>0, <1>5 DEF ChildSigns, isAlreadySettled, midSettlement, Job, TypeOK
  <2>2. payouts[job.i] = 0 /\ sig[job.i] = "none"
    BY <2>1 DEF LedgerInv
  <2>3. \A i \in Intent : /\ ledger'[i] = IF i = job.i THEN "settling" ELSE ledger[i]
                          /\ payouts'[i] = IF i = job.i THEN 1 ELSE payouts[i]
                          /\ i # job.i => sig'[i] = sig[i]
    BY <1>5, <2>1, <2>2 DEF ChildSigns, TypeOK
  <2>4. pass' = pass
    BY <1>5 DEF ChildSigns, PayStep, taskVars
  <2>5. \A p \in Reconciler : pass[p].landed => sig'[pass[p].i] = "landed" /\ pass[p].st = "answered"
    <3> SUFFICES ASSUME NEW p \in Reconciler, pass[p].landed
                 PROVE  sig'[pass[p].i] = "landed" /\ pass[p].st = "answered"
      OBVIOUS
    <3>1. pass[p].st = "answered" /\ sig[pass[p].i] = "landed"
      BY DEF LedgerInv
    <3>2. pass[p].i \in Intent /\ pass[p].i # job.i
      BY <2>2, <3>1 DEF TypeOK
    <3>3. QED
      BY <2>3, <3>1, <3>2
  <2>6. LedgerInv'
    BY <2>1, <2>3, <2>4, <2>5 DEF LedgerInv
  <2>7. QED
    BY <2>3, <2>6 DEF NoSecondPayout
<1>6. CASE ChildSucceeds
  <2>1. job.i \in Intent /\ job'.pc \in {"rest", "stuck"}
    BY <1>0, <1>6 DEF ChildSucceeds, Job
  <2>2. \A i \in Intent : ledger'[i] = IF i = job.i THEN "settled" ELSE ledger[i]
    BY <1>6, <2>1 DEF ChildSucceeds, TypeOK
  <2>3. UNCHANGED <<payouts, sig, pass>>
    BY <1>6 DEF ChildSucceeds, PayStep, taskVars
  <2>4. QED
    BY <2>1, <2>2, <2>3 DEF LedgerInv, NoSecondPayout
<1>7. QED
  BY <1>1, <1>2, <1>3, <1>4, <1>5, <1>6 DEF JobActs, Ending

LEMMA LedgerPass ==
    ASSUME TypeOK, LedgerInv, NoSecondPayout, NEW p \in Reconciler, PassActs(p)
    PROVE  LedgerInv' /\ NoSecondPayout'
<1>1. UNCHANGED <<sig, payouts, job>>
  BY DEF PassActs, ReconcileStart, ReconcileAnswered, ReconcileFails, ReconcileApplies, PassStep
<1>2. \A i \in Intent : ledger'[i] = ledger[i] \/ ledger'[i] = "settled"
  BY DEF PassActs, ReconcileStart, ReconcileAnswered, ReconcileFails, ReconcileApplies, TypeOK
<1>3. /\ \A q \in Reconciler : q # p => pass'[q] = pass[q]
      /\ pass'[p].landed => pass'[p].st = "answered" /\ sig[pass'[p].i] = "landed"
  <2>1. pass \in [Reconciler -> Pass]
    BY DEF TypeOK
  <2>2. CASE ReconcileStart(p)
    <3>1. ~pass'[p].landed
      BY <2>1, <2>2 DEF ReconcileStart, NoPass
    <3>2. QED
      BY <2>1, <2>2, <3>1 DEF ReconcileStart
  <2>3. CASE ReconcileAnswered(p)
    BY <2>1, <2>3 DEF ReconcileAnswered, Pass
  <2>4. CASE ReconcileFails(p) \/ ReconcileApplies(p)
    <3>1. ~pass'[p].landed
      BY <2>1, <2>4 DEF ReconcileFails, ReconcileApplies, NoPass
    <3>2. QED
      BY <2>1, <2>4, <3>1 DEF ReconcileFails, ReconcileApplies
  <2>5. QED
    BY <2>2, <2>3, <2>4 DEF PassActs
<1>4. job.pc = "child" => job.i \in Intent
  BY DEF TypeOK
<1>5. QED
  BY <1>1, <1>2, <1>3, <1>4 DEF LedgerInv, NoSecondPayout

LEMMA LedgerKept == TypeOK /\ LedgerInv /\ NoSecondPayout /\ [Next]_vars => LedgerInv' /\ NoSecondPayout'
<1> SUFFICES ASSUME TypeOK, LedgerInv, NoSecondPayout, [Next]_vars PROVE LedgerInv' /\ NoSecondPayout'
  OBVIOUS
<1>1. CASE UNCHANGED vars
  BY <1>1, LedgerFrame DEF vars, payVars, taskVars
<1>2. ASSUME NEW i \in Intent, ChainMoves(i) \/ Finalize(i) \/ PollFinality(i) \/ BootResume(i)
      PROVE  LedgerInv' /\ NoSecondPayout'
  <2>1. job'.pc = "child" => job' = job
    BY <1>2 DEF ChainMoves, Finalize, PollFinality, BootResume, NoJob
  <2>2. QED
    BY <1>2, <2>1, LedgerFrame DEF ChainMoves, Finalize, PollFinality, BootResume, payVars, taskVars
<1>3. ASSUME NEW i \in Intent, IntentCreated(i) PROVE LedgerInv' /\ NoSecondPayout'
  <2> DEFINE r == [rec EXCEPT ![i].status = "queued", ![i].block = where[i]]
  <2>1. r \in [Intent -> Record] /\ Append(queue, i) \in Seq(Intent)
    BY CreatedRecord, AppendProperties DEF TypeOK
  <2> HIDE DEF r
  <2>2. job'.pc = "child" => job' = job
    BY <1>3, <2>1, NoProverOfTheJob, PumpStarts DEF IntentCreated, r
  <2>3. QED
    BY <1>3, <2>2, LedgerFrame DEF IntentCreated, payVars, taskVars
<1>4. ASSUME NEW i \in Intent, PayoutLands(i) PROVE LedgerInv' /\ NoSecondPayout'
  <2>1. \A j \in Intent : sig'[j] = IF j = i THEN "landed" ELSE sig[j]
    BY <1>4 DEF PayoutLands, TypeOK
  <2>2. UNCHANGED <<ledger, payouts, pass, job>> /\ sig[i] = "sent"
    BY <1>4 DEF PayoutLands, taskVars
  <2>3. QED
    BY <2>1, <2>2, ZenonT(60) DEF LedgerInv, NoSecondPayout, TypeOK
<1>5. ASSUME NEW p \in Prover, ProverActs(p) PROVE LedgerInv' /\ NoSecondPayout'
  BY <1>5, LedgerFrame DEF ProverActs, ProverLocks, ProverReads, ProverSaves, ProverSucceeds, ProverFails,
                           ProcStep, payVars, taskVars
<1>6. CASE Boot \/ BootDone
  BY <1>6, LedgerFrame DEF Boot, BootDone, payVars
<1>7. CASE Crash
  <2>1. UNCHANGED <<ledger, payouts, sig>> /\ job'.pc = "idle" /\ \A p \in Reconciler : ~pass'[p].landed
    BY <1>7 DEF Crash, payVars, NoJob, NoPass
  <2>2. QED
    BY <2>1 DEF LedgerInv, NoSecondPayout
<1>8. QED
  BY <1>1, <1>2, <1>3, <1>4, <1>5, <1>6, <1>7, LedgerJob, LedgerPass DEF Next

LEMMA LedgerStarts == Init => LedgerInv /\ NoSecondPayout
BY DEF Init, NoJob, NoPass, LedgerInv, NoSecondPayout

\* The signed payout is entered in the settled ledger before GO and the entry survives
\* everything: however often the log comes, wherever the process crashes, whatever the
\* proof files and the answers of the reconciliation say, one payout is signed.
THEOREM PaidOnce == Spec => []NoSecondPayout
<1>1. TypeOK /\ LedgerInv /\ NoSecondPayout /\ [Next]_vars => (TypeOK /\ LedgerInv /\ NoSecondPayout)'
  BY NextTypes, LedgerKept
<1>2. QED
  BY <1>1, InitTypes, LedgerStarts, PTL DEF Spec

----------------------------------------------------------------------------
(***************************************************************************)
(* The records.  What they say is true when it is written and nothing      *)
(* unsays it: a landed signature is not replaced, a settled entry not      *)
(* reopened, a proof file not taken away.                                  *)
(***************************************************************************)
\* A settled entry stays settled and a landed payout stays landed.
LEMMA OutcomeStays ==
    ASSUME TypeOK, LedgerInv, [Next]_vars, NEW i \in Intent
    PROVE  /\ ledger[i] = "settled" => ledger'[i] = "settled"
           /\ sig[i] = "landed" => sig'[i] = "landed"
<1>1. CASE UNCHANGED <<ledger, sig>>
  BY <1>1
<1>2. CASE ChildSigns
  <2>1. job.i \in Intent /\ ledger[job.i] = "none" /\ sig[job.i] = "none"
    BY <1>2 DEF ChildSigns, isAlreadySettled, midSettlement, LedgerInv, TypeOK
  <2>2. i # job.i => ledger'[i] = ledger[i] /\ sig'[i] = sig[i]
    BY <1>2, <2>1 DEF ChildSigns, TypeOK
  <2>3. QED
    BY <2>1, <2>2
<1>3. CASE ChildSucceeds
  BY <1>3 DEF ChildSucceeds, TypeOK
<1>4. ASSUME NEW p \in Reconciler, PassActs(p) PROVE UNCHANGED sig /\ (ledger[i] = "settled" => ledger'[i] = "settled")
  BY <1>4 DEF PassActs, ReconcileStart, ReconcileAnswered, ReconcileFails, ReconcileApplies, PassStep, TypeOK
<1>5. ASSUME NEW j \in Intent, PayoutLands(j) PROVE UNCHANGED ledger /\ (sig[i] = "landed" => sig'[i] = "landed")
  BY <1>5 DEF PayoutLands, TypeOK
<1>6. ASSUME NEW p \in Prover, ProverActs(p) PROVE UNCHANGED <<ledger, sig>>
  BY <1>6 DEF ProverActs, ProverLocks, ProverReads, ProverSaves, ProverSucceeds, ProverFails, ProcStep, payVars
<1>7. ASSUME JobActs PROVE UNCHANGED <<ledger, sig>> \/ ChildSigns \/ ChildSucceeds
  BY <1>7 DEF JobActs, ProofVerified, ProofGivenUp, ProofRetried, ProofThrows, Backoff, JobThrows,
              HeaderAnswered, HeaderFails, GatePasses, GateRefuses, SettleEnds, ChildFails, JobStep, PayStep,
              payVars
<1>8. ASSUME NEW j \in Intent,
             ChainMoves(j) \/ Finalize(j) \/ IntentCreated(j) \/ PollFinality(j) \/ BootResume(j)
      PROVE  UNCHANGED <<ledger, sig>>
  BY <1>8 DEF ChainMoves, Finalize, IntentCreated, PollFinality, BootResume, payVars
<1>9. ASSUME Boot \/ BootDone \/ Crash PROVE UNCHANGED <<ledger, sig>>
  BY <1>9 DEF Boot, BootDone, Crash, payVars
<1>10. CASE UNCHANGED vars
  BY <1>10 DEF vars, payVars
<1>11. QED
  BY <1>1, <1>2, <1>3, <1>4, <1>5, <1>6, <1>7, <1>8, <1>9, <1>10 DEF Next

\* The files of a proof stay, and a prover that saved one knows its block.
LEMMA FilesStay ==
    ASSUME TypeOK, ProverSavedInv, [Next]_vars, NEW i \in Intent
    PROVE  /\ proof[i].bin # 0 => proof'[i].bin # 0
           /\ proof[i].json # 0 => proof'[i].json # 0
<1>1. CASE UNCHANGED proof
  BY <1>1
<1>2. ASSUME NEW p \in Prover, ProverActs(p)
      PROVE  /\ proof[i].bin # 0 => proof'[i].bin # 0
             /\ proof[i].json # 0 => proof'[i].json # 0
  <2>1. proof \in [Intent -> [bin : Block, json : Block]]
    BY DEF TypeOK
  <2>2. \/ UNCHANGED proof
        \/ proc[p].block # 0 /\ proof' = [proof EXCEPT ![proc[p].i].bin = proc[p].block]
        \/ proc[p].block # 0 /\ proof' = [proof EXCEPT ![proc[p].i].json = proc[p].block]
    BY <1>2 DEF ProverActs, ProverLocks, ProverReads, ProverSaves, ProverSucceeds, ProverFails, ProverSavedInv
  <2>3. QED
    BY <2>1, <2>2
<1>3. ASSUME JobActs PROVE UNCHANGED proof
  BY <1>3 DEF JobActs, ProofVerified, ProofGivenUp, ProofRetried, ProofThrows, Backoff, JobThrows,
              HeaderAnswered, HeaderFails, GatePasses, GateRefuses, SettleEnds, ChildSigns, ChildFails,
              ChildSucceeds, JobStep, PayStep, hostVars
<1>4. ASSUME NEW p \in Reconciler, PassActs(p) PROVE UNCHANGED proof
  BY <1>4 DEF PassActs, ReconcileStart, ReconcileAnswered, ReconcileFails, ReconcileApplies, PassStep, hostVars
<1>5. ASSUME NEW j \in Intent, \/ ChainMoves(j) \/ Finalize(j) \/ PayoutLands(j)
                               \/ IntentCreated(j) \/ PollFinality(j) \/ BootResume(j)
      PROVE  UNCHANGED proof
  BY <1>5 DEF ChainMoves, Finalize, PayoutLands, IntentCreated, PollFinality, BootResume, hostVars
<1>6. ASSUME Boot \/ BootDone \/ Crash PROVE UNCHANGED proof
  BY <1>6 DEF Boot, BootDone, Crash, hostVars
<1>7. CASE UNCHANGED vars
  BY <1>7 DEF vars, hostVars
<1>8. QED
  BY <1>1, <1>2, <1>3, <1>4, <1>5, <1>6, <1>7 DEF Next

\* What a step may newly claim, and why it may.
LEMMA NewClaims ==
    ASSUME TypeOK, LedgerInv, [Next]_vars, NEW i \in Intent
    PROVE  /\ rec'[i].settlement = "settled" /\ rec[i].settlement # "settled"
                => ledger'[i] = "settled" /\ sig[i] = "landed"
           /\ rec'[i].status = "verified" /\ rec[i].status # "verified"
                => proof[i].bin # 0 /\ proof[i].json # 0
<1> DEFINE Claim == /\ rec'[i].settlement = "settled" /\ rec[i].settlement # "settled"
                         => ledger'[i] = "settled" /\ sig[i] = "landed"
                    /\ rec'[i].status = "verified" /\ rec[i].status # "verified"
                         => proof[i].bin # 0 /\ proof[i].json # 0
<1>0. /\ rec \in [Intent -> Record] /\ job \in Job /\ (job.pc # "idle" => job.i \in Intent)
      /\ queue \in Seq(Intent) /\ ledger \in [Intent -> {"none", "settling", "settled"}]
  BY DEF TypeOK
<1>a. ASSUME NEW j \in Intent, NEW s, rec' = setSettlement(j, s)
      PROVE  /\ rec'[i].status = rec[i].status
             /\ rec'[i].settlement = IF i = j THEN s ELSE rec[i].settlement
  BY <1>0, <1>a DEF setSettlement, Record
<1>b. ASSUME NEW j \in Intent, NEW s, rec' = setStatus(rec, j, s)
      PROVE  /\ rec'[i].settlement = rec[i].settlement
             /\ rec'[i].status = IF i = j THEN s ELSE rec[i].status
  BY <1>0, <1>b DEF setStatus, Record
<1>1. CASE UNCHANGED rec
  BY <1>1
<1>2. ASSUME NEW p \in Prover, ProofVerified(p) PROVE Claim
  <2>1. job.i \in Intent /\ readProofJson(job.i) # 0 /\ rec' = setStatus(rec, job.i, "verified")
    BY <1>0, <1>2 DEF ProofVerified, Ended
  <2>2. proof[job.i].bin # 0 /\ proof[job.i].json # 0
    BY <2>1 DEF readProofJson
  <2>3. QED
    BY <1>b, <2>1, <2>2
<1>3. ASSUME NEW p \in Prover, ProofRetried(p) PROVE Claim
  <2>1. job.i \in Intent /\ rec' = setStatus(rec, job.i, "retrying")
    BY <1>0, <1>3 DEF ProofRetried, Ended
  <2>2. QED
    BY <1>b, <2>1
<1>4. ASSUME NEW p \in Prover, ProofGivenUp(p) PROVE Claim
  <2>1. PICK s \in {"alert", "rejected"} : /\ JobEnds(Reaped(p), setStatus(rec, job.i, s))
                                           /\ setStatus(rec, job.i, s) \in [Intent -> Record]
                                           /\ Orphans(Reaped(p)) /\ job.i \in Intent
    BY <1>4, GivenUpEnds
  <2>2. /\ rec'[i].settlement = setStatus(rec, job.i, s)[i].settlement
        /\ rec'[i].status \in {setStatus(rec, job.i, s)[i].status, "proving"}
    BY <2>1, EndStarts
  <2>3. /\ setStatus(rec, job.i, s)[i].settlement = rec[i].settlement
        /\ setStatus(rec, job.i, s)[i].status \in {rec[i].status, s}
    BY <1>0 DEF setStatus, Record
  <2>4. QED
    BY <2>2, <2>3
<1>5. CASE Ending
  BY <1>5, EndingEnds, EndStarts
<1>6. CASE ChildSigns
  <2>1. job.i \in Intent /\ (UNCHANGED rec \/ rec' = setSettlement(job.i, "settling"))
    BY <1>0, <1>6 DEF ChildSigns
  <2>2. QED
    BY <1>1, <1>a, <2>1
<1>7. CASE ChildFails
  <2>1. job.i \in Intent /\ (UNCHANGED rec \/ rec' = setSettlement(job.i, "unconfirmed-needs-review"))
    BY <1>0, <1>7 DEF ChildFails
  <2>2. QED
    BY <1>1, <1>a, <2>1
<1>8. CASE ChildSucceeds
  <2>1. /\ job.i \in Intent /\ (UNCHANGED rec \/ rec' = setSettlement(job.i, "settled"))
        /\ sig[job.i] = "landed" /\ ledger'[job.i] = "settled"
    BY <1>0, <1>8 DEF ChildSucceeds
  <2>2. QED
    BY <1>1, <1>a, <2>1
<1>9. ASSUME NEW p \in Reconciler, ReconcileApplies(p) PROVE Claim
  <2>1. pass[p].i \in Intent /\ (pass[p].landed => sig[pass[p].i] = "landed")
    BY <1>9 DEF ReconcileApplies, LedgerInv, TypeOK
  <2>2. \/ UNCHANGED rec
        \/ rec' = setSettlement(pass[p].i, "unconfirmed-needs-review")
        \/ /\ pass[p].landed /\ rec' = setSettlement(pass[p].i, "settled")
           /\ ledger'[pass[p].i] = "settled"
    BY <1>0, <1>9, <2>1 DEF ReconcileApplies
  <2>3. QED
    BY <1>1, <1>a, <2>1, <2>2
<1>10. ASSUME NEW j \in Intent, PollFinality(j) PROVE Claim
  BY <1>0, <1>10 DEF PollFinality, Record
<1>11. ASSUME NEW j \in Intent, IntentCreated(j) PROVE Claim
  <2> DEFINE r == [rec EXCEPT ![j].status = "queued", ![j].block = where[j]]
  <2>1. r \in [Intent -> Record] /\ Append(queue, j) \in Seq(Intent)
    BY CreatedRecord, AppendProperties DEF TypeOK
  <2>2. r[i].settlement = rec[i].settlement /\ r[i].status \in {rec[i].status, "queued"}
    BY <1>0 DEF Record
  <2> HIDE DEF r
  <2>3. CASE job.pc = "idle" /\ Pump(Append(queue, j), proc, r)
    <3>1. rec'[i].settlement = r[i].settlement /\ rec'[i].status \in {r[i].status, "proving"}
      BY <2>1, <2>3, NoProverOfTheJob, PumpStarts
    <3>2. QED
      BY <2>2, <3>1
  <2>4. CASE rec' = r
    BY <2>2, <2>4
  <2>5. QED
    BY <1>1, <1>11, <2>3, <2>4 DEF IntentCreated, r
<1>12. ASSUME JobActs
       PROVE  \/ \E p \in Prover : ProofVerified(p) \/ ProofGivenUp(p) \/ ProofRetried(p)
              \/ Ending \/ ChildSigns \/ ChildFails \/ ChildSucceeds \/ UNCHANGED rec
  BY <1>12 DEF JobActs, ProofThrows, Backoff, HeaderAnswered, GatePasses, Ending
<1>13. ASSUME NEW p \in Reconciler, PassActs(p) PROVE ReconcileApplies(p) \/ UNCHANGED rec
  BY <1>13 DEF PassActs, ReconcileStart, ReconcileAnswered, ReconcileFails
<1>14. ASSUME NEW p \in Prover, ProverActs(p) PROVE UNCHANGED rec
  BY <1>14 DEF ProverActs, ProverLocks, ProverReads, ProverSaves, ProverSucceeds, ProverFails, ProcStep
<1>15. ASSUME NEW j \in Intent, ChainMoves(j) \/ Finalize(j) \/ PayoutLands(j) \/ BootResume(j)
       PROVE  UNCHANGED rec
  BY <1>15 DEF ChainMoves, Finalize, PayoutLands, BootResume
<1>16. ASSUME Boot \/ BootDone \/ Crash \/ UNCHANGED vars PROVE UNCHANGED rec
  BY <1>16 DEF Boot, BootDone, Crash, vars
<1> HIDE DEF Claim
<1>17. Claim
  BY <1>1, <1>2, <1>3, <1>4, <1>5, <1>6, <1>7, <1>8, <1>9, <1>10, <1>11, <1>12, <1>13, <1>14, <1>15, <1>16
     DEF Next, Claim
<1>18. QED
  BY <1>17 DEF Claim

\* A prover that saved its files read its block before.
LEMMA SavedKept == TypeOK /\ ProverSavedInv /\ [Next]_vars => ProverSavedInv'
<1> SUFFICES ASSUME TypeOK, ProverSavedInv, [Next]_vars, NEW p \in Prover, proc'[p].st = "saved"
             PROVE  proc'[p].block # 0
  BY DEF ProverSavedInv
<1>0. proc \in [Prover -> Process] /\ proc[p].block \in Block /\ 0 \in Block
  BY Blanks DEF TypeOK, Process
<1>1. ASSUME proc'[p] = proc[p] PROVE proc'[p].block # 0
  BY <1>1 DEF ProverSavedInv
<1>2. ASSUME NEW q \in Prover, ProverActs(q) PROVE proc'[p].block # 0
  <2>1. CASE q # p
    <3>1. \E n : proc' = [proc EXCEPT ![q] = n]
      <4>1. CASE ProverLocks(q) \/ ProverReads(q) \/ ProverSaves(q)
        BY <1>0, <4>1 DEF ProverLocks, ProverReads, ProverSaves
      <4>2. CASE ProverSucceeds(q) \/ ProverFails(q)
        BY <4>2 DEF ProverSucceeds, ProverFails, Exit
      <4>3. QED
        BY <1>2, <4>1, <4>2 DEF ProverActs
    <3>2. proc'[p] = proc[p]
      BY <1>0, <2>1, <3>1
    <3>3. QED
      BY <1>1, <3>2
  <2>2. CASE q = p /\ ProverSaves(p)
    BY <1>0, <2>2 DEF ProverSaves, Process
  <2>3. CASE q = p /\ (ProverLocks(p) \/ ProverReads(p) \/ ProverSucceeds(p) \/ ProverFails(p))
    <3>1. proc'[p].st # "saved"
      <4>1. CASE ProverLocks(p)
        BY <1>0, <4>1 DEF ProverLocks, Process
      <4>2. CASE ProverReads(p)
        BY <1>0, <4>2 DEF ProverReads, Process
      <4>3. ASSUME NEW c, Exit(p, c) PROVE proc'[p].st # "saved"
        BY <1>0, <4>3 DEF Exit, Process, NoProc
      <4>4. CASE ProverSucceeds(p) \/ ProverFails(p)
        BY <4>3, <4>4 DEF ProverSucceeds, ProverFails
      <4>5. QED
        BY <2>3, <4>1, <4>2, <4>4
    <3>2. QED
      BY <3>1
  <2>4. QED
    BY <1>2, <2>1, <2>2, <2>3 DEF ProverActs
<1>3. ASSUME NEW q \in Prover, proc' = Reaped(q) PROVE proc'[p].block # 0
  <2>1. proc'[p] = proc[p]
    BY <1>0, <1>3 DEF Reaped, NoProc
  <2>2. QED
    BY <1>1, <2>1
<1>4. ASSUME NEW q \in Prover, ProofGivenUp(q) PROVE proc'[p].block # 0
  <2>1. proc'[p] = Reaped(q)[p]
    BY <1>4, GivenUpEnds, EndStarts
  <2>2. proc'[p] = proc[p]
    BY <1>0, <2>1 DEF Reaped, NoProc
  <2>3. QED
    BY <1>1, <2>2
<1>5. CASE Ending
  BY <1>1, <1>5, EndingEnds, EndStarts
<1>6. CASE Backoff
  <2>1. proc'[p] = proc[p]
    BY <1>0, <1>6 DEF Backoff, Spawn, NoProc
  <2>2. QED
    BY <1>1, <2>1
<1>7. ASSUME NEW i \in Intent, IntentCreated(i) PROVE proc'[p].block # 0
  <2> DEFINE r == [rec EXCEPT ![i].status = "queued", ![i].block = where[i]]
  <2>1. r \in [Intent -> Record] /\ Append(queue, i) \in Seq(Intent)
    BY CreatedRecord, AppendProperties DEF TypeOK
  <2> HIDE DEF r
  <2>2. proc'[p] = proc[p]
    BY <1>7, <2>1, NoProverOfTheJob, PumpStarts, ZenonT(60) DEF IntentCreated, r
  <2>3. QED
    BY <1>1, <2>2
<1>8. CASE Crash
  BY <1>0, <1>8 DEF Crash, ProverSavedInv, NoProc, Process
<1>9. ASSUME JobActs
      PROVE  \/ \E q \in Prover : proc' = Reaped(q) \/ ProofGivenUp(q)
             \/ Ending \/ Backoff \/ UNCHANGED proc
  BY <1>9 DEF JobActs, ProofVerified, ProofRetried, ProofThrows, HeaderAnswered, GatePasses, ChildSigns,
              ChildFails, ChildSucceeds, Ending, PayStep, hostVars
<1>10. ASSUME NEW q \in Reconciler, PassActs(q) PROVE UNCHANGED proc
  BY <1>10 DEF PassActs, ReconcileStart, ReconcileAnswered, ReconcileFails, ReconcileApplies, PassStep, hostVars
<1>11. ASSUME NEW i \in Intent,
              ChainMoves(i) \/ Finalize(i) \/ PayoutLands(i) \/ PollFinality(i) \/ BootResume(i)
       PROVE  UNCHANGED proc
  BY <1>11 DEF ChainMoves, Finalize, PayoutLands, PollFinality, BootResume, hostVars
<1>12. ASSUME Boot \/ BootDone \/ UNCHANGED vars PROVE UNCHANGED proc
  BY <1>12 DEF Boot, BootDone, vars, hostVars
<1>13. QED
  BY <1>1, <1>2, <1>3, <1>4, <1>5, <1>6, <1>7, <1>8, <1>9, <1>10, <1>11, <1>12 DEF Next

\* A record says that the payout was delivered only if the settled ledger has the intent as
\* settled and Solana the payout as landed, and that the proof is verified only if both its
\* files are there - now, not just when it was written.
THEOREM RecordsAreTrue == Spec => []RecordsClaimNoMore
<1> DEFINE Inv == TypeOK /\ LedgerInv /\ NoSecondPayout /\ ProverSavedInv /\ RecordsClaimNoMore
<1>1. Init => Inv
  <2>1. Init => RecordsClaimNoMore /\ ProverSavedInv
    BY DEF Init, blankState, NoProc, RecordsClaimNoMore, ProverSavedInv
  <2>2. QED
    BY <2>1, InitTypes, LedgerStarts
<1>2. Inv /\ [Next]_vars => Inv'
  <2> SUFFICES ASSUME Inv, [Next]_vars PROVE Inv'
    OBVIOUS
  <2>1. RecordsClaimNoMore'
    <3> SUFFICES ASSUME NEW i \in Intent
                 PROVE  /\ rec'[i].settlement = "settled" => ledger'[i] = "settled" /\ sig'[i] = "landed"
                        /\ rec'[i].status = "verified" => proof'[i].bin # 0 /\ proof'[i].json # 0
      BY DEF RecordsClaimNoMore
    <3>1. /\ rec[i].settlement = "settled" => ledger[i] = "settled" /\ sig[i] = "landed"
          /\ rec[i].status = "verified" => proof[i].bin # 0 /\ proof[i].json # 0
      BY DEF RecordsClaimNoMore
    <3>2. QED
      BY <3>1, NewClaims, OutcomeStays, FilesStay
  <2>2. QED
    BY <2>1, NextTypes, LedgerKept, SavedKept
<1>3. Inv => RecordsClaimNoMore
  OBVIOUS
<1> HIDE DEF Inv
<1>4. QED
  BY <1>1, <1>2, <1>3, PTL DEF Spec

----------------------------------------------------------------------------
(***************************************************************************)
(* What is settled was on the chain.  The proof's block is compared with   *)
(* the chain's answer at the gate, and the answer is a block the intent    *)
(* was in at some time since the job started: since follows the chain.     *)
(***************************************************************************)
\* A step that leaves the chain and the job alone, or ends or begins a job.
LEMMA SinceFrame ==
    ASSUME SinceInv,
           \/ UNCHANGED <<where, since, job>>
           \/ job'.pc \in {"idle", "threw", "rest", "child", "stuck"}
           \/ job'.pc = "proving" /\ where'[job'.i] \in since'
    PROVE  SinceInv'
BY DEF SinceInv, SettledWasOnChain

LEMMA SinceJob ==
    ASSUME TypeOK, SinceInv, JobActs
    PROVE  SinceInv'
<1>0. job \in Job
  BY DEF TypeOK
<1>1. ASSUME NEW p \in Prover, ProofVerified(p) \/ ProofRetried(p) PROVE SinceInv'
  <2>1. /\ job.pc = "proving" /\ job'.pc \in {"header", "backoff"} /\ job'.i = job.i
        /\ UNCHANGED <<where, since>>
    BY <1>0, <1>1 DEF ProofVerified, ProofRetried, Ended, JobStep, chainVars, Job
  <2>2. QED
    BY <2>1 DEF SinceInv, SettledWasOnChain
<1>2. ASSUME NEW p \in Prover, ProofThrows(p) PROVE SinceInv'
  BY <1>0, <1>2, SinceFrame DEF ProofThrows, Job
<1>3. ASSUME NEW p \in Prover, ProofGivenUp(p) PROVE SinceInv'
  <2>1. job'.pc \in {"idle", "proving", "threw"} /\ (job'.pc = "proving" => where[job'.i] \in since')
    BY <1>3, GivenUpEnds, EndStarts
  <2>2. where' = where
    BY <1>3 DEF ProofGivenUp, JobStep, chainVars
  <2>3. QED
    BY <2>1, <2>2, SinceFrame
<1>4. CASE Ending
  <2>1. job'.pc \in {"idle", "proving", "threw"} /\ (job'.pc = "proving" => where[job'.i] \in since')
    BY <1>4, EndingEnds, EndStarts
  <2>2. where' = where
    BY <1>4, EndingEnds DEF chainVars
  <2>3. QED
    BY <2>1, <2>2, SinceFrame
<1>5. CASE Backoff
  <2>1. job.pc = "backoff" /\ job'.pc = "proving" /\ job'.i = job.i /\ UNCHANGED <<where, since>>
    BY <1>0, <1>5 DEF Backoff, JobStep, chainVars, Job
  <2>2. QED
    BY <2>1 DEF SinceInv, SettledWasOnChain
<1>6. CASE HeaderAnswered
  <2>1. /\ job.pc = "header" /\ job'.pc = "gate" /\ job'.i = job.i /\ job'.answer = where[job.i]
        /\ UNCHANGED <<where, since>>
    BY <1>0, <1>6 DEF HeaderAnswered, JobStep, chainVars, Job
  <2>2. QED
    BY <2>1 DEF SinceInv, SettledWasOnChain
<1>7. CASE GatePasses
  <2>1. /\ job.pc = "gate" /\ job.json = job.answer
        /\ job'.pc = "settle" /\ job'.json = job.json /\ UNCHANGED <<where, since>>
    BY <1>0, <1>7 DEF GatePasses, evaluateSettleGate, chainVars, Job
  <2>2. QED
    BY <2>1 DEF SinceInv, SettledWasOnChain
<1>8. CASE ChildSigns \/ ChildFails \/ ChildSucceeds
  <2>1. job'.pc \in {"child", "rest", "stuck"}
    BY <1>0, <1>8 DEF ChildSigns, ChildFails, ChildSucceeds, Job
  <2>2. QED
    BY <2>1, SinceFrame
<1>9. QED
  BY <1>1, <1>2, <1>3, <1>4, <1>5, <1>6, <1>7, <1>8 DEF JobActs, Ending

LEMMA SinceKept == TypeOK /\ SinceInv /\ [Next]_vars => SinceInv'
<1> SUFFICES ASSUME TypeOK, SinceInv, [Next]_vars PROVE SinceInv'
  OBVIOUS
<1>1. CASE UNCHANGED vars
  BY <1>1, SinceFrame DEF vars, chainVars
<1>2. ASSUME NEW i \in Intent, ChainMoves(i) PROVE SinceInv'
  <2>1. PICK b \in 0 .. MaxBlock : /\ where' = [where EXCEPT ![i] = b]
                                   /\ since' = IF job.i = i THEN since \cup {b} ELSE since
    BY <1>2 DEF ChainMoves
  <2>2. job' = job /\ where \in [Intent -> Block] /\ (job.pc # "idle" => job.i \in Intent)
    BY <1>2 DEF ChainMoves, TypeOK
  <2>3. since \subseteq since'
    BY <2>1
  <2>4. ASSUME job.pc # "idle" PROVE where'[job.i] \in since' \/ where'[job.i] = where[job.i]
    BY <2>1, <2>2, <2>4
  <2>5. QED
    BY <2>2, <2>3, <2>4 DEF SinceInv, SettledWasOnChain
<1>3. ASSUME NEW i \in Intent, Finalize(i) \/ PayoutLands(i) \/ PollFinality(i) PROVE SinceInv'
  BY <1>3, SinceFrame DEF Finalize, PayoutLands, PollFinality, chainVars
<1>4. ASSUME NEW i \in Intent, BootResume(i) PROVE SinceInv'
  <2>1. job'.pc = "settle" /\ job'.json = 0
    BY <1>4 DEF BootResume, NoJob
  <2>2. QED
    BY <2>1 DEF SinceInv, SettledWasOnChain
<1>5. ASSUME NEW i \in Intent, IntentCreated(i) PROVE SinceInv'
  <2> DEFINE r == [rec EXCEPT ![i].status = "queued", ![i].block = where[i]]
  <2>1. r \in [Intent -> Record] /\ Append(queue, i) \in Seq(Intent)
    BY CreatedRecord, AppendProperties DEF TypeOK
  <2> HIDE DEF r
  <2>2. where' = where
    BY <1>5 DEF IntentCreated
  <2>3. \/ UNCHANGED <<job, since>>
        \/ /\ job'.pc \in {"idle", "proving", "threw"}
           /\ job'.pc = "proving" => where[job'.i] \in since'
    BY <1>5, <2>1, NoProverOfTheJob, PumpStarts DEF IntentCreated, r
  <2>4. QED
    BY <2>2, <2>3, SinceFrame
<1>6. ASSUME NEW p \in Prover, ProverActs(p) PROVE SinceInv'
  BY <1>6, SinceFrame DEF ProverActs, ProverLocks, ProverReads, ProverSaves, ProverSucceeds, ProverFails,
                          ProcStep, chainVars
<1>7. ASSUME NEW p \in Reconciler, PassActs(p) PROVE SinceInv'
  BY <1>7, SinceFrame DEF PassActs, ReconcileStart, ReconcileAnswered, ReconcileFails, ReconcileApplies,
                          PassStep, chainVars
<1>8. CASE Boot \/ BootDone
  BY <1>8, SinceFrame DEF Boot, BootDone, chainVars
<1>9. CASE Crash
  <2>1. job'.pc = "idle"
    BY <1>9 DEF Crash, NoJob
  <2>2. QED
    BY <2>1, SinceFrame
<1>10. QED
  BY <1>1, <1>2, <1>3, <1>4, <1>5, <1>6, <1>7, <1>8, <1>9, SinceJob DEF Next

\* A job gets to the settlement only with the proof of a block in which the intent's
\* transaction was canonical at some time since that job started: no proof file of an
\* earlier run or of an orphan, and no reorganisation during the proof, changes that.
THEOREM SettledIntentsWereOnChain == Spec => []SettledWasOnChain
<1>1. Init => SinceInv
  BY DEF Init, NoJob, SinceInv, SettledWasOnChain
<1>2. TypeOK /\ SinceInv /\ [Next]_vars => (TypeOK /\ SinceInv)'
  BY NextTypes, SinceKept
<1>3. SinceInv => SettledWasOnChain
  BY DEF SinceInv
<1>4. QED
  BY <1>1, <1>2, <1>3, InitTypes, PTL DEF Spec
=============================================================================
