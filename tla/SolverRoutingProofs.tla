------------------------- MODULE SolverRoutingProofs -------------------------
(***************************************************************************)
(* Theorems about SolverRouting, for any intents, solvers, jobs, amounts   *)
(* and timing: no reservation leaks, and every commitment of capital is    *)
(* counted, as long as a receipt that exists is not lost; and no solver's  *)
(* capital is promised twice, if the hold outlasts an RPC node's lag.      *)
(***************************************************************************)
EXTENDS SolverRouting, FiniteSetTheorems, WellFoundedInduction, TLAPS

\* Why CapitalCovers is preserved.  Mined collateral is the intent's last transaction and
\* has its ledger entry; routing counts it, in the book or as in flight, until every node
\* knows of it and so does the selection under way.
MinedIsKnown ==
    \A n \in DOMAIN mined :
        LET s == mined[n].solver
            i == mined[n].intent
        IN  /\ mined[n].at <= now
            /\ ledger[i].solver = s
            /\ \E m \in DOMAIN txs : /\ txs[m].intent = i /\ txs[m].st = "success"
                                     /\ \A l \in DOMAIN txs : txs[l].intent = i => l <= m
            /\ \/ ledger[i].stage = "posting_collateral"
               \/ /\ ledger[i].stage = "collateral_posted"
                  /\ \/ ~up
                     \/ \E r \in book : /\ r.solver = s /\ r.intent = i
                                        /\ r.release # Pending /\ r.release >= mined[n].at + Hold
                     \/ /\ mined[n].at + Lag <= now
                        /\ \A j \in Job : At(j, "decide") => n <= job[j].ref

\* What a selection's reads missed, the book still holds when it decides.
ReadsAreFresh ==
    \A j \in Job : At(j, "decide") =>
        /\ now <= job[j].due /\ job[j].due <= now + Patience
        /\ job[j].ref <= Len(mined)
        /\ \A n \in DOMAIN mined : n > job[j].ref => job[j].due < mined[n].at + Hold

\* A job waits for its intent's last transaction; the book is empty until the boot is over.
WaitsForLast ==
    \A j \in Job : At(j, "wait") =>
        \A m \in DOMAIN txs : txs[m].intent = txs[job[j].ref].intent => m <= job[j].ref
EmptyAtBoot == ~up => book = {}

\* What is committed and what was taken fits what the solver started with.
ExposureFits == \A s \in Solver : NeedOf(Promised(s) \cup MinedFor(s, Len(mined))) <= Capital[s]

CapitalInv == MinedIsKnown /\ ReadsAreFresh /\ WaitsForLast /\ EmptyAtBoot /\ ExposureFits

\* What a job has in its hands: the open reservation from its selection on, and the
\* ledger entry it wrote from its signature on.
JobsHoldTheirs ==
    \A j \in Job :
        /\ At(j, "idle") <=> job[j].intent = {}
        /\ ~At(j, "idle") => \E i \in Intent : On(j, i)
        /\ \A i \in Intent : On(j, i) =>
            /\ job[j].pc \in Working =>
                /\ job[j].solver \in Solver
                /\ \E r \in book : r.solver = job[j].solver /\ r.intent = i /\ r.release = Pending
            /\ At(j, "wait") =>
                /\ txs[job[j].ref].solver = job[j].solver
                /\ txs[job[j].ref].intent = i
                /\ ledger[i].stage = "posting_collateral" /\ ledger[i].solver = job[j].solver
            /\ ~At(j, "wait") => ledger[i].stage \in {"none", "collateral_failed"}

OneJobPerIntent == \A i \in Intent : \A j, k \in Job : On(j, i) /\ On(k, i) => j = k

HoldsArePosted == \A r \in book : r.release # Pending => ledger[r.intent].stage = "collateral_posted"

\* A transaction that may still be mined is awaited by its job, or the ledger's entry says
\* so and no job is on the intent; and it is the intent's last one.
LiveIsKnown ==
    \A n \in DOMAIN txs : Live(n) =>
        /\ \/ \E j \in Job : At(j, "wait") /\ job[j].ref = n
           \/ /\ ledger[txs[n].intent].stage = "posting_collateral"
              /\ ledger[txs[n].intent].solver = txs[n].solver
              /\ \A j \in Job : ~On(j, txs[n].intent)
        /\ \A m \in DOMAIN txs : txs[m].intent = txs[n].intent => m <= n

NoJobAtBoot == ~up => \A j \in Job : At(j, "idle")

RoutingInv ==
    /\ TypeOK
    /\ JobsHoldTheirs
    /\ OneJobPerIntent
    /\ NoLeakedReservation
    /\ HoldsArePosted
    /\ LiveIsKnown
    /\ NoJobAtBoot

----------------------------------------------------------------------------
USE DEF At, On, Idle, Working, Live

\* The initial state: no jobs, no reservations, no transactions.
LEMMA InitInv == Init => RoutingInv
<1> SUFFICES ASSUME Init PROVE RoutingInv
  OBVIOUS
<1>1. TypeOK
  <2>1. ledger \in [Intent -> Entry]
    BY DEF Init, NoEntry, Stage, Entry
  <2>2. job \in [Job -> JobRecord]
    BY DEF Init, JobRecord
  <2>3. txs \in Seq(TxRecord)
    BY DEF Init
  <2>4. \A j \in Job : job[j].pc = "idle"
    BY DEF Init
  <2>5. now \in Nat /\ book = {} /\ lock = NoJob /\ up \in BOOLEAN
    BY DEF Init
  <2>6. mined \in Seq([solver : Solver, intent : Intent, at : Nat])
    BY DEF Init
  <2>7. QED
    BY <2>1, <2>2, <2>3, <2>4, <2>5, <2>6, RoutingAssumption DEF TypeOK
<1>2. \A j \in Job : job[j].pc = "idle" /\ job[j].intent = {}
  BY DEF Init
<1>3. book = {} /\ DOMAIN txs = {}
  BY DEF Init
<1>4. JobsHoldTheirs /\ OneJobPerIntent
  BY <1>2 DEF JobsHoldTheirs, OneJobPerIntent
<1>5. NoLeakedReservation /\ HoldsArePosted /\ LiveIsKnown /\ NoJobAtBoot
  BY <1>2, <1>3 DEF NoLeakedReservation, HoldsArePosted, LiveIsKnown, NoJobAtBoot
<1>6. QED
  BY <1>1, <1>4, <1>5 DEF RoutingInv

\* A job starts on an intent that no other job is on.
LEMMA DispatchInv ==
    ASSUME RoutingInv, NEW j \in Job, NEW i \in Intent, Dispatch(j, i)
    PROVE  RoutingInv'
<1>1. job' = [job EXCEPT ![j] = [pc |-> "enter", intent |-> {i}, solver |-> NoSolver, ref |-> 0, due |-> 0]]
  BY DEF Dispatch
<1>2. TypeOK'
  <2>1. job' \in [Job -> JobRecord]
    BY <1>1 DEF RoutingInv, TypeOK, JobRecord
  <2>2. QED
    BY <1>1, <2>1 DEF RoutingInv, TypeOK, Dispatch
<1>3. \A k \in Job : k # j => job'[k] = job[k]
  BY <1>1 DEF RoutingInv, TypeOK
<1>4. /\ job'[j].pc = "enter" /\ job'[j].intent = {i}
      /\ job[j].pc = "idle" /\ job[j].intent = {}
  BY <1>1 DEF RoutingInv, TypeOK, Dispatch, JobsHoldTheirs
<1>5. JobsHoldTheirs'
  BY <1>3, <1>4 DEF RoutingInv, JobsHoldTheirs, Dispatch
<1>6. OneJobPerIntent'
  BY <1>3, <1>4 DEF RoutingInv, OneJobPerIntent, Dispatch
<1>7. NoLeakedReservation'
  BY <1>3, <1>4, SMTT(40) DEF RoutingInv, NoLeakedReservation, Dispatch
<1>8. LiveIsKnown'
  BY <1>3, <1>4 DEF RoutingInv, LiveIsKnown, Dispatch
<1>9. HoldsArePosted' /\ NoJobAtBoot'
  BY DEF RoutingInv, HoldsArePosted, NoJobAtBoot, Dispatch
<1>10. QED
  BY <1>2, <1>5, <1>6, <1>7, <1>8, <1>9 DEF RoutingInv

\* A selection's reads: only the position of the job and the mutex change.
LEMMA ReadsInv ==
    ASSUME RoutingInv, NEW j \in Job, Reads(j)
    PROVE  RoutingInv'
<1>1. /\ job[j].pc = "enter" /\ lock = NoJob /\ lock' = j
      /\ UNCHANGED <<now, ledger, book, txs, mined, crashes, up>>
  BY DEF Reads
<1>2. PICK k \in Nat :
        job' = [job EXCEPT ![j] = [pc |-> "decide", intent |-> job[j].intent, solver |-> NoSolver,
                                     ref |-> k, due |-> now + Patience]]
  <2>1. PICK k \in View :
          job' = [job EXCEPT ![j] = [pc |-> "decide", intent |-> job[j].intent, solver |-> NoSolver,
                                     ref |-> k, due |-> now + Patience]]
    BY DEF Reads
  <2>2. k \in Nat
    BY DEF View
  <2>3. QED
    BY <2>1, <2>2
<1>3. /\ \A l \in Job : l # j => job'[l] = job[l]
      /\ job'[j].pc = "decide" /\ job'[j].intent = job[j].intent
  BY <1>2 DEF RoutingInv, TypeOK, JobRecord
<1>4. TypeOK'
  <2>1. job' \in [Job -> JobRecord]
    <3>1. job[j] \in JobRecord /\ now + Patience \in Nat
      BY RoutingAssumption DEF RoutingInv, TypeOK
    <3>2. [pc |-> "decide", intent |-> job[j].intent, solver |-> NoSolver, ref |-> k, due |-> now + Patience]
            \in JobRecord
      BY <3>1 DEF JobRecord
    <3>3. QED
      BY <1>2, <3>2 DEF RoutingInv, TypeOK
  <2>2. \A l \in Job : job'[l].pc = "decide" <=> lock' = l
    BY <1>1, <1>3, RoutingAssumption DEF RoutingInv, TypeOK
  <2>3. \A l \in Job : job'[l].pc = "wait" => job'[l].ref \in DOMAIN txs
    BY <1>3 DEF RoutingInv, TypeOK
  <2>4. QED
    BY <1>1, <2>1, <2>2, <2>3 DEF RoutingInv, TypeOK
<1>5. JobsHoldTheirs'
  BY <1>1, <1>3 DEF RoutingInv, JobsHoldTheirs
<1>6. OneJobPerIntent'
  BY <1>1, <1>3 DEF RoutingInv, OneJobPerIntent
<1>7. NoLeakedReservation'
  BY <1>1, <1>3 DEF RoutingInv, NoLeakedReservation
<1>8. LiveIsKnown'
  BY <1>1, <1>3 DEF RoutingInv, LiveIsKnown
<1>9. HoldsArePosted' /\ NoJobAtBoot'
  BY <1>1, <1>3 DEF RoutingInv, HoldsArePosted, NoJobAtBoot
<1>10. QED
  BY <1>4, <1>5, <1>6, <1>7, <1>8, <1>9 DEF RoutingInv

\* A transaction that may still be mined for an intent a job is on is the one that job
\* waits for.
LEMMA LiveOfJob ==
    ASSUME RoutingInv, NEW j \in Job, NEW i \in Intent, On(j, i),
           NEW n \in DOMAIN txs, Live(n), txs[n].intent = i
    PROVE  At(j, "wait") /\ job[j].ref = n
<1>1. PICK k \in Job : At(k, "wait") /\ job[k].ref = n
  BY DEF RoutingInv, LiveIsKnown
<1>2. PICK l \in Intent : On(k, l)
  BY <1>1 DEF RoutingInv, JobsHoldTheirs
<1>3. l = i
  BY <1>1, <1>2 DEF RoutingInv, JobsHoldTheirs
<1>4. QED
  BY <1>1, <1>2, <1>3 DEF RoutingInv, OneJobPerIntent

\* Releasing the reservation of a job at work removes what is open for its intent, and
\* nothing else that is open.
LEMMA ReleaseOpen ==
    ASSUME RoutingInv, NEW j \in Job, NEW i \in Intent, On(j, i), job[j].pc \in Working,
           release(job[j].solver, i)
    PROVE  /\ book' \subseteq book
           /\ \A r \in book : r.release = Pending => (r \in book' <=> r.intent # i)
<1>1. book' \subseteq book /\ \A r \in book : r \in book' <=> ~(r.solver = job[j].solver /\ r.intent = i)
  BY DEF release, Of
<1>2. ASSUME NEW r \in book, r.release = Pending, r.intent = i
      PROVE  r.solver = job[j].solver
  <2>1. PICK l \in Job : job[l].pc \in Working /\ On(l, r.intent) /\ job[l].solver = r.solver
    BY <1>2 DEF RoutingInv, NoLeakedReservation
  <2>2. l = j
    BY <1>2, <2>1 DEF RoutingInv, OneJobPerIntent
  <2>3. QED
    BY <2>1, <2>2
<1>3. QED
  BY <1>1, <1>2

\* A job that ends without collateral posted: nothing is open for its intent any more,
\* the intent may be dispatched again, and none of its transactions could be mined.
LEMMA EndInv ==
    ASSUME RoutingInv, NEW j \in Job, NEW i \in Intent, On(j, i),
           book' \subseteq book,
           \A r \in book : r.release = Pending => (r \in book' <=> r.intent # i),
           Finish(j),
           lock' \in Job \cup {NoJob},
           lock' # j,
           \A l \in Job : l # j => (lock' = l <=> lock = l),
           ledger' \in [Intent -> Entry],
           \A k \in Intent : k # i => ledger'[k] = ledger[k],
           ledger'[i].stage \in {"none", "collateral_failed"},
           txs' \in Seq(TxRecord),
           DOMAIN txs' = DOMAIN txs,
           \A n \in DOMAIN txs : /\ txs'[n].intent = txs[n].intent
                                 /\ txs'[n].solver = txs[n].solver
                                 /\ txs'[n].st \in {"signed", "mempool"} => Live(n) /\ txs[n].intent # i,
           UNCHANGED <<now, mined, up>>
    PROVE  RoutingInv'
<1>1. /\ \A l \in Job : l # j => job'[l] = job[l]
      /\ job'[j].pc = "idle" /\ job'[j].intent = {}
      /\ \A k : job'[j].intent # {k}
  BY DEF RoutingInv, TypeOK, Finish
<1>2. \A l \in Job : l # j => ~On(l, i)
  BY DEF RoutingInv, OneJobPerIntent
<1>4. TypeOK'
  <2>1. job' \in [Job -> JobRecord]
    BY DEF RoutingInv, TypeOK, Finish, JobRecord
  <2>2. \A l \in Job : job'[l].pc = "decide" <=> lock' = l
    BY <1>1 DEF RoutingInv, TypeOK
  <2>3. \A l \in Job : job'[l].pc = "wait" => job'[l].ref \in DOMAIN txs'
    BY <1>1 DEF RoutingInv, TypeOK
  <2>4. QED
    BY <2>1, <2>2, <2>3 DEF RoutingInv, TypeOK
<1>5. JobsHoldTheirs'
  <2> SUFFICES ASSUME NEW l \in Job, l # j PROVE
        /\ job'[l].pc = "idle" <=> job'[l].intent = {}
        /\ job'[l].pc # "idle" => \E k \in Intent : job'[l].intent = {k}
        /\ \A k \in Intent : job'[l].intent = {k} =>
            /\ job'[l].pc \in Working =>
                /\ job'[l].solver \in Solver
                /\ \E r \in book' : r.solver = job'[l].solver /\ r.intent = k /\ r.release = Pending
            /\ job'[l].pc = "wait" =>
                /\ txs'[job'[l].ref].solver = job'[l].solver
                /\ txs'[job'[l].ref].intent = k
                /\ ledger'[k].stage = "posting_collateral" /\ ledger'[k].solver = job'[l].solver
            /\ job'[l].pc # "wait" => ledger'[k].stage \in {"none", "collateral_failed"}
    BY <1>1 DEF JobsHoldTheirs
  <2>1. job'[l] = job[l] /\ \A k \in Intent : On(l, k) => k # i
    BY <1>1, <1>2
  <2>2. job[l].pc = "wait" => job[l].ref \in DOMAIN txs
    BY DEF RoutingInv, TypeOK
  <2>3. QED
    BY <2>1, <2>2 DEF RoutingInv, JobsHoldTheirs
<1>6. OneJobPerIntent'
  <2> SUFFICES ASSUME NEW k \in Intent, NEW l \in Job, NEW m \in Job,
                      job'[l].intent = {k}, job'[m].intent = {k}
               PROVE  l = m
    BY DEF OneJobPerIntent
  <2>1. l # j /\ m # j
    BY <1>1
  <2>2. QED
    BY <1>1, <2>1 DEF RoutingInv, OneJobPerIntent
<1>7. NoLeakedReservation'
  <2> SUFFICES ASSUME NEW r \in book', r.release = Pending
               PROVE  \E l \in Job : /\ job'[l].pc \in Working /\ job'[l].intent = {r.intent}
                                     /\ job'[l].solver = r.solver
    BY DEF NoLeakedReservation
  <2>1. r \in book /\ r.intent # i
    OBVIOUS
  <2>2. PICK l \in Job : job[l].pc \in Working /\ On(l, r.intent) /\ job[l].solver = r.solver
    BY <2>1 DEF RoutingInv, NoLeakedReservation
  <2>3. l # j
    BY <2>1, <2>2
  <2>4. QED
    BY <1>1, <2>2, <2>3
<1>8. HoldsArePosted'
  <2>1. ledger[i].stage # "collateral_posted"
    BY DEF RoutingInv, JobsHoldTheirs
  <2> SUFFICES ASSUME NEW r \in book', r.release # Pending
               PROVE  ledger'[r.intent].stage = "collateral_posted"
    BY DEF HoldsArePosted
  <2>2. r \in book /\ r.intent \in Intent
    BY DEF RoutingInv, TypeOK, Reservation
  <2>3. ledger[r.intent].stage = "collateral_posted"
    BY <2>2 DEF RoutingInv, HoldsArePosted
  <2>4. QED
    BY <2>1, <2>2, <2>3
<1>9. LiveIsKnown'
  <2> SUFFICES ASSUME NEW n \in DOMAIN txs', txs'[n].st \in {"signed", "mempool"}
               PROVE  /\ \/ \E l \in Job : job'[l].pc = "wait" /\ job'[l].ref = n
                         \/ /\ ledger'[txs'[n].intent].stage = "posting_collateral"
                            /\ ledger'[txs'[n].intent].solver = txs'[n].solver
                            /\ \A l \in Job : job'[l].intent # {txs'[n].intent}
                      /\ \A m \in DOMAIN txs' : txs'[m].intent = txs'[n].intent => m <= n
    BY DEF LiveIsKnown
  <2>1. /\ Live(n) /\ txs[n].intent # i
        /\ txs'[n].intent = txs[n].intent /\ txs'[n].solver = txs[n].solver
    OBVIOUS
  <2>6. txs[n].intent \in Intent
    <3>1. n \in DOMAIN txs /\ txs \in Seq(TxRecord)
      BY DEF RoutingInv, TypeOK
    <3>2. txs[n] \in TxRecord
      BY <3>1
    <3>3. QED
      BY <3>2 DEF TxRecord
  <2>2. \A l \in Job : At(l, "wait") /\ job[l].ref = n => l # j
    BY <2>1 DEF RoutingInv, JobsHoldTheirs
  <2>3. \/ \E l \in Job : At(l, "wait") /\ job[l].ref = n
        \/ /\ ledger[txs[n].intent].stage = "posting_collateral"
           /\ ledger[txs[n].intent].solver = txs[n].solver
           /\ \A l \in Job : ~On(l, txs[n].intent)
    BY <2>1 DEF RoutingInv, LiveIsKnown
  <2>4. \A m \in DOMAIN txs' : txs'[m].intent = txs'[n].intent => m <= n
    BY <2>1 DEF RoutingInv, LiveIsKnown
  <2>5. QED
    BY <1>1, <2>1, <2>6, <2>2, <2>3, <2>4
<1>10. NoJobAtBoot'
  BY <1>1 DEF RoutingInv, NoJobAtBoot
<1>11. QED
  BY <1>4, <1>5, <1>6, <1>7, <1>8, <1>9, <1>10 DEF RoutingInv

\* The solver found: the job reserves for it, and nothing open is purged.
LEMMA SelectInv ==
    ASSUME RoutingInv, NEW j \in Job, NEW i \in Intent, NEW s \in Solver, NEW kept \in SUBSET book,
           On(j, i), At(j, "decide"),
           \A r \in book : r.release = Pending => r \in kept,
           reserve(kept, s, i),
           job' = [job EXCEPT ![j] = [pc |-> "gate", intent |-> {i}, solver |-> s, ref |-> 0, due |-> 0]],
           lock' = NoJob,
           UNCHANGED <<now, ledger, txs, mined, up>>
    PROVE  RoutingInv'
<1>1. /\ \A l \in Job : l # j => job'[l] = job[l]
      /\ job'[j].pc = "gate" /\ job'[j].intent = {i} /\ job'[j].solver = s
  BY DEF RoutingInv, TypeOK
<1>2. \A l \in Job : l # j => ~On(l, i)
  BY DEF RoutingInv, OneJobPerIntent
<1>3. PICK open \in Reservation : /\ open.solver = s /\ open.intent = i /\ open.release = Pending
                                  /\ book' = (kept \ Of(s, i)) \cup {open}
  BY DEF reserve, Reservation
<1>4. \A r \in book' : r = open \/ r \in book
  BY <1>3
<1>5. \A r \in book : r.release = Pending /\ r.intent # i => r \in book'
  BY <1>3 DEF Of
<1>6. TypeOK'
  <2>1. job' \in [Job -> JobRecord]
    BY DEF RoutingInv, TypeOK, JobRecord
  <2>2. book' \subseteq Reservation
    BY <1>4 DEF RoutingInv, TypeOK
  <2>3. \A l \in Job : job'[l].pc = "decide" <=> lock' = l
    BY <1>1, RoutingAssumption DEF RoutingInv, TypeOK
  <2>4. \A l \in Job : job'[l].pc = "wait" => job'[l].ref \in DOMAIN txs
    BY <1>1 DEF RoutingInv, TypeOK
  <2>5. QED
    BY <2>1, <2>2, <2>3, <2>4 DEF RoutingInv, TypeOK
<1>7. JobsHoldTheirs'
  <2> SUFFICES ASSUME NEW l \in Job PROVE
        /\ job'[l].pc = "idle" <=> job'[l].intent = {}
        /\ job'[l].pc # "idle" => \E k \in Intent : job'[l].intent = {k}
        /\ \A k \in Intent : job'[l].intent = {k} =>
            /\ job'[l].pc \in Working =>
                /\ job'[l].solver \in Solver
                /\ \E r \in book' : r.solver = job'[l].solver /\ r.intent = k /\ r.release = Pending
            /\ job'[l].pc = "wait" =>
                /\ txs[job'[l].ref].solver = job'[l].solver
                /\ txs[job'[l].ref].intent = k
                /\ ledger[k].stage = "posting_collateral" /\ ledger[k].solver = job'[l].solver
            /\ job'[l].pc # "wait" => ledger[k].stage \in {"none", "collateral_failed"}
    BY DEF JobsHoldTheirs
  <2>1. CASE l = j
    <3>1. ledger[i].stage \in {"none", "collateral_failed"}
      BY DEF RoutingInv, JobsHoldTheirs
    <3>2. \A k \in Intent : {i} = {k} => k = i
      OBVIOUS
    <3>3. QED
      BY <1>1, <1>3, <2>1, <3>1, <3>2
  <2>2. CASE l # j
    <3>1. job'[l] = job[l] /\ \A k \in Intent : On(l, k) => k # i
      BY <1>1, <1>2, <2>2
    <3>2. QED
      BY <1>5, <3>1 DEF RoutingInv, JobsHoldTheirs
  <2>3. QED
    BY <2>1, <2>2
<1>8. OneJobPerIntent'
  BY <1>1, <1>2 DEF RoutingInv, OneJobPerIntent
<1>9. NoLeakedReservation'
  <2> SUFFICES ASSUME NEW r \in book', r.release = Pending
               PROVE  \E l \in Job : /\ job'[l].pc \in Working /\ job'[l].intent = {r.intent}
                                     /\ job'[l].solver = r.solver
    BY DEF NoLeakedReservation
  <2>1. CASE r = open
    BY <1>1, <1>3, <2>1
  <2>2. CASE r \in book
    <3>1. PICK l \in Job : job[l].pc \in Working /\ On(l, r.intent) /\ job[l].solver = r.solver
      BY <2>2 DEF RoutingInv, NoLeakedReservation
    <3>2. l # j
      BY <3>1
    <3>3. QED
      BY <1>1, <3>1, <3>2
  <2>3. QED
    BY <1>4, <2>1, <2>2
<1>10. HoldsArePosted'
  BY <1>3, <1>4 DEF RoutingInv, HoldsArePosted
<1>11. LiveIsKnown'
  BY <1>1 DEF RoutingInv, LiveIsKnown
<1>12. NoJobAtBoot'
  BY <1>1 DEF RoutingInv, NoJobAtBoot
<1>13. QED
  BY <1>6, <1>7, <1>8, <1>9, <1>10, <1>11, <1>12 DEF RoutingInv

\* The decision of selectSolver, either way.
LEMMA DecideInv ==
    ASSUME RoutingInv, NEW j \in Job, Decide(j)
    PROVE  RoutingInv'
<1>1. PICK i \in Intent : On(j, i)
  BY DEF RoutingInv, JobsHoldTheirs, Decide
<1>2. /\ At(j, "decide") /\ lock' = NoJob
      /\ UNCHANGED <<now, txs, mined, crashes, up>>
  BY DEF Decide
<1>3. PICK kept \in SUBSET book :
        /\ \A r \in book : r.release = Pending => r \in kept
        /\ \/ /\ book' = kept
              /\ setArbitrumStage(i, "collateral_failed", ledger[i].solver)
              /\ Finish(j)
           \/ \E s \in Solver :
              /\ reserve(kept, s, i)
              /\ job' = [job EXCEPT ![j] = [pc |-> "gate", intent |-> {i}, solver |-> s, ref |-> 0, due |-> 0]]
              /\ UNCHANGED ledger
  <2>1. PICK balances \in SUBSET Solver, answered \in SUBSET Solver, k \in job[j].intent :
          LET avail == [s \in Solver |-> Available(s, Capital[s] - Spent(s, job[j].ref))]
              able == Eligible(answered, k, avail)
              kept == {r \in book : ~(Lapsed(r) /\ r.solver \in balances)}
          IN  \/ /\ book' = kept
                 /\ setArbitrumStage(k, "collateral_failed", ledger[k].solver)
                 /\ Finish(j)
              \/ \E s \in able :
                 /\ reserve(kept, s, k)
                 /\ job' = [job EXCEPT ![j] = [pc |-> "gate", intent |-> {k}, solver |-> s, ref |-> 0, due |-> 0]]
                 /\ UNCHANGED ledger
    BY Zenon DEF Decide
  <2>2. k = i
    BY <1>1
  <2> DEFINE avail == [s \in Solver |-> Available(s, Capital[s] - Spent(s, job[j].ref))]
             kept == {r \in book : ~(Lapsed(r) /\ r.solver \in balances)}
  <2>3. Eligible(answered, i, avail) \subseteq Solver
    BY DEF Eligible
  <2>4. kept \in SUBSET book /\ \A r \in book : r.release = Pending => r \in kept
    BY DEF Lapsed
  <2>5. QED
    BY Zenon, <2>1, <2>2, <2>3, <2>4
<1>4. CASE /\ book' = kept
           /\ setArbitrumStage(i, "collateral_failed", ledger[i].solver)
           /\ Finish(j)
  <2>1. \A r \in book : r.release = Pending => r.intent # i
    <3> SUFFICES ASSUME NEW r \in book, r.release = Pending, r.intent = i PROVE FALSE
      OBVIOUS
    <3>1. PICK l \in Job : job[l].pc \in Working /\ On(l, r.intent)
      BY DEF RoutingInv, NoLeakedReservation
    <3>2. l = j
      BY <1>1, <3>1 DEF RoutingInv, OneJobPerIntent
    <3>3. QED
      BY <1>2, <3>1, <3>2
  <2>2. book' \subseteq book /\ \A r \in book : r.release = Pending => (r \in book' <=> r.intent # i)
    BY <1>3, <1>4, <2>1
  <2>3. lock' \in Job \cup {NoJob} /\ lock' # j /\ \A l \in Job : l # j => (lock' = l <=> lock = l)
    BY <1>2, RoutingAssumption DEF RoutingInv, TypeOK
  <2>4. /\ ledger' \in [Intent -> Entry]
        /\ \A k \in Intent : k # i => ledger'[k] = ledger[k]
        /\ ledger'[i].stage \in {"none", "collateral_failed"}
    BY <1>4 DEF RoutingInv, TypeOK, setArbitrumStage, Entry, Stage
  <2>5. \A n \in DOMAIN txs : Live(n) => txs[n].intent # i
    BY <1>1, <1>2, LiveOfJob
  <2>6. txs' = txs /\ txs \in Seq(TxRecord)
    BY <1>2 DEF RoutingInv, TypeOK
  <2>7. QED
    BY <1>1, <1>2, <1>4, <2>2, <2>3, <2>4, <2>5, <2>6, EndInv
<1>5. CASE \E s \in Solver :
              /\ reserve(kept, s, i)
              /\ job' = [job EXCEPT ![j] = [pc |-> "gate", intent |-> {i}, solver |-> s, ref |-> 0, due |-> 0]]
              /\ UNCHANGED ledger
  BY <1>1, <1>2, <1>3, <1>5, SelectInv
<1>6. QED
  BY <1>3, <1>4, <1>5

\* A failure of a job at work, when no transaction of its intent is left to be mined.
LEMMA FailsInv ==
    ASSUME RoutingInv, NEW j \in Job, job[j].pc \in Working, Fails(j),
           txs' \in Seq(TxRecord),
           DOMAIN txs' = DOMAIN txs,
           \A n \in DOMAIN txs : /\ txs'[n].intent = txs[n].intent
                                 /\ txs'[n].solver = txs[n].solver
                                 /\ txs'[n].st \in {"signed", "mempool"} => Live(n) /\ ~On(j, txs[n].intent),
           UNCHANGED <<now, lock, mined, up>>
    PROVE  RoutingInv'
<1>1. PICK i \in job[j].intent :
        /\ setArbitrumStage(i, "collateral_failed", ledger[i].solver)
        /\ release(job[j].solver, i)
        /\ Finish(j)
  BY DEF Fails
<1>2. i \in Intent /\ On(j, i)
  BY <1>1 DEF RoutingInv, JobsHoldTheirs
<1>3. /\ book' \subseteq book
      /\ \A r \in book : r.release = Pending => (r \in book' <=> r.intent # i)
  BY <1>1, <1>2, ReleaseOpen
<1>4. lock' \in Job \cup {NoJob} /\ lock' # j /\ \A l \in Job : l # j => (lock' = l <=> lock = l)
  BY DEF RoutingInv, TypeOK
<1>5. /\ ledger' \in [Intent -> Entry]
      /\ \A k \in Intent : k # i => ledger'[k] = ledger[k]
      /\ ledger'[i].stage \in {"none", "collateral_failed"}
  BY <1>1, <1>2 DEF RoutingInv, TypeOK, setArbitrumStage, Entry, Stage
<1>6. QED
  BY <1>1, <1>2, <1>3, <1>4, <1>5, EndInv

\* An error of the gate's read: the finally, without a word in the ledger.
LEMMA GateThrowsInv ==
    ASSUME RoutingInv, NEW j \in Job, GateThrows(j)
    PROVE  RoutingInv'
<1>1. PICK i \in job[j].intent : release(job[j].solver, i)
  BY DEF GateThrows
<1>2. At(j, "gate") /\ Finish(j) /\ UNCHANGED <<now, ledger, lock, txs, mined, crashes, up>>
  BY DEF GateThrows
<1>3. i \in Intent /\ On(j, i)
  BY <1>1, <1>2 DEF RoutingInv, JobsHoldTheirs
<1>4. /\ book' \subseteq book
      /\ \A r \in book : r.release = Pending => (r \in book' <=> r.intent # i)
  BY <1>1, <1>2, <1>3, ReleaseOpen
<1>5. lock' \in Job \cup {NoJob} /\ lock' # j /\ \A l \in Job : l # j => (lock' = l <=> lock = l)
  BY <1>2 DEF RoutingInv, TypeOK
<1>6. ledger \in [Intent -> Entry] /\ txs \in Seq(TxRecord)
  BY DEF RoutingInv, TypeOK
<1>7. ledger[i].stage \in {"none", "collateral_failed"}
  BY <1>2, <1>3 DEF RoutingInv, JobsHoldTheirs
<1>8. \A n \in DOMAIN txs : Live(n) => txs[n].intent # i
  BY <1>2, <1>3, LiveOfJob
<1>9. QED
  BY <1>2, <1>3, <1>4, <1>5, <1>6, <1>7, <1>8, EndInv

\* The final gate: a refusal ends the job, otherwise only its position changes.
LEMMA GateInv ==
    ASSUME RoutingInv, NEW j \in Job, Gate(j)
    PROVE  RoutingInv'
<1>1. At(j, "gate") /\ UNCHANGED <<now, lock, txs, mined, crashes, up>>
  BY DEF Gate
<1>2. CASE Fails(j)
  <2>1. \A n \in DOMAIN txs : Live(n) => ~On(j, txs[n].intent)
    <3> SUFFICES ASSUME NEW n \in DOMAIN txs, Live(n), On(j, txs[n].intent) PROVE FALSE
      OBVIOUS
    <3>1. txs[n] \in TxRecord
      BY DEF RoutingInv, TypeOK
    <3>2. txs[n].intent \in Intent
      BY <3>1 DEF TxRecord
    <3>3. QED
      BY <1>1, <3>2, LiveOfJob
  <2>2. txs \in Seq(TxRecord)
    BY DEF RoutingInv, TypeOK
  <2>3. QED
    BY <1>1, <1>2, <2>1, <2>2, FailsInv
<1>3. CASE Goto(j, "post") /\ UNCHANGED <<ledger, book>>
  <2>1. /\ \A l \in Job : l # j => job'[l] = job[l]
        /\ job'[j].pc = "post" /\ job'[j].intent = job[j].intent /\ job'[j].solver = job[j].solver
    BY <1>3 DEF RoutingInv, TypeOK, Goto, JobRecord
  <2>2. TypeOK'
    <3>1. job' \in [Job -> JobRecord]
      BY <1>3 DEF RoutingInv, TypeOK, Goto, JobRecord
    <3>2. \A l \in Job : job'[l].pc = "decide" <=> lock = l
      BY <1>1, <2>1 DEF RoutingInv, TypeOK
    <3>3. \A l \in Job : job'[l].pc = "wait" => job'[l].ref \in DOMAIN txs
      BY <2>1 DEF RoutingInv, TypeOK
    <3>4. QED
      BY <1>1, <1>3, <3>1, <3>2, <3>3 DEF RoutingInv, TypeOK
  <2>3. JobsHoldTheirs'
    BY <1>1, <1>3, <2>1 DEF RoutingInv, JobsHoldTheirs
  <2>4. OneJobPerIntent'
    BY <2>1 DEF RoutingInv, OneJobPerIntent
  <2>5. NoLeakedReservation'
    BY <1>3, <2>1 DEF RoutingInv, NoLeakedReservation
  <2>6. LiveIsKnown'
    BY <1>1, <1>3, <2>1 DEF RoutingInv, LiveIsKnown
  <2>7. HoldsArePosted' /\ NoJobAtBoot'
    BY <1>1, <1>3, <2>1 DEF RoutingInv, HoldsArePosted, NoJobAtBoot
  <2>8. QED
    BY <2>2, <2>3, <2>4, <2>5, <2>6, <2>7 DEF RoutingInv
<1>4. QED
  BY <1>2, <1>3 DEF Gate

\* The signature: the ledger knows of the transaction before the chain may.
LEMMA PostSignInv ==
    ASSUME RoutingInv, NEW j \in Job, PostSign(j)
    PROVE  RoutingInv'
<1> DEFINE new == Len(txs) + 1
<1>1. /\ At(j, "post")
      /\ job' = [job EXCEPT ![j] = [pc |-> "wait", intent |-> job[j].intent, solver |-> job[j].solver,
                                    ref |-> Len(txs) + 1, due |-> 0]]
      /\ UNCHANGED <<now, book, lock, mined, crashes, up>>
  BY DEF PostSign
<1>2. PICK i \in job[j].intent :
        /\ txs' = Append(txs, [solver |-> job[j].solver, intent |-> i, st |-> "signed"])
        /\ setArbitrumStage(i, "posting_collateral", job[j].solver)
  BY DEF PostSign
<1>3. i \in Intent /\ On(j, i) /\ job[j].solver \in Solver
  BY <1>1, <1>2 DEF RoutingInv, JobsHoldTheirs
<1>4. /\ \A l \in Job : l # j => job'[l] = job[l]
      /\ job'[j].pc = "wait" /\ job'[j].intent = {i} /\ job'[j].solver = job[j].solver
      /\ job'[j].ref = new
  BY <1>1, <1>3 DEF RoutingInv, TypeOK
<1>5. txs \in Seq(TxRecord) /\ ledger \in [Intent -> Entry] /\ job[j] \in JobRecord
  BY DEF RoutingInv, TypeOK
<1>6. /\ txs' \in Seq(TxRecord)
      /\ DOMAIN txs' = DOMAIN txs \cup {new}
      /\ \A n \in DOMAIN txs : txs'[n] = txs[n] /\ n < new /\ n # new
      /\ txs'[new].solver = job[j].solver /\ txs'[new].intent = i
  <2>1. [solver |-> job[j].solver, intent |-> i, st |-> "signed"] \in TxRecord
    BY <1>3 DEF TxRecord, TxState
  <2>2. QED
    BY <1>2, <1>5, <2>1
<1>7. /\ ledger' \in [Intent -> Entry]
      /\ \A k \in Intent : k # i => ledger'[k] = ledger[k]
      /\ ledger'[i].stage = "posting_collateral" /\ ledger'[i].solver = job[j].solver
  BY <1>2, <1>3, <1>5 DEF setArbitrumStage, Entry, Stage
<1>8. \A l \in Job : l # j => ~On(l, i)
  BY <1>3 DEF RoutingInv, OneJobPerIntent
<1>9. TypeOK'
  <2>1. job' \in [Job -> JobRecord]
    <3>1. [pc |-> "wait", intent |-> job[j].intent, solver |-> job[j].solver, ref |-> Len(txs) + 1, due |-> 0]
            \in JobRecord
      BY <1>5 DEF JobRecord
    <3>2. QED
      BY <1>1, <3>1 DEF RoutingInv, TypeOK
  <2>2. \A l \in Job : job'[l].pc = "decide" <=> lock = l
    BY <1>1, <1>4 DEF RoutingInv, TypeOK
  <2>3. \A l \in Job : job'[l].pc = "wait" => job'[l].ref \in DOMAIN txs'
    BY <1>4, <1>6 DEF RoutingInv, TypeOK
  <2>4. QED
    BY <1>1, <1>6, <1>7, <2>1, <2>2, <2>3 DEF RoutingInv, TypeOK
<1>10. JobsHoldTheirs'
  <2> SUFFICES ASSUME NEW l \in Job PROVE
        /\ job'[l].pc = "idle" <=> job'[l].intent = {}
        /\ job'[l].pc # "idle" => \E k \in Intent : job'[l].intent = {k}
        /\ \A k \in Intent : job'[l].intent = {k} =>
            /\ job'[l].pc \in Working =>
                /\ job'[l].solver \in Solver
                /\ \E r \in book : r.solver = job'[l].solver /\ r.intent = k /\ r.release = Pending
            /\ job'[l].pc = "wait" =>
                /\ txs'[job'[l].ref].solver = job'[l].solver
                /\ txs'[job'[l].ref].intent = k
                /\ ledger'[k].stage = "posting_collateral" /\ ledger'[k].solver = job'[l].solver
            /\ job'[l].pc # "wait" => ledger'[k].stage \in {"none", "collateral_failed"}
    BY <1>1 DEF JobsHoldTheirs
  <2>1. CASE l = j
    <3>1. \E r \in book : r.solver = job[j].solver /\ r.intent = i /\ r.release = Pending
      BY <1>1, <1>3 DEF RoutingInv, JobsHoldTheirs
    <3>2. \A k \in Intent : {i} = {k} => k = i
      OBVIOUS
    <3>3. QED
      BY <1>3, <1>4, <1>6, <1>7, <2>1, <3>1, <3>2
  <2>2. CASE l # j
    <3>1. job'[l] = job[l] /\ \A k \in Intent : On(l, k) => k # i
      BY <1>4, <1>8, <2>2
    <3>2. job[l].pc = "wait" => job[l].ref \in DOMAIN txs
      BY DEF RoutingInv, TypeOK
    <3>3. QED
      BY <1>6, <1>7, <3>1, <3>2 DEF RoutingInv, JobsHoldTheirs
  <2>3. QED
    BY <2>1, <2>2
<1>11. OneJobPerIntent'
  BY <1>4, <1>8, SMTT(40) DEF RoutingInv, OneJobPerIntent
<1>12. NoLeakedReservation'
  <2>1. \A l \in Job : /\ job'[l].intent = job[l].intent /\ job'[l].solver = job[l].solver
                       /\ job[l].pc \in Working => job'[l].pc \in Working
    BY <1>1, <1>3, <1>4
  <2> SUFFICES ASSUME NEW r \in book, r.release = Pending
               PROVE  \E l \in Job : /\ job'[l].pc \in Working /\ job'[l].intent = {r.intent}
                                     /\ job'[l].solver = r.solver
    BY <1>1 DEF NoLeakedReservation
  <2>2. PICK l \in Job : job[l].pc \in Working /\ On(l, r.intent) /\ job[l].solver = r.solver
    BY DEF RoutingInv, NoLeakedReservation
  <2>3. QED
    BY <2>1, <2>2
<1>13. HoldsArePosted'
  <2>1. ledger[i].stage # "collateral_posted"
    BY <1>1, <1>3 DEF RoutingInv, JobsHoldTheirs
  <2>2. \A r \in book : r.intent \in Intent
    BY DEF RoutingInv, TypeOK, Reservation
  <2>3. QED
    BY <1>1, <1>7, <2>1, <2>2 DEF RoutingInv, HoldsArePosted
<1>14. LiveIsKnown'
  <2> SUFFICES ASSUME NEW n \in DOMAIN txs', txs'[n].st \in {"signed", "mempool"}
               PROVE  /\ \/ \E l \in Job : job'[l].pc = "wait" /\ job'[l].ref = n
                         \/ /\ ledger'[txs'[n].intent].stage = "posting_collateral"
                            /\ ledger'[txs'[n].intent].solver = txs'[n].solver
                            /\ \A l \in Job : job'[l].intent # {txs'[n].intent}
                      /\ \A m \in DOMAIN txs' : txs'[m].intent = txs'[n].intent => m <= n
    BY DEF LiveIsKnown
  <2>1. CASE n = new
    <3>1. \A m \in DOMAIN txs' : m <= new
      BY <1>5, <1>6
    <3>2. QED
      BY <1>4, <2>1, <3>1
  <2>2. CASE n \in DOMAIN txs
    <3>1. txs'[n] = txs[n] /\ Live(n) /\ n # new
      BY <1>6, <2>2
    <3>2. txs[n] \in TxRecord
      BY <1>5, <2>2
    <3>3. txs[n].intent \in Intent
      BY <3>2 DEF TxRecord
    <3>4. txs[n].intent # i
      BY <1>1, <1>3, <2>2, <3>1, LiveOfJob
    <3>5. \A m \in DOMAIN txs' : txs'[m].intent = txs'[n].intent => m <= n
      BY <1>6, <2>2, <3>1, <3>4 DEF RoutingInv, LiveIsKnown
    <3>6. \A l \in Job : At(l, "wait") => l # j
      BY <1>1
    <3>7. \/ \E l \in Job : At(l, "wait") /\ job[l].ref = n
          \/ /\ ledger[txs[n].intent].stage = "posting_collateral"
             /\ ledger[txs[n].intent].solver = txs[n].solver
             /\ \A l \in Job : ~On(l, txs[n].intent)
      BY <2>2, <3>1 DEF RoutingInv, LiveIsKnown
    <3>8. CASE \E l \in Job : At(l, "wait") /\ job[l].ref = n
      BY <1>4, <3>5, <3>6, <3>8
    <3>9. CASE /\ ledger[txs[n].intent].stage = "posting_collateral"
               /\ ledger[txs[n].intent].solver = txs[n].solver
               /\ \A l \in Job : ~On(l, txs[n].intent)
      BY <1>4, <1>7, <3>1, <3>3, <3>4, <3>5, <3>9
    <3>10. QED
      BY <3>7, <3>8, <3>9
  <2>3. QED
    BY <1>6, <2>1, <2>2
<1>15. NoJobAtBoot'
  BY <1>1, <1>4 DEF RoutingInv, NoJobAtBoot
<1>16. QED
  BY <1>9, <1>10, <1>11, <1>12, <1>13, <1>14, <1>15 DEF RoutingInv

\* The chain moves a transaction on, never back to a state in which it may be mined.
LEMMA TxsInv ==
    ASSUME RoutingInv,
           txs' \in Seq(TxRecord),
           DOMAIN txs' = DOMAIN txs,
           \A n \in DOMAIN txs : /\ txs'[n].intent = txs[n].intent
                                 /\ txs'[n].solver = txs[n].solver
                                 /\ txs'[n].st \in {"signed", "mempool"} => Live(n),
           mined' \in Seq([solver : Solver, intent : Intent, at : Nat]),
           UNCHANGED <<now, ledger, book, lock, job, up>>
    PROVE  RoutingInv'
<1>1. TypeOK'
  BY DEF RoutingInv, TypeOK
<1>2. JobsHoldTheirs'
  <2>1. \A l \in Job : job[l].pc = "wait" => job[l].ref \in DOMAIN txs
    BY DEF RoutingInv, TypeOK
  <2>2. QED
    BY <2>1 DEF RoutingInv, JobsHoldTheirs
<1>3. OneJobPerIntent' /\ NoLeakedReservation' /\ HoldsArePosted' /\ NoJobAtBoot'
  BY DEF RoutingInv, OneJobPerIntent, NoLeakedReservation, HoldsArePosted, NoJobAtBoot
<1>4. LiveIsKnown'
  BY DEF RoutingInv, LiveIsKnown
<1>5. QED
  BY <1>1, <1>2, <1>3, <1>4 DEF RoutingInv

\* A transaction of the model with another state.
LEMMA TxMoves ==
    ASSUME txs \in Seq(TxRecord), NEW n \in DOMAIN txs, NEW st \in TxState,
           txs' = [txs EXCEPT ![n].st = st]
    PROVE  /\ txs' \in Seq(TxRecord)
           /\ DOMAIN txs' = DOMAIN txs
           /\ txs'[n].st = st
           /\ \A m \in DOMAIN txs : m # n => txs'[m] = txs[m]
           /\ \A m \in DOMAIN txs : txs'[m].intent = txs[m].intent /\ txs'[m].solver = txs[m].solver
<1>1. \A m \in DOMAIN txs : txs[m] \in TxRecord
  OBVIOUS
<1>2. [txs[n] EXCEPT !.st = st] \in TxRecord
  BY <1>1 DEF TxRecord
<1>3. DOMAIN txs' = DOMAIN txs /\ \A m \in DOMAIN txs : txs'[m] = IF m = n THEN [txs[n] EXCEPT !.st = st] ELSE txs[m]
  OBVIOUS
<1>4. [txs[n] EXCEPT !.st = st].st = st /\ [txs[n] EXCEPT !.st = st].intent = txs[n].intent
        /\ [txs[n] EXCEPT !.st = st].solver = txs[n].solver
  BY <1>1 DEF TxRecord
<1>5. txs' \in Seq(TxRecord)
  <2>1. DOMAIN txs = 1 .. Len(txs) /\ Len(txs) \in Nat
    OBVIOUS
  <2>2. txs' \in [1 .. Len(txs) -> TxRecord]
    BY <1>1, <1>2, <2>1
  <2>3. QED
    BY <2>1, <2>2
<1>6. QED
  BY <1>3, <1>4, <1>5

LEMMA BroadcastInv ==
    ASSUME RoutingInv, NEW j \in Job, Broadcast(j)
    PROVE  RoutingInv'
<1>1. /\ At(j, "wait") /\ txs[job[j].ref].st = "signed"
      /\ txs' = [txs EXCEPT ![job[j].ref].st = "mempool"]
      /\ UNCHANGED <<now, ledger, book, lock, job, mined, crashes, up>>
  BY DEF Broadcast
<1>2. /\ txs \in Seq(TxRecord) /\ job[j].ref \in DOMAIN txs
      /\ mined' \in Seq([solver : Solver, intent : Intent, at : Nat])
  BY <1>1 DEF RoutingInv, TypeOK
<1>3. "mempool" \in TxState
  BY DEF TxState
<1>4. /\ txs' \in Seq(TxRecord)
      /\ DOMAIN txs' = DOMAIN txs
      /\ \A m \in DOMAIN txs : m # job[j].ref => txs'[m] = txs[m]
      /\ \A m \in DOMAIN txs : txs'[m].intent = txs[m].intent /\ txs'[m].solver = txs[m].solver
  BY <1>1, <1>2, <1>3, TxMoves
<1>5. QED
  BY <1>1, <1>2, <1>4, TxsInv

LEMMA MineInv ==
    ASSUME RoutingInv, NEW n \in DOMAIN txs, Mine(n)
    PROVE  RoutingInv'
<1>1. txs[n].st = "mempool" /\ UNCHANGED <<now, ledger, book, lock, job, crashes, up>>
  BY DEF Mine
<1>2. /\ txs \in Seq(TxRecord) /\ now \in Nat
      /\ mined \in Seq([solver : Solver, intent : Intent, at : Nat])
  BY DEF RoutingInv, TypeOK
<1>3. txs[n] \in TxRecord
  BY <1>2
<1>4. mined' \in Seq([solver : Solver, intent : Intent, at : Nat])
  <2>1. [solver |-> txs[n].solver, intent |-> txs[n].intent, at |-> now]
          \in [solver : Solver, intent : Intent, at : Nat]
    BY <1>2, <1>3 DEF TxRecord
  <2>2. mined' = mined \/ mined' = Append(mined, [solver |-> txs[n].solver, intent |-> txs[n].intent, at |-> now])
    BY DEF Mine
  <2>3. \A S : \A q \in Seq(S), e \in S : Append(q, e) \in Seq(S)
    OBVIOUS
  <2>4. QED
    BY Zenon, <1>2, <2>1, <2>2, <2>3
<1>5. PICK st \in {"success", "reverted"} : txs' = [txs EXCEPT ![n].st = st]
  BY DEF Mine
<1>6. st \in TxState
  BY DEF TxState
<1>7. /\ txs' \in Seq(TxRecord)
      /\ DOMAIN txs' = DOMAIN txs
      /\ txs'[n].st = st
      /\ \A m \in DOMAIN txs : m # n => txs'[m] = txs[m]
      /\ \A m \in DOMAIN txs : txs'[m].intent = txs[m].intent /\ txs'[m].solver = txs[m].solver
  BY <1>2, <1>5, <1>6, TxMoves
<1>8. QED
  BY <1>1, <1>4, <1>7, TxsInv

\* A failed postCollateral.  Its transaction never left the process, or is on the chain
\* as reverted: this is where a receipt that is lost would break the accounting.
LEMMA PostFailsInv ==
    ASSUME RoutingInv, ~MayLoseReceipt, NEW j \in Job, PostFails(j)
    PROVE  RoutingInv'
<1>1. job[j].pc \in Working /\ Fails(j) /\ UNCHANGED <<now, lock, mined, crashes, up>>
  BY DEF PostFails
<1>2. txs \in Seq(TxRecord)
  BY DEF RoutingInv, TypeOK
<1>3. \A n \in DOMAIN txs : Live(n) /\ On(j, txs[n].intent) => At(j, "wait") /\ job[j].ref = n
  <2> SUFFICES ASSUME NEW n \in DOMAIN txs, Live(n), On(j, txs[n].intent)
               PROVE  At(j, "wait") /\ job[j].ref = n
    OBVIOUS
  <2>1. txs[n] \in TxRecord
    BY <1>2
  <2>2. txs[n].intent \in Intent
    BY <2>1 DEF TxRecord
  <2>3. QED
    BY <2>2, LiveOfJob
<1>4. CASE /\ At(j, "wait") /\ txs[job[j].ref].st = "signed"
           /\ txs' = [txs EXCEPT ![job[j].ref].st = "dropped"]
  <2>1. job[j].ref \in DOMAIN txs /\ "dropped" \in TxState
    BY <1>4 DEF RoutingInv, TypeOK, TxState
  <2>2. /\ txs' \in Seq(TxRecord)
        /\ DOMAIN txs' = DOMAIN txs
        /\ txs'[job[j].ref].st = "dropped"
        /\ \A m \in DOMAIN txs : m # job[j].ref => txs'[m] = txs[m]
        /\ \A m \in DOMAIN txs : txs'[m].intent = txs[m].intent /\ txs'[m].solver = txs[m].solver
    BY <1>2, <1>4, <2>1, TxMoves
  <2>3. QED
    BY <1>1, <1>3, <2>2, FailsInv
<1>5. CASE UNCHANGED txs /\ (At(j, "post") \/ (At(j, "wait") /\ txs[job[j].ref].st = "reverted"))
  BY <1>1, <1>2, <1>3, <1>5, FailsInv
<1>6. QED
  BY <1>4, <1>5 DEF PostFails

\* The collateral is posted: the reservation goes on hold and is open no more.
LEMMA PostSucceedsInv ==
    ASSUME RoutingInv, NEW j \in Job, PostSucceeds(j)
    PROVE  RoutingInv'
<1>1. /\ At(j, "wait") /\ txs[job[j].ref].st = "success" /\ Finish(j)
      /\ UNCHANGED <<now, lock, txs, mined, crashes, up>>
  BY DEF PostSucceeds
<1>2. PICK i \in job[j].intent : /\ holdFor(job[j].solver, i)
                                 /\ setArbitrumStage(i, "collateral_posted", ledger[i].solver)
  BY DEF PostSucceeds
<1>3. i \in Intent /\ On(j, i)
  BY <1>1, <1>2 DEF RoutingInv, JobsHoldTheirs
<1>4. /\ \A l \in Job : l # j => job'[l] = job[l]
      /\ job'[j].pc = "idle" /\ job'[j].intent = {}
      /\ \A k : job'[j].intent # {k}
  BY <1>1 DEF RoutingInv, TypeOK, Finish
<1>5. \A l \in Job : l # j => ~On(l, i)
  BY <1>3 DEF RoutingInv, OneJobPerIntent
<1>6. /\ ledger' \in [Intent -> Entry]
      /\ \A k \in Intent : k # i => ledger'[k] = ledger[k]
      /\ ledger'[i].stage = "collateral_posted"
  BY <1>2, <1>3 DEF RoutingInv, TypeOK, setArbitrumStage, Entry, Stage
<1>7. now + Hold \in Nat /\ now + Hold # Pending
  BY RoutingAssumption DEF RoutingInv, TypeOK, Pending
<1>8. book \subseteq Reservation
  BY DEF RoutingInv, TypeOK
<1>9. \A r \in book' : \/ /\ r \in book
                          /\ ~(r.solver = job[j].solver /\ r.intent = i /\ r.release = Pending)
                       \/ r \in Reservation /\ r.intent = i /\ r.release # Pending
  <2> SUFFICES ASSUME NEW r \in book'
               PROVE  \/ /\ r \in book
                         /\ ~(r.solver = job[j].solver /\ r.intent = i /\ r.release = Pending)
                      \/ r \in Reservation /\ r.intent = i /\ r.release # Pending
    OBVIOUS
  <2>1. PICK q \in book : r = IF q \in Of(job[j].solver, i) /\ q.release = Pending
                              THEN [q EXCEPT !.release = now + Hold] ELSE q
    BY <1>2 DEF holdFor
  <2>2. CASE q \in Of(job[j].solver, i) /\ q.release = Pending
    <3>1. q \in Reservation /\ q.intent = i
      BY <1>8, <2>2 DEF Of
    <3>2. r = [q EXCEPT !.release = now + Hold]
      BY <2>1, <2>2
    <3>3. QED
      BY <1>7, <3>1, <3>2 DEF Reservation
  <2>3. CASE ~(q \in Of(job[j].solver, i) /\ q.release = Pending)
    BY <2>1, <2>3 DEF Of
  <2>4. QED
    BY <2>2, <2>3
<1>10. \A r \in book : r.intent # i => r \in book'
  BY <1>2 DEF holdFor, Of
<1>11. TypeOK'
  <2>1. job' \in [Job -> JobRecord]
    BY <1>1 DEF RoutingInv, TypeOK, Finish, JobRecord
  <2>2. \A l \in Job : job'[l].pc = "decide" <=> lock = l
    BY <1>1, <1>4 DEF RoutingInv, TypeOK
  <2>3. \A l \in Job : job'[l].pc = "wait" => job'[l].ref \in DOMAIN txs
    BY <1>4 DEF RoutingInv, TypeOK
  <2>4. book' \subseteq Reservation
    BY <1>8, <1>9
  <2>5. QED
    BY <1>1, <1>6, <2>1, <2>2, <2>3, <2>4 DEF RoutingInv, TypeOK
<1>12. JobsHoldTheirs'
  <2> SUFFICES ASSUME NEW l \in Job, l # j PROVE
        /\ job'[l].pc = "idle" <=> job'[l].intent = {}
        /\ job'[l].pc # "idle" => \E k \in Intent : job'[l].intent = {k}
        /\ \A k \in Intent : job'[l].intent = {k} =>
            /\ job'[l].pc \in Working =>
                /\ job'[l].solver \in Solver
                /\ \E r \in book' : r.solver = job'[l].solver /\ r.intent = k /\ r.release = Pending
            /\ job'[l].pc = "wait" =>
                /\ txs[job'[l].ref].solver = job'[l].solver
                /\ txs[job'[l].ref].intent = k
                /\ ledger'[k].stage = "posting_collateral" /\ ledger'[k].solver = job'[l].solver
            /\ job'[l].pc # "wait" => ledger'[k].stage \in {"none", "collateral_failed"}
    BY <1>1, <1>4 DEF JobsHoldTheirs
  <2>1. job'[l] = job[l] /\ \A k \in Intent : On(l, k) => k # i
    BY <1>4, <1>5
  <2>2. QED
    BY <1>6, <1>10, <2>1 DEF RoutingInv, JobsHoldTheirs
<1>13. OneJobPerIntent'
  <2> SUFFICES ASSUME NEW k \in Intent, NEW l \in Job, NEW m \in Job,
                      job'[l].intent = {k}, job'[m].intent = {k}
               PROVE  l = m
    BY DEF OneJobPerIntent
  <2>1. l # j /\ m # j
    BY <1>4
  <2>2. QED
    BY <1>4, <2>1 DEF RoutingInv, OneJobPerIntent
<1>14. NoLeakedReservation'
  <2> SUFFICES ASSUME NEW r \in book', r.release = Pending
               PROVE  \E l \in Job : /\ job'[l].pc \in Working /\ job'[l].intent = {r.intent}
                                     /\ job'[l].solver = r.solver
    BY DEF NoLeakedReservation
  <2>1. r \in book /\ ~(r.solver = job[j].solver /\ r.intent = i)
    BY <1>9
  <2>2. PICK l \in Job : job[l].pc \in Working /\ On(l, r.intent) /\ job[l].solver = r.solver
    BY <2>1 DEF RoutingInv, NoLeakedReservation
  <2>3. l # j
    BY <1>3, <2>1, <2>2
  <2>4. QED
    BY <1>4, <2>2, <2>3
<1>15. HoldsArePosted'
  <2> SUFFICES ASSUME NEW r \in book', r.release # Pending
               PROVE  ledger'[r.intent].stage = "collateral_posted"
    BY DEF HoldsArePosted
  <2>1. CASE r.intent = i
    BY <1>6, <2>1
  <2>2. CASE r.intent # i
    <3>1. r \in book
      BY <1>9, <2>2
    <3>2. r.intent \in Intent
      BY <1>8, <3>1 DEF Reservation
    <3>3. QED
      BY <1>6, <2>2, <3>1, <3>2 DEF RoutingInv, HoldsArePosted
  <2>3. QED
    BY <2>1, <2>2
<1>16. LiveIsKnown'
  <2> SUFFICES ASSUME NEW n \in DOMAIN txs, Live(n)
               PROVE  /\ \/ \E l \in Job : job'[l].pc = "wait" /\ job'[l].ref = n
                         \/ /\ ledger'[txs[n].intent].stage = "posting_collateral"
                            /\ ledger'[txs[n].intent].solver = txs[n].solver
                            /\ \A l \in Job : job'[l].intent # {txs[n].intent}
                      /\ \A m \in DOMAIN txs : txs[m].intent = txs[n].intent => m <= n
    BY <1>1 DEF LiveIsKnown
  <2>1. txs[n] \in TxRecord
    BY DEF RoutingInv, TypeOK
  <2>2. txs[n].intent \in Intent
    BY <2>1 DEF TxRecord
  <2>3. job[j].ref # n
    BY <1>1
  <2>4. txs[n].intent # i
    BY <1>1, <1>3, LiveOfJob
  <2>5. /\ \/ \E l \in Job : At(l, "wait") /\ job[l].ref = n
           \/ /\ ledger[txs[n].intent].stage = "posting_collateral"
              /\ ledger[txs[n].intent].solver = txs[n].solver
              /\ \A l \in Job : ~On(l, txs[n].intent)
        /\ \A m \in DOMAIN txs : txs[m].intent = txs[n].intent => m <= n
    BY DEF RoutingInv, LiveIsKnown
  <2>6. QED
    BY <1>4, <1>6, <2>2, <2>3, <2>4, <2>5
<1>17. NoJobAtBoot'
  BY <1>1, <1>4 DEF RoutingInv, NoJobAtBoot
<1>18. QED
  BY <1>11, <1>12, <1>13, <1>14, <1>15, <1>16, <1>17 DEF RoutingInv

\* A crash forgets the jobs and the book; what is in a mempool has its ledger entry.
LEMMA CrashInv == ASSUME RoutingInv, Crash PROVE RoutingInv'
<1>1. /\ book' = {} /\ lock' = NoJob /\ up' = FALSE /\ job' = [j \in Job |-> Idle]
      /\ txs' = [n \in DOMAIN txs |-> IF txs[n].st = "signed" THEN [txs[n] EXCEPT !.st = "dropped"] ELSE txs[n]]
      /\ UNCHANGED <<now, ledger, mined>>
  BY DEF Crash
<1>2. txs \in Seq(TxRecord) /\ DOMAIN txs = 1 .. Len(txs) /\ Len(txs) \in Nat
  BY DEF RoutingInv, TypeOK
<1>3. \A n \in DOMAIN txs : txs[n] \in TxRecord
  BY <1>2
<1>4. \A tx \in TxRecord : LET gone == [tx EXCEPT !.st = "dropped"] IN
        gone \in TxRecord /\ gone.intent = tx.intent /\ gone.solver = tx.solver /\ gone.st = "dropped"
  BY DEF TxRecord, TxState
<1>5. DOMAIN txs' = DOMAIN txs
  BY <1>1
<1>5a. ASSUME NEW n \in DOMAIN txs
       PROVE  /\ txs'[n] \in TxRecord
              /\ txs'[n].intent = txs[n].intent /\ txs'[n].solver = txs[n].solver
              /\ txs'[n].st \in {"signed", "mempool"} => Live(n)
  BY <1>1, <1>3, <1>4
<1>6. txs' \in Seq(TxRecord)
  <2>1. txs' = [n \in 1 .. Len(txs) |-> txs'[n]]
    BY <1>1, <1>2
  <2>2. \A n \in 1 .. Len(txs) : txs'[n] \in TxRecord
    BY <1>2, <1>5a
  <2>3. txs' \in [1 .. Len(txs) -> TxRecord]
    BY Zenon, <2>1, <2>2
  <2>4. QED
    BY <1>2, <2>3
<1>7. /\ \A j \in Job : job'[j].pc = "idle" /\ job'[j].intent = {} /\ \A k : job'[j].intent # {k}
      /\ job' \in [Job -> JobRecord]
  BY <1>1 DEF JobRecord
<1>8. TypeOK'
  BY <1>1, <1>6, <1>7, RoutingAssumption DEF RoutingInv, TypeOK
<1>9. JobsHoldTheirs' /\ OneJobPerIntent' /\ NoJobAtBoot'
  BY <1>7 DEF JobsHoldTheirs, OneJobPerIntent, NoJobAtBoot
<1>10. NoLeakedReservation' /\ HoldsArePosted'
  BY <1>1 DEF NoLeakedReservation, HoldsArePosted
<1>11. LiveIsKnown'
  <2>1. ASSUME NEW n \in DOMAIN txs, Live(n)
        PROVE  /\ ledger[txs[n].intent].stage = "posting_collateral"
               /\ ledger[txs[n].intent].solver = txs[n].solver
    <3>1. CASE \E j \in Job : At(j, "wait") /\ job[j].ref = n
      BY <3>1 DEF RoutingInv, JobsHoldTheirs
    <3>2. CASE ~ \E j \in Job : At(j, "wait") /\ job[j].ref = n
      BY <2>1, <3>2 DEF RoutingInv, LiveIsKnown
    <3>3. QED
      BY <3>1, <3>2
  <2>2. \A n, m \in DOMAIN txs : Live(n) /\ txs[m].intent = txs[n].intent => m <= n
    BY DEF RoutingInv, LiveIsKnown
  <2> SUFFICES ASSUME NEW n \in DOMAIN txs', txs'[n].st \in {"signed", "mempool"}
               PROVE  /\ ledger'[txs'[n].intent].stage = "posting_collateral"
                      /\ ledger'[txs'[n].intent].solver = txs'[n].solver
                      /\ \A l \in Job : job'[l].intent # {txs'[n].intent}
                      /\ \A m \in DOMAIN txs' : txs'[m].intent = txs'[n].intent => m <= n
    BY DEF LiveIsKnown
  <2>3. n \in DOMAIN txs /\ Live(n)
    BY <1>5, <1>5a
  <2>4. \A l \in Job : job'[l].intent # {txs'[n].intent}
    BY <1>7
  <2>5. \A m \in DOMAIN txs' : txs'[m].intent = txs'[n].intent => m <= n
    BY <1>5, <1>5a, <2>2, <2>3
  <2>6. ledger' = ledger /\ txs'[n].intent = txs[n].intent /\ txs'[n].solver = txs[n].solver
    BY <1>1, <1>5a, <2>3
  <2>7. QED
    BY <2>1, <2>3, <2>4, <2>5, <2>6
<1>12. QED
  BY <1>8, <1>9, <1>10, <1>11 DEF RoutingInv

\* The boot settles an entry whose last transaction is decided: none is left to be mined.
LEMMA BootMidInv ==
    ASSUME RoutingInv, NEW i \in Intent, BootMid(i)
    PROVE  RoutingInv'
<1>1. ~up /\ ledger[i].stage = "posting_collateral" /\ UNCHANGED <<now, book, lock, job, txs, mined, crashes, up>>
  BY DEF BootMid
<1>2. PICK n \in DOMAIN txs :
        /\ txs[n].intent = i /\ txs[n].st \in {"success", "reverted"}
        /\ \A m \in DOMAIN txs : txs[m].intent = i => m <= n
        /\ \/ setArbitrumStage(i, "collateral_posted", ledger[i].solver)
           \/ setArbitrumStage(i, "collateral_failed", ledger[i].solver)
  BY DEF BootMid
<1>3. /\ ledger' \in [Intent -> Entry]
      /\ \A k \in Intent : k # i => ledger'[k] = ledger[k]
  BY <1>2 DEF RoutingInv, TypeOK, setArbitrumStage, Entry, Stage
<1>4. \A j \in Job : job[j].pc = "idle" /\ job[j].intent = {} /\ \A k : job[j].intent # {k}
  BY <1>1 DEF RoutingInv, NoJobAtBoot, JobsHoldTheirs
<1>5. TypeOK'
  BY <1>1, <1>3 DEF RoutingInv, TypeOK
<1>6. JobsHoldTheirs' /\ OneJobPerIntent' /\ NoJobAtBoot'
  BY <1>1, <1>4 DEF JobsHoldTheirs, OneJobPerIntent, NoJobAtBoot
<1>7. NoLeakedReservation'
  BY <1>1 DEF RoutingInv, NoLeakedReservation
<1>8. HoldsArePosted'
  <2>1. \A r \in book : r.intent \in Intent
    BY DEF RoutingInv, TypeOK, Reservation
  <2>2. QED
    BY <1>1, <1>3, <2>1 DEF RoutingInv, HoldsArePosted
<1>9. LiveIsKnown'
  <2> SUFFICES ASSUME NEW m \in DOMAIN txs, Live(m)
               PROVE  /\ ledger'[txs[m].intent].stage = "posting_collateral"
                      /\ ledger'[txs[m].intent].solver = txs[m].solver
                      /\ \A l \in DOMAIN txs : txs[l].intent = txs[m].intent => l <= m
    BY <1>1, <1>4 DEF LiveIsKnown
  <2>1. txs \in Seq(TxRecord)
    BY DEF RoutingInv, TypeOK
  <2>2. txs[m] \in TxRecord /\ m \in Nat /\ n \in Nat
    BY <2>1
  <2>3. txs[m].intent \in Intent
    BY <2>2 DEF TxRecord
  <2>4. /\ ledger[txs[m].intent].stage = "posting_collateral"
        /\ ledger[txs[m].intent].solver = txs[m].solver
        /\ \A l \in DOMAIN txs : txs[l].intent = txs[m].intent => l <= m
    BY <1>4 DEF RoutingInv, LiveIsKnown
  <2>5. txs[m].intent # i
    BY <1>2, <2>2, <2>4
  <2>6. QED
    BY <1>3, <2>3, <2>4, <2>5
<1>10. QED
  BY <1>5, <1>6, <1>7, <1>8, <1>9 DEF RoutingInv

\* A step that leaves the ledger, the book, the jobs and the transactions alone.
LEMMA QuietInv ==
    ASSUME RoutingInv, now' \in Nat, up' \in BOOLEAN, up => up',
           UNCHANGED <<ledger, book, lock, job, txs, mined>>
    PROVE  RoutingInv'
<1>1. TypeOK' /\ NoJobAtBoot'
  BY DEF RoutingInv, TypeOK, NoJobAtBoot
<1>2. JobsHoldTheirs' /\ OneJobPerIntent'
  BY DEF RoutingInv, JobsHoldTheirs, OneJobPerIntent
<1>3. NoLeakedReservation' /\ HoldsArePosted' /\ LiveIsKnown'
  BY DEF RoutingInv, NoLeakedReservation, HoldsArePosted, LiveIsKnown
<1>4. QED
  BY <1>1, <1>2, <1>3 DEF RoutingInv

----------------------------------------------------------------------------
\* Every step of the routing keeps the invariant, unless a receipt is lost.
LEMMA NextInv == ASSUME ~MayLoseReceipt, RoutingInv, [Next]_vars PROVE RoutingInv'
<1>1. ASSUME NEW j \in Job, JobStep(j) PROVE RoutingInv'
  BY <1>1, DispatchInv, ReadsInv, DecideInv, GateInv, GateThrowsInv, PostSignInv, BroadcastInv,
     PostFailsInv, PostSucceedsInv DEF JobStep
<1>2. CASE Tick
  BY <1>2, QuietInv DEF Tick, RoutingInv, TypeOK
<1>3. CASE BootDone
  BY <1>3, QuietInv DEF BootDone, RoutingInv, TypeOK
<1>4. CASE UNCHANGED vars
  BY <1>4, QuietInv DEF vars, RoutingInv, TypeOK
<1>5. QED
  BY <1>1, <1>2, <1>3, <1>4, MineInv, BootMidInv, CrashInv DEF Next

\* The invariant holds in every behaviour in which no receipt is lost.
LEMMA RoutingInvariant == ~MayLoseReceipt => (Spec => []RoutingInv)
<1> SUFFICES ASSUME ~MayLoseReceipt PROVE Spec => []RoutingInv
  OBVIOUS
<1>1. RoutingInv /\ [Next]_vars => RoutingInv'
  BY NextInv
<1>2. QED
  BY InitInv, <1>1, PTL DEF Spec

\* No failure, refusal, exception or crash keeps capital booked: an open reservation
\* always belongs to a job at work for that solver and intent (solver_routing.ts, the
\* finally of dispatchArbitrumSettlement).
THEOREM ReservationsDoNotLeak == ~MayLoseReceipt => (Spec => []NoLeakedReservation)
<1>1. RoutingInv => NoLeakedReservation
  BY DEF RoutingInv
<1>2. QED
  BY RoutingInvariant, <1>1, PTL

\* An open reservation or an entry in flight stands for every commitment.
LEMMA CommitmentsHeld == RoutingInv => CommitmentsCounted
<1> SUFFICES ASSUME RoutingInv, NEW s \in Solver, NEW i \in Intent, Committed(s, i)
             PROVE  \/ \E r \in book : r.solver = s /\ r.intent = i /\ r.release = Pending
                    \/ i \in InFlight /\ ledger[i].solver = s
  BY DEF CommitmentsCounted
<1>1. CASE \E j \in Job : job[j].pc \in {"gate", "post"} /\ On(j, i) /\ job[j].solver = s
  BY <1>1 DEF RoutingInv, JobsHoldTheirs
<1>2. ASSUME NEW n \in DOMAIN txs, Live(n), txs[n].solver = s, txs[n].intent = i
      PROVE  \/ \E r \in book : r.solver = s /\ r.intent = i /\ r.release = Pending
             \/ i \in InFlight /\ ledger[i].solver = s
  <2>1. CASE \E j \in Job : At(j, "wait") /\ job[j].ref = n
    BY <1>2, <2>1 DEF RoutingInv, JobsHoldTheirs
  <2>2. CASE /\ ledger[i].stage = "posting_collateral" /\ ledger[i].solver = s
             /\ \A j \in Job : ~On(j, i)
    <3>1. \A r \in book : r.intent = i => r.release = Pending
      BY <2>2 DEF RoutingInv, HoldsArePosted
    <3>2. ~hasIntent(i)
      BY <2>2, <3>1 DEF RoutingInv, NoLeakedReservation, hasIntent
    <3>3. QED
      BY <2>2, <3>2 DEF InFlight
  <2>3. QED
    BY <1>2, <2>1, <2>2 DEF RoutingInv, LiveIsKnown
<1>3. QED
  BY <1>1, <1>2 DEF Committed

\* Whatever capital this process has promised, before or after a crash, is in the book
\* or in the ledger's in-flight entries, where the next selection subtracts it
\* (solver_routing.ts, decide).
THEOREM CommitmentsAreCounted == ~MayLoseReceipt => (Spec => []CommitmentsCounted)
<1>1. QED
  BY RoutingInvariant, CommitmentsHeld, PTL

----------------------------------------------------------------------------
(***************************************************************************)
(* Sums over finite sets: SumFunctionOnSet adds f[x] once for every x,     *)
(* whatever the order it takes them in.                                    *)
(***************************************************************************)
LEMMA LeastNatural ==
    ASSUME NEW T \in SUBSET Nat, T # {}
    PROVE  \E m \in T : \A k \in T : m <= k
<1> DEFINE R == OpToRel(<, Nat)
<1>1. \E m \in T : \A k \in T : ~ (<<k, m>> \in R)
  <2> HIDE DEF R
  <2>1. IsWellFoundedOn(R, Nat)
    BY NatLessThanWellFounded DEF R
  <2>2. QED
    BY <2>1, WFMin
<1>2. \A k, m \in Nat : k < m => <<k, m>> \in R
  BY DEF OpToRel
<1> HIDE DEF R
<1>3. PICK m \in T : \A k \in T : ~ (<<k, m>> \in R)
  BY <1>1
<1>4. ASSUME NEW k \in T PROVE m <= k
  <2>1. k \in Nat /\ m \in Nat /\ ~ (k < m)
    BY <1>2, <1>3
  <2>2. QED
    BY <2>1
<1>5. QED
  BY <1>4

\* A family that has a set as soon as it has the set less any one element has them all.
LEMMA SubsetInduction ==
    ASSUME NEW D, IsFiniteSet(D), NEW F, {} \in F,
           \A T \in SUBSET D : T # {} /\ (\A x \in T : T \ {x} \in F) => T \in F
    PROVE  \A T \in SUBSET D : T \in F
<1> DEFINE Bad == {Cardinality(T) : T \in (SUBSET D) \ F}
<1>1. \A T \in SUBSET D : IsFiniteSet(T) /\ Cardinality(T) \in Nat
  BY FS_Subset, FS_CardinalityType
<1>2. Bad \in SUBSET Nat
  BY <1>1
<1>3. SUFFICES ASSUME Bad # {} PROVE FALSE
  OBVIOUS
<1>4. PICK m \in Bad : \A k \in Bad : m <= k
  <2> HIDE DEF Bad
  <2>1. QED
    BY <1>2, <1>3, LeastNatural
<1>5. PICK T \in (SUBSET D) \ F : m = Cardinality(T)
  OBVIOUS
<1>6. ASSUME NEW x \in T PROVE T \ {x} \in F
  <2>1. Cardinality(T \ {x}) = Cardinality(T) - 1
    BY <1>1, FS_RemoveElement
  <2>2. T \ {x} \in SUBSET D
    OBVIOUS
  <2>3. ~ (m <= Cardinality(T \ {x}))
    BY <1>1, <1>5, <2>1
  <2>4. Cardinality(T \ {x}) \notin Bad
    <3> HIDE DEF Bad
    <3>1. QED
      BY <1>4, <2>3
  <2>5. QED
    BY <2>2, <2>4
<1>7. T # {} /\ T \in SUBSET D /\ T \notin F
  BY <1>5
<1>8. QED
  BY <1>6, <1>7

First(T) == CHOOSE x \in T : TRUE

\* g sums f over every set of the family.
SumsOver(g, f, family) ==
    /\ g \in [family -> Int]
    /\ \A T \in family : g[T] = IF T = {} THEN 0 ELSE f[First(T)] + g[T \ {First(T)}]

LEMMA SumsExist ==
    ASSUME NEW D, IsFiniteSet(D), NEW f \in [D -> Int]
    PROVE  \E g : SumsOver(g, f, SUBSET D)
<1> DEFINE Small(n) == {T \in SUBSET D : Cardinality(T) <= n}
           Bad == {n \in Nat : ~ \E g : SumsOver(g, f, Small(n))}
<1>1. \A T \in SUBSET D : IsFiniteSet(T) /\ Cardinality(T) \in Nat
  BY FS_Subset, FS_CardinalityType
<1>2. Bad = {}
  <2>1. SUFFICES ASSUME Bad # {} PROVE FALSE
    OBVIOUS
  <2>2. PICK n \in Bad : \A k \in Bad : n <= k
    <3>1. Bad \in SUBSET Nat
      OBVIOUS
    <3> HIDE DEF Bad
    <3>2. QED
      BY <2>1, <3>1, LeastNatural
  <2>3. CASE n = 0
    <3>1. \A T \in Small(0) : T = {}
      BY <1>1, FS_EmptySet
    <3>2. SumsOver([T \in Small(0) |-> 0], f, Small(0))
      <4>1. [T \in Small(0) |-> 0] \in [Small(0) -> Int]
        OBVIOUS
      <4>2. QED
        BY <3>1, <4>1 DEF SumsOver
    <3>3. QED
      BY <2>2, <2>3, <3>2
  <2>4. CASE n # 0
    <3>1. n - 1 \in Nat /\ n - 1 \notin Bad
      <4>1. n \in Nat
        OBVIOUS
      <4>2. n - 1 \in Nat /\ ~ (n <= n - 1)
        BY <2>4, <4>1
      <4>3. n - 1 \notin Bad
        <5> HIDE DEF Bad
        <5>1. QED
          BY <2>2, <4>2
      <4>4. QED
        BY <4>2, <4>3
    <3>2. PICK g : SumsOver(g, f, Small(n - 1))
      BY <3>1
    <3> DEFINE h == [T \in Small(n) |-> IF T = {} THEN 0 ELSE f[First(T)] + g[T \ {First(T)}]]
    <3>3. ASSUME NEW T \in Small(n), T # {}
          PROVE  /\ First(T) \in T /\ f[First(T)] \in Int
                 /\ T \ {First(T)} \in Small(n - 1) /\ T \ {First(T)} \in Small(n)
                 /\ g[T \ {First(T)}] \in Int
      <4>1. First(T) \in T
        BY <3>3 DEF First
      <4>2. Cardinality(T \ {First(T)}) = Cardinality(T) - 1
        BY <1>1, <4>1, FS_RemoveElement
      <4>3. T \ {First(T)} \in SUBSET D /\ Cardinality(T) \in Nat /\ Cardinality(T) <= n
        BY <1>1
      <4>4. T \ {First(T)} \in Small(n - 1) /\ T \ {First(T)} \in Small(n)
        BY <4>2, <4>3
      <4>5. QED
        BY <3>2, <4>1, <4>4 DEF SumsOver
    <3>4. h \in [Small(n) -> Int]
      BY <3>3
    <3>5. ASSUME NEW T \in Small(n - 1) PROVE T \in Small(n) /\ h[T] = g[T]
      <4>1. T \in Small(n)
        BY <1>1
      <4>2. QED
        BY <3>2, <4>1 DEF SumsOver
    <3>6. \A T \in Small(n) : h[T] = IF T = {} THEN 0 ELSE f[First(T)] + h[T \ {First(T)}]
      BY <3>3, <3>5
    <3> HIDE DEF h
    <3>7. SumsOver(h, f, Small(n))
      BY <3>4, <3>6 DEF SumsOver
    <3>8. QED
      BY <2>2, <3>7
  <2>5. QED
    BY <2>3, <2>4
<1>3. Cardinality(D) \in Nat
  BY FS_CardinalityType
<1>4. Small(Cardinality(D)) = SUBSET D
  BY FS_Subset
<1>5. QED
  BY <1>2, <1>3, <1>4

\* What SumFunctionOnSet takes is one of these sums.
LEMMA SumIs ==
    ASSUME NEW D, IsFiniteSet(D), NEW f \in [D -> Int], NEW g, SumsOver(g, f, SUBSET D),
           NEW S \in SUBSET D
    PROVE  SumFunctionOnSet(f, S) = g[S]
<1> DEFINE Rec(s) == s = [T \in SUBSET S |-> IF T = {} THEN 0
                            ELSE f[CHOOSE x \in T : TRUE] + s[T \ {CHOOSE x \in T : TRUE}]]
           sum == CHOOSE s : Rec(s)
           h == [T \in SUBSET S |-> g[T]]
           F == {T \in SUBSET S : sum[T] = g[T]}
<1>1. SumFunctionOnSet(f, S) = sum[S]
  BY DEF SumFunctionOnSet, FoldFunctionOnSet, MapThenFoldSet
<1>2. \A T \in SUBSET S : T # {} => First(T) \in T /\ T \ {First(T)} \in SUBSET S
  BY DEF First
<1>3. Rec(h)
  <2>1. \A T \in SUBSET S : h[T] = IF T = {} THEN 0 ELSE f[First(T)] + h[T \ {First(T)}]
    BY <1>2 DEF SumsOver
  <2>2. h = [T \in SUBSET S |-> IF T = {} THEN 0 ELSE f[First(T)] + h[T \ {First(T)}]]
    <3> DEFINE v(T) == IF T = {} THEN 0 ELSE f[First(T)] + h[T \ {First(T)}]
    <3>1. \A T \in SUBSET S : h[T] = v(T)
      BY <2>1
    <3>2. h = [T \in SUBSET S |-> h[T]]
      OBVIOUS
    <3> HIDE DEF h, v
    <3>3. [T \in SUBSET S |-> h[T]] = [T \in SUBSET S |-> v(T)]
      BY <3>1
    <3>4. h = [T \in SUBSET S |-> v(T)]
      BY <3>2, <3>3
    <3>5. QED
      BY <3>4 DEF v
  <2>3. QED
    BY <2>2 DEF First
<1>4. Rec(sum)
  <2> HIDE DEF Rec, h
  <2>1. QED
    BY <1>3
<1>5. \A T \in SUBSET S : sum[T] = IF T = {} THEN 0 ELSE f[First(T)] + sum[T \ {First(T)}]
  <2> HIDE DEF sum
  <2>1. QED
    BY <1>4 DEF First
<1> HIDE DEF sum, h, Rec
<1>6. {} \in F
  BY <1>5 DEF SumsOver
<1>7. ASSUME NEW T \in SUBSET S, T # {}, \A x \in T : T \ {x} \in F PROVE T \in F
  <2>1. First(T) \in T /\ T \ {First(T)} \in F
    BY <1>2, <1>7
  <2>2. sum[T] = f[First(T)] + g[T \ {First(T)}]
    BY <1>5, <1>7, <2>1
  <2>3. g[T] = f[First(T)] + g[T \ {First(T)}]
    BY <1>7 DEF SumsOver
  <2>4. QED
    BY <2>2, <2>3
<1>8. \A T \in SUBSET S : T \in F
  <2>1. IsFiniteSet(S)
    BY FS_Subset
  <2> HIDE DEF F
  <2>2. QED
    BY <1>6, <1>7, <2>1, SubsetInduction
<1>9. QED
  BY <1>1, <1>8

\* One element's share is its value, whichever element it is.
LEMMA SumStep ==
    ASSUME NEW D, IsFiniteSet(D), NEW f \in [D -> Int]
    PROVE  /\ SumFunctionOnSet(f, {}) = 0
           /\ \A S \in SUBSET D : /\ SumFunctionOnSet(f, S) \in Int
                                  /\ \A x \in S : SumFunctionOnSet(f, S) = f[x] + SumFunctionOnSet(f, S \ {x})
<1>1. PICK g : SumsOver(g, f, SUBSET D)
  BY SumsExist
<1>2. \A S \in SUBSET D : SumFunctionOnSet(f, S) = g[S] /\ g[S] \in Int
  <2>1. g \in [SUBSET D -> Int]
    BY <1>1 DEF SumsOver
  <2>2. QED
    BY <1>1, <2>1, SumIs
<1>3. g[{}] = 0
  BY <1>1 DEF SumsOver
<1> DEFINE F == {S \in SUBSET D : \A x \in S : g[S] = f[x] + g[S \ {x}]}
<1>4. {} \in F
  OBVIOUS
<1>5. ASSUME NEW T \in SUBSET D, T # {}, \A x \in T : T \ {x} \in F PROVE T \in F
  <2> DEFINE c == First(T)
  <2>1. c \in T /\ g[T] = f[c] + g[T \ {c}]
    BY <1>1, <1>5 DEF SumsOver, First
  <2> HIDE DEF c
  <2>2. ASSUME NEW x \in T PROVE g[T] = f[x] + g[T \ {x}]
    <3>1. CASE x = c
      BY <2>1, <3>1
    <3>2. CASE x # c
      <4>1. x \in T \ {c} /\ c \in T \ {x} /\ (T \ {c}) \ {x} = (T \ {x}) \ {c}
        BY <2>1, <3>2
      <4>2. g[T \ {c}] = f[x] + g[(T \ {c}) \ {x}]
        BY <1>5, <2>1, <4>1
      <4>3. g[T \ {x}] = f[c] + g[(T \ {x}) \ {c}]
        BY <1>5, <2>2, <4>1
      <4>4. f[x] \in Int /\ f[c] \in Int /\ g[(T \ {x}) \ {c}] \in Int
        BY <1>2, <2>1, <2>2
      <4>5. QED
        <5> DEFINE rest == g[(T \ {x}) \ {c}]
        <5>1. g[T \ {c}] = f[x] + rest
          BY <4>1, <4>2
        <5>2. g[T \ {x}] = f[c] + rest /\ rest \in Int
          BY <4>3, <4>4
        <5> HIDE DEF rest
        <5>3. QED
          BY <2>1, <4>4, <5>1, <5>2
    <3>3. QED
      BY <3>1, <3>2
  <2>3. QED
    BY <2>2
<1>6. \A T \in SUBSET D : T \in F
  <2> HIDE DEF F
  <2>1. QED
    BY <1>4, <1>5, SubsetInduction
<1>7. QED
  BY <1>2, <1>3, <1>6

\* The sum of two sets without a common element.
LEMMA SumOfTwo ==
    ASSUME NEW D, IsFiniteSet(D), NEW f \in [D -> Int], NEW A \in SUBSET D, NEW B \in SUBSET D,
           A \cap B = {}
    PROVE  SumFunctionOnSet(f, A \cup B) = SumFunctionOnSet(f, A) + SumFunctionOnSet(f, B)
<1> DEFINE sum(S) == SumFunctionOnSet(f, S)
           F == {S \in SUBSET B : sum(A \cup S) = sum(A) + sum(S)}
<1>1. /\ sum({}) = 0
      /\ \A S \in SUBSET D : sum(S) \in Int /\ \A x \in S : sum(S) = f[x] + sum(S \ {x})
  BY SumStep
<1> HIDE DEF sum
<1>2. {} \in F
  <2>1. A \cup {} = A
    OBVIOUS
  <2>2. QED
    BY <1>1, <2>1
<1>3. ASSUME NEW T \in SUBSET B, T # {}, \A x \in T : T \ {x} \in F PROVE T \in F
  <2>1. PICK x \in T : T \ {x} \in F
    BY <1>3
  <2>2. /\ (A \cup T) \ {x} = A \cup (T \ {x}) /\ x \in A \cup T
        /\ A \cup T \in SUBSET D /\ T \in SUBSET D /\ T \ {x} \in SUBSET D
    OBVIOUS
  <2>3. sum(A \cup T) = f[x] + sum(A \cup (T \ {x})) /\ sum(T) = f[x] + sum(T \ {x})
    BY <1>1, <2>2
  <2>4. sum(A \cup (T \ {x})) = sum(A) + sum(T \ {x})
    BY <2>1
  <2>5. f[x] \in Int /\ sum(A) \in Int /\ sum(T \ {x}) \in Int
    BY <1>1, <2>2
  <2>6. QED
    BY <2>3, <2>4, <2>5
<1>4. \A T \in SUBSET B : T \in F
  <2>1. IsFiniteSet(B)
    BY FS_Subset
  <2> HIDE DEF F
  <2>2. QED
    BY <1>2, <1>3, <2>1, SubsetInduction
<1>5. sum(A \cup B) = sum(A) + sum(B)
  BY <1>4
<1>6. QED
  BY <1>5 DEF sum

\* More elements do not sum to less, if no value is negative.
LEMMA SumMonotone ==
    ASSUME NEW D, IsFiniteSet(D), NEW f \in [D -> Nat], NEW B \in SUBSET D, NEW A \in SUBSET B
    PROVE  /\ SumFunctionOnSet(f, A) \in Nat
           /\ SumFunctionOnSet(f, A) <= SumFunctionOnSet(f, B)
<1> DEFINE sum(S) == SumFunctionOnSet(f, S)
           F == {S \in SUBSET D : sum(S) \in Nat}
<1>0. f \in [D -> Int]
  OBVIOUS
<1>1. /\ sum({}) = 0
      /\ \A S \in SUBSET D : sum(S) \in Int /\ \A x \in S : sum(S) = f[x] + sum(S \ {x})
  BY <1>0, SumStep
<1>2. sum(A \cup (B \ A)) = sum(A) + sum(B \ A)
  BY <1>0, SumOfTwo
<1> HIDE DEF sum
<1>3. {} \in F
  BY <1>1
<1>4. ASSUME NEW T \in SUBSET D, T # {}, \A x \in T : T \ {x} \in F PROVE T \in F
  <2>1. PICK x \in T : T \ {x} \in F
    BY <1>4
  <2>2. sum(T) = f[x] + sum(T \ {x}) /\ f[x] \in Nat
    BY <1>1
  <2>3. QED
    BY <2>1, <2>2
<1>5. \A T \in SUBSET D : T \in F
  <2> HIDE DEF F
  <2>1. QED
    BY <1>3, <1>4, SubsetInduction
<1>6. sum(A) \in Nat /\ sum(B \ A) \in Nat
  BY <1>5
<1>7. sum(B) = sum(A \cup (B \ A))
  <2>1. B = A \cup (B \ A)
    OBVIOUS
  <2>2. QED
    BY <2>1
<1>8. sum(A) <= sum(B)
  BY <1>2, <1>6, <1>7
<1>9. QED
  BY <1>6, <1>8 DEF sum

\* Common elements count once in a union.
LEMMA SumOfUnion ==
    ASSUME NEW D, IsFiniteSet(D), NEW f \in [D -> Nat], NEW A \in SUBSET D, NEW B \in SUBSET D
    PROVE  SumFunctionOnSet(f, A \cup B) <= SumFunctionOnSet(f, A) + SumFunctionOnSet(f, B)
<1>1. f \in [D -> Int]
  OBVIOUS
<1>2. SumFunctionOnSet(f, A \cup (B \ A)) = SumFunctionOnSet(f, A) + SumFunctionOnSet(f, B \ A)
  BY <1>1, SumOfTwo
<1>3. SumFunctionOnSet(f, B \ A) <= SumFunctionOnSet(f, B)
  BY SumMonotone
<1>4. /\ SumFunctionOnSet(f, A) \in Int /\ SumFunctionOnSet(f, B) \in Int
      /\ SumFunctionOnSet(f, B \ A) \in Int
  BY <1>1, SumStep
<1>5. SumFunctionOnSet(f, A \cup B) = SumFunctionOnSet(f, A \cup (B \ A))
  <2>1. A \cup B = A \cup (B \ A)
    OBVIOUS
  <2>2. QED
    BY <2>1
<1>6. QED
  BY <1>2, <1>3, <1>4, <1>5

----------------------------------------------------------------------------
(***************************************************************************)
(* What is committed of a solver's capital is in its wallet.  Promised and *)
(* mined collateral together fit what the solver started with, because a   *)
(* selection subtracts all of it: what its reads of the chain missed was   *)
(* mined so recently that the book still holds it.                         *)
(***************************************************************************)
\* The reservation outlasts what a lagging node, and a slow decision, may hide.
HoldSuffices ==
    ~MayLoseReceipt /\ BootOutlastsLag /\ Lag + Patience <= Hold /\ Patience < Hold

\* No job selects for, and no transaction is left to be mined of, an intent whose
\* collateral was mined.
LEMMA MinedIsOver ==
    ASSUME RoutingInv, MinedIsKnown, NEW n \in DOMAIN mined
    PROVE  /\ mined[n].intent \in Intent /\ mined[n].solver \in Solver
           /\ mined[n].at \in Nat /\ n \in Nat
           /\ ledger[mined[n].intent].stage \in {"posting_collateral", "collateral_posted"}
           /\ \A j \in Job : On(j, mined[n].intent) => At(j, "wait")
           /\ \A m \in DOMAIN txs : Live(m) => txs[m].intent # mined[n].intent
<1> DEFINE Lock == [solver : Solver, intent : Intent, at : Nat]
<1>1. mined \in Seq(Lock) /\ txs \in Seq(TxRecord)
  BY DEF RoutingInv, TypeOK
<1>2. /\ mined[n].intent \in Intent /\ mined[n].solver \in Solver
      /\ mined[n].at \in Nat /\ n \in Nat
  <2>1. mined[n] \in Lock /\ n \in Nat
    <3> HIDE DEF Lock
    <3>1. QED
      BY <1>1
  <2>2. QED
    BY <2>1
<1>3. ledger[mined[n].intent].stage \in {"posting_collateral", "collateral_posted"}
  BY DEF MinedIsKnown
<1>4. \A j \in Job : On(j, mined[n].intent) => At(j, "wait")
  BY <1>2, <1>3 DEF RoutingInv, JobsHoldTheirs
<1>5. ASSUME NEW m \in DOMAIN txs, Live(m), txs[m].intent = mined[n].intent PROVE FALSE
  <2>1. PICK k \in DOMAIN txs : /\ txs[k].intent = mined[n].intent /\ txs[k].st = "success"
                                /\ \A l \in DOMAIN txs : txs[l].intent = mined[n].intent => l <= k
    BY DEF MinedIsKnown
  <2>2. k <= m /\ m <= k
    BY <1>5, <2>1 DEF RoutingInv, LiveIsKnown
  <2>3. k = m
    BY <1>1, <2>2
  <2>4. QED
    BY <1>5, <2>1, <2>3
<1>6. QED
  BY <1>2, <1>3, <1>4, <1>5

\* A step that mines nothing and leaves what mined collateral shows of itself alone.
LEMMA MinedKept ==
    ASSUME RoutingInv, MinedIsKnown, now' \in Nat, now' >= now, mined' = mined, up' => up,
           \A n \in DOMAIN mined : ledger'[mined[n].intent] = ledger[mined[n].intent],
           DOMAIN txs \subseteq DOMAIN txs',
           \A m \in DOMAIN txs : /\ txs'[m].intent = txs[m].intent
                                 /\ txs[m].st = "success" => txs'[m].st = "success",
           \A m \in DOMAIN txs' \ DOMAIN txs : \A n \in DOMAIN mined : txs'[m].intent # mined[n].intent,
           up' => \A r \in book : r.release # Pending => r \in book',
           \A j \in Job : job'[j].pc = "decide" => At(j, "decide") /\ job'[j].ref = job[j].ref
    PROVE  MinedIsKnown'
<1> SUFFICES ASSUME NEW n \in DOMAIN mined
             PROVE  LET s == mined[n].solver
                        i == mined[n].intent
                    IN  /\ mined[n].at <= now'
                        /\ ledger'[i].solver = s
                        /\ \E m \in DOMAIN txs' : /\ txs'[m].intent = i /\ txs'[m].st = "success"
                                                  /\ \A l \in DOMAIN txs' : txs'[l].intent = i => l <= m
                        /\ \/ ledger'[i].stage = "posting_collateral"
                           \/ /\ ledger'[i].stage = "collateral_posted"
                              /\ \/ ~up'
                                 \/ \E r \in book' : /\ r.solver = s /\ r.intent = i
                                                     /\ r.release # Pending /\ r.release >= mined[n].at + Hold
                                 \/ /\ mined[n].at + Lag <= now'
                                    /\ \A j \in Job : job'[j].pc = "decide" => n <= job'[j].ref
  BY DEF MinedIsKnown
<1> DEFINE s == mined[n].solver
           i == mined[n].intent
<1>1. /\ mined[n].at <= now /\ ledger[i].solver = s
      /\ \E m \in DOMAIN txs : /\ txs[m].intent = i /\ txs[m].st = "success"
                               /\ \A l \in DOMAIN txs : txs[l].intent = i => l <= m
      /\ \/ ledger[i].stage = "posting_collateral"
         \/ /\ ledger[i].stage = "collateral_posted"
            /\ \/ ~up
               \/ \E r \in book : /\ r.solver = s /\ r.intent = i
                                  /\ r.release # Pending /\ r.release >= mined[n].at + Hold
               \/ /\ mined[n].at + Lag <= now
                  /\ \A j \in Job : At(j, "decide") => n <= job[j].ref
  BY DEF MinedIsKnown
<1>2. mined[n].at \in Nat /\ now \in Nat /\ Lag \in Nat /\ ledger'[i] = ledger[i]
  BY MinedIsOver, RoutingAssumption DEF RoutingInv, TypeOK
<1>3. \E m \in DOMAIN txs' : /\ txs'[m].intent = i /\ txs'[m].st = "success"
                             /\ \A l \in DOMAIN txs' : txs'[l].intent = i => l <= m
  <2>1. PICK m \in DOMAIN txs : /\ txs[m].intent = i /\ txs[m].st = "success"
                                /\ \A l \in DOMAIN txs : txs[l].intent = i => l <= m
    BY <1>1
  <2>2. \A l \in DOMAIN txs' : txs'[l].intent = i => l \in DOMAIN txs
    OBVIOUS
  <2>3. m \in DOMAIN txs' /\ txs'[m].intent = i /\ txs'[m].st = "success"
    BY <2>1
  <2>4. \A l \in DOMAIN txs' : txs'[l].intent = i => l <= m
    BY <2>1, <2>2
  <2>5. QED
    BY <2>3, <2>4
<1>4. mined[n].at <= now' /\ (mined[n].at + Lag <= now => mined[n].at + Lag <= now')
  BY <1>1, <1>2
<1>5. CASE ledger[i].stage = "posting_collateral"
  BY <1>1, <1>2, <1>3, <1>4, <1>5
<1>6. CASE ledger[i].stage = "collateral_posted" /\ ~up'
  BY <1>1, <1>2, <1>3, <1>4, <1>6
<1>7. CASE ledger[i].stage = "collateral_posted" /\ up'
  <2>1. CASE \E r \in book : /\ r.solver = s /\ r.intent = i
                             /\ r.release # Pending /\ r.release >= mined[n].at + Hold
    BY <1>1, <1>2, <1>3, <1>4, <1>7, <2>1
  <2>2. CASE /\ mined[n].at + Lag <= now
             /\ \A j \in Job : At(j, "decide") => n <= job[j].ref
    BY <1>1, <1>2, <1>3, <1>4, <1>7, <2>2
  <2>3. QED
    BY <1>1, <1>7, <2>1, <2>2
<1>8. QED
  BY <1>1, <1>5, <1>6, <1>7

\* A selection under way keeps what it read.
LEMMA ReadsKept ==
    ASSUME ReadsAreFresh, UNCHANGED <<now, mined>>,
           \A j \in Job : job'[j].pc = "decide" => At(j, "decide") /\ job'[j] = job[j]
    PROVE  ReadsAreFresh'
BY DEF ReadsAreFresh

\* Sums of intents' needs.
LEMMA NeedTypes ==
    /\ IsFiniteSet(Intent)
    /\ [i \in Intent |-> Need(i)] \in [Intent -> Nat]
    /\ \A S \in SUBSET Intent : NeedOf(S) \in Nat
    /\ \A i \in Intent : NeedOf({i}) = Need(i) /\ Need(i) \in Nat
<1> DEFINE need == [i \in Intent |-> Need(i)]
<1>1. \A i \in Intent : Need(i) \in Nat
  BY RoutingAssumption DEF Need
<1>2. need \in [Intent -> Nat] /\ need \in [Intent -> Int] /\ \A i \in Intent : need[i] = Need(i)
  BY <1>1
<1>3. IsFiniteSet(Intent)
  BY RoutingAssumption
<1> HIDE DEF need
<1>4. \A S \in SUBSET Intent : SumFunctionOnSet(need, S) \in Nat
  <2>1. SUFFICES ASSUME NEW S \in SUBSET Intent PROVE SumFunctionOnSet(need, S) \in Nat
    OBVIOUS
  <2>2. QED
    BY <1>2, <1>3, SumMonotone
<1>5. ASSUME NEW i \in Intent PROVE SumFunctionOnSet(need, {i}) = Need(i)
  <2>1. {i} \in SUBSET Intent /\ {i} \ {i} = {}
    OBVIOUS
  <2>2. SumFunctionOnSet(need, {i}) = need[i] + SumFunctionOnSet(need, {i} \ {i})
    BY <1>2, <1>3, <2>1, SumStep
  <2>3. SumFunctionOnSet(need, {}) = 0
    BY <1>2, <1>3, SumStep
  <2>4. QED
    BY <1>1, <1>2, <2>1, <2>2, <2>3
<1>6. \A S : NeedOf(S) = SumFunctionOnSet(need, S)
  BY DEF NeedOf, need
<1>7. [i \in Intent |-> Need(i)] \in [Intent -> Nat]
  BY <1>2 DEF need
<1>8. QED
  BY <1>1, <1>3, <1>4, <1>5, <1>6, <1>7

LEMMA NeedMonotone ==
    ASSUME NEW B \in SUBSET Intent, NEW A \in SUBSET B
    PROVE  NeedOf(A) <= NeedOf(B)
BY NeedTypes, SumMonotone DEF NeedOf

LEMMA NeedOfUnion ==
    ASSUME NEW A \in SUBSET Intent, NEW B \in SUBSET Intent
    PROVE  /\ NeedOf(A \cup B) <= NeedOf(A) + NeedOf(B)
           /\ A \cap B = {} => NeedOf(A \cup B) = NeedOf(A) + NeedOf(B)
<1>1. /\ IsFiniteSet(Intent) /\ [i \in Intent |-> Need(i)] \in [Intent -> Nat]
      /\ [i \in Intent |-> Need(i)] \in [Intent -> Int]
  BY NeedTypes
<1>2. QED
  BY <1>1, SumOfUnion, SumOfTwo DEF NeedOf

LEMMA ExposureTypes ==
    ASSUME RoutingInv, MinedIsKnown, NEW s \in Solver, NEW k \in 0 .. Len(mined)
    PROVE  Promised(s) \in SUBSET Intent /\ MinedFor(s, k) \in SUBSET Intent
<1>1. DOMAIN mined = 1 .. Len(mined) /\ Len(mined) \in Nat
  BY DEF RoutingInv, TypeOK
<1>2. \A n \in 1 .. k : n \in DOMAIN mined /\ mined[n].intent \in Intent
  BY <1>1, MinedIsOver
<1>3. QED
  BY <1>2 DEF Promised, MinedFor

\* Nothing is added to what is committed and what was taken.
LEMMA ExposureKept ==
    ASSUME RoutingInv, MinedIsKnown, ExposureFits,
           \A s \in Solver : \A i \in Promised(s)' \cup MinedFor(s, Len(mined))' :
                i \in Promised(s) \cup MinedFor(s, Len(mined))
    PROVE  ExposureFits'
<1> SUFFICES ASSUME NEW s \in Solver
             PROVE  NeedOf(Promised(s)' \cup MinedFor(s, Len(mined))') <= Capital[s]
  BY DEF ExposureFits
<1> DEFINE new == Promised(s)' \cup MinedFor(s, Len(mined))'
           old == Promised(s) \cup MinedFor(s, Len(mined))
<1>1. Len(mined) \in 0 .. Len(mined)
  BY DEF RoutingInv, TypeOK
<1>2. old \in SUBSET Intent /\ new \in SUBSET old
  BY <1>1, ExposureTypes
<1>3. NeedOf(old) <= Capital[s]
  BY DEF ExposureFits
<1> HIDE DEF new, old
<1>4. NeedOf(new) <= NeedOf(old) /\ NeedOf(new) \in Nat /\ NeedOf(old) \in Nat
  <2>1. new \in SUBSET Intent
    BY <1>2
  <2>2. QED
    BY <1>2, <2>1, NeedMonotone, NeedTypes
<1>5. NeedOf(new) <= Capital[s]
  BY <1>3, <1>4, RoutingAssumption
<1>6. QED
  BY <1>5 DEF new

\* A step of a job that neither reads, decides nor learns of a success.
LEMMA JobCapital ==
    ASSUME RoutingInv, CapitalInv, up, UNCHANGED <<now, mined, up>>,
           \A n \in DOMAIN mined : ledger'[mined[n].intent] = ledger[mined[n].intent],
           DOMAIN txs \subseteq DOMAIN txs',
           \A m \in DOMAIN txs : /\ txs'[m].intent = txs[m].intent
                                 /\ txs[m].st = "success" => txs'[m].st = "success",
           \A m \in DOMAIN txs' \ DOMAIN txs : \A n \in DOMAIN mined : txs'[m].intent # mined[n].intent,
           \A r \in book : r.release # Pending => r \in book',
           \A j \in Job : job'[j].pc = "decide" => At(j, "decide") /\ job'[j] = job[j],
           WaitsForLast',
           \A s \in Solver, i \in Intent : Committed(s, i)' => Committed(s, i)
    PROVE  CapitalInv'
<1>1. MinedIsKnown /\ ReadsAreFresh /\ ExposureFits /\ now \in Nat
  BY DEF CapitalInv, RoutingInv, TypeOK
<1>2. MinedIsKnown'
  BY <1>1, MinedKept
<1>3. ReadsAreFresh'
  BY <1>1, ReadsKept
<1>4. EmptyAtBoot'
  BY DEF EmptyAtBoot
<1>5. ExposureFits'
  <2>1. \A s \in Solver : Promised(s)' \subseteq Promised(s) /\ MinedFor(s, Len(mined))' = MinedFor(s, Len(mined))
    BY DEF Promised, MinedFor
  <2>2. QED
    BY <1>1, <2>1, ExposureKept
<1>6. QED
  BY <1>2, <1>3, <1>4, <1>5 DEF CapitalInv

\* The jobs that wait go on waiting for the same transactions.
LEMMA WaitsKept ==
    ASSUME WaitsForLast, DOMAIN txs' = DOMAIN txs,
           \A m \in DOMAIN txs : txs'[m].intent = txs[m].intent,
           \A j \in Job : job'[j].pc = "wait" => At(j, "wait") /\ job'[j] = job[j] /\ job[j].ref \in DOMAIN txs
    PROVE  WaitsForLast'
BY DEF WaitsForLast

LEMMA JobWorks ==
    ASSUME RoutingInv, NEW j \in Job, ~At(j, "idle")
    PROVE  up /\ \E i \in Intent : On(j, i)
BY DEF RoutingInv, JobsHoldTheirs, NoJobAtBoot

LEMMA DispatchCapital ==
    ASSUME RoutingInv, CapitalInv, NEW j \in Job, NEW i \in Intent, Dispatch(j, i)
    PROVE  CapitalInv'
<1>1. /\ up /\ UNCHANGED <<now, ledger, book, lock, txs, mined, crashes, up>>
      /\ job' = [job EXCEPT ![j] = [pc |-> "enter", intent |-> {i}, solver |-> NoSolver, ref |-> 0, due |-> 0]]
  BY DEF Dispatch
<1>2. job'[j].pc = "enter" /\ \A k \in Job : k # j => job'[k] = job[k]
  BY <1>1 DEF RoutingInv, TypeOK
<1>3. \A k \in Job : At(k, "wait") => job[k].ref \in DOMAIN txs
  BY DEF RoutingInv, TypeOK
<1>4. WaitsForLast'
  BY <1>1, <1>2, <1>3, WaitsKept DEF CapitalInv
<1>5. \A s \in Solver, k \in Intent : Committed(s, k)' => Committed(s, k)
  BY <1>1, <1>2 DEF Committed
<1>6. QED
  BY <1>1, <1>2, <1>4, <1>5, JobCapital

\* The end of a job whose collateral was not mined.
LEMMA EndCapital ==
    ASSUME RoutingInv, CapitalInv, NEW j \in Job, NEW i \in Intent, On(j, i), job[j].pc \in Working,
           Finish(j), release(job[j].solver, i), UNCHANGED <<now, mined, up>>,
           ledger' = ledger \/ setArbitrumStage(i, "collateral_failed", ledger[i].solver),
           \A n \in DOMAIN mined : mined[n].intent # i,
           DOMAIN txs' = DOMAIN txs,
           \A m \in DOMAIN txs : /\ txs'[m].intent = txs[m].intent /\ txs'[m].solver = txs[m].solver
                                 /\ txs[m].st = "success" => txs'[m].st = "success"
                                 /\ txs'[m].st \in {"signed", "mempool"} => Live(m)
    PROVE  CapitalInv'
<1>1. up
  BY JobWorks
<1>2. job'[j].pc = "idle" /\ \A k \in Job : k # j => job'[k] = job[k]
  BY DEF Finish, RoutingInv, TypeOK
<1>3. \A k \in Job : At(k, "wait") => job[k].ref \in DOMAIN txs
  BY DEF RoutingInv, TypeOK
<1>4. WaitsForLast'
  BY <1>2, <1>3, WaitsKept DEF CapitalInv
<1>5. \A s \in Solver, k \in Intent : Committed(s, k)' => Committed(s, k)
  BY <1>2 DEF Committed
<1>6. \A n \in DOMAIN mined : ledger'[mined[n].intent] = ledger[mined[n].intent]
  <2>1. \A n \in DOMAIN mined : mined[n].intent \in Intent
    BY MinedIsOver DEF CapitalInv
  <2>2. QED
    BY <2>1 DEF setArbitrumStage, RoutingInv, TypeOK
<1>7. ASSUME NEW r \in book, r.release # Pending PROVE r \in book'
  <2>1. ledger[r.intent].stage = "collateral_posted"
    BY <1>7 DEF RoutingInv, HoldsArePosted
  <2>2. ledger[i].stage # "collateral_posted"
    BY DEF RoutingInv, JobsHoldTheirs
  <2>3. QED
    BY <2>1, <2>2 DEF release, Of
<1>8. QED
  BY <1>1, <1>2, <1>4, <1>5, <1>6, <1>7, JobCapital

\* A job that has no receipt of success has no mined collateral.
LEMMA NothingMined ==
    ASSUME RoutingInv, CapitalInv, NEW j \in Job, NEW i \in Intent, On(j, i),
           At(j, "wait") => txs[job[j].ref].st # "success", NEW n \in DOMAIN mined
    PROVE  mined[n].intent # i
<1> SUFFICES ASSUME mined[n].intent = i PROVE FALSE
  OBVIOUS
<1>1. At(j, "wait")
  BY MinedIsOver DEF CapitalInv
<1>2. txs[job[j].ref].intent = i /\ job[j].ref \in DOMAIN txs
  BY <1>1 DEF RoutingInv, JobsHoldTheirs, TypeOK
<1>3. PICK m \in DOMAIN txs : /\ txs[m].intent = i /\ txs[m].st = "success"
                              /\ \A l \in DOMAIN txs : txs[l].intent = i => l <= m
  BY DEF CapitalInv, MinedIsKnown
<1>4. m <= job[j].ref /\ job[j].ref <= m
  BY <1>1, <1>2, <1>3 DEF CapitalInv, WaitsForLast
<1>5. m = job[j].ref
  BY <1>2, <1>3, <1>4 DEF RoutingInv, TypeOK
<1>6. QED
  BY <1>1, <1>3, <1>5

LEMMA GateThrowsCapital ==
    ASSUME RoutingInv, CapitalInv, NEW j \in Job, GateThrows(j)
    PROVE  CapitalInv'
<1>1. PICK i \in job[j].intent : release(job[j].solver, i)
  BY DEF GateThrows
<1>2. At(j, "gate") /\ Finish(j) /\ UNCHANGED <<now, ledger, lock, txs, mined, crashes, up>>
  BY DEF GateThrows
<1>3. i \in Intent /\ On(j, i)
  BY <1>1, <1>2 DEF RoutingInv, JobsHoldTheirs
<1>4. \A n \in DOMAIN mined : mined[n].intent # i
  BY <1>2, <1>3, NothingMined
<1>5. QED
  BY <1>1, <1>2, <1>3, <1>4, EndCapital

LEMMA FailsCapital ==
    ASSUME RoutingInv, CapitalInv, NEW j \in Job, job[j].pc \in Working, Fails(j),
           At(j, "wait") => txs[job[j].ref].st # "success",
           UNCHANGED <<now, mined, up>>, DOMAIN txs' = DOMAIN txs,
           \A m \in DOMAIN txs : /\ txs'[m].intent = txs[m].intent /\ txs'[m].solver = txs[m].solver
                                 /\ txs[m].st = "success" => txs'[m].st = "success"
                                 /\ txs'[m].st \in {"signed", "mempool"} => Live(m)
    PROVE  CapitalInv'
<1>1. PICK i \in job[j].intent :
        /\ setArbitrumStage(i, "collateral_failed", ledger[i].solver)
        /\ release(job[j].solver, i)
        /\ Finish(j)
  BY DEF Fails
<1>2. i \in Intent /\ On(j, i)
  BY <1>1 DEF RoutingInv, JobsHoldTheirs
<1>3. \A n \in DOMAIN mined : mined[n].intent # i
  BY <1>2, NothingMined
<1>4. QED
  BY <1>1, <1>2, <1>3, EndCapital

LEMMA GateCapital ==
    ASSUME RoutingInv, CapitalInv, NEW j \in Job, Gate(j)
    PROVE  CapitalInv'
<1>1. At(j, "gate") /\ UNCHANGED <<now, lock, txs, mined, crashes, up>>
  BY DEF Gate
<1>2. CASE Fails(j)
  BY <1>1, <1>2, FailsCapital
<1>3. CASE Goto(j, "post") /\ UNCHANGED <<ledger, book>>
  <2>1. /\ job'[j].pc = "post" /\ job'[j].solver = job[j].solver /\ job'[j].intent = job[j].intent
        /\ \A k \in Job : k # j => job'[k] = job[k]
    BY <1>3 DEF Goto, RoutingInv, TypeOK, JobRecord
  <2>2. \A k \in Job : At(k, "wait") => job[k].ref \in DOMAIN txs
    BY DEF RoutingInv, TypeOK
  <2>3. WaitsForLast'
    BY <1>1, <2>1, <2>2, WaitsKept DEF CapitalInv
  <2>4. \A s \in Solver, k \in Intent : Committed(s, k)' => Committed(s, k)
    BY <1>1, <2>1 DEF Committed
  <2>5. up
    BY <1>1, JobWorks
  <2>6. QED
    BY <1>1, <1>3, <2>1, <2>3, <2>4, <2>5, JobCapital
<1>4. QED
  BY <1>2, <1>3 DEF Gate

\* The signature turns the job's commitment into the transaction's.
LEMMA PostSignCapital ==
    ASSUME RoutingInv, CapitalInv, NEW j \in Job, PostSign(j)
    PROVE  CapitalInv'
<1> DEFINE new == Len(txs) + 1
<1>1. /\ At(j, "post")
      /\ job' = [job EXCEPT ![j] = [pc |-> "wait", intent |-> job[j].intent, solver |-> job[j].solver,
                                    ref |-> Len(txs) + 1, due |-> 0]]
      /\ UNCHANGED <<now, book, lock, mined, crashes, up>>
  BY DEF PostSign
<1>2. PICK i \in job[j].intent :
        /\ txs' = Append(txs, [solver |-> job[j].solver, intent |-> i, st |-> "signed"])
        /\ setArbitrumStage(i, "posting_collateral", job[j].solver)
  BY DEF PostSign
<1>3. i \in Intent /\ On(j, i) /\ job[j].solver \in Solver /\ up
  BY <1>1, <1>2, JobWorks DEF RoutingInv, JobsHoldTheirs
<1>4. /\ \A l \in Job : l # j => job'[l] = job[l] /\ ~On(l, i)
      /\ job'[j].pc = "wait" /\ job'[j].ref = new
  BY <1>1, <1>3 DEF RoutingInv, TypeOK, OneJobPerIntent
<1>5. txs \in Seq(TxRecord) /\ ledger \in [Intent -> Entry]
  BY DEF RoutingInv, TypeOK
<1>6. /\ DOMAIN txs' = DOMAIN txs \cup {new}
      /\ \A n \in DOMAIN txs : txs'[n] = txs[n] /\ n < new /\ n # new
      /\ txs'[new].solver = job[j].solver /\ txs'[new].intent = i
  <2>1. [solver |-> job[j].solver, intent |-> i, st |-> "signed"] \in TxRecord
    BY <1>3 DEF TxRecord, TxState
  <2>2. QED
    BY <1>2, <1>5, <2>1
<1>7. new \in Nat
  BY <1>5
<1> HIDE DEF new
<1>8. \A n \in DOMAIN mined : mined[n].intent # i
  BY <1>1, <1>3, NothingMined
<1>9. \A n \in DOMAIN mined : ledger'[mined[n].intent] = ledger[mined[n].intent]
  <2>1. \A n \in DOMAIN mined : mined[n].intent \in Intent
    BY MinedIsOver DEF CapitalInv
  <2>2. QED
    BY <1>2, <1>5, <1>8, <2>1 DEF setArbitrumStage
<1>10. WaitsForLast'
  <2> SUFFICES ASSUME NEW l \in Job, job'[l].pc = "wait",
                      NEW m \in DOMAIN txs', txs'[m].intent = txs'[job'[l].ref].intent
               PROVE  m <= job'[l].ref
    BY DEF WaitsForLast
  <2>1. CASE l = j
    <3>1. \A n \in DOMAIN txs : n \in Nat /\ n <= new
      BY <1>5, <1>6, <1>7
    <3>2. new <= new
      BY <1>7
    <3>3. QED
      BY <1>4, <1>6, <2>1, <3>1, <3>2
  <2>2. CASE l # j
    <3>1. At(l, "wait") /\ job'[l] = job[l] /\ ~On(l, i)
      BY <1>4, <2>2
    <3>2. job[l].ref \in DOMAIN txs
      BY <3>1 DEF RoutingInv, TypeOK
    <3>3. txs[job[l].ref].intent # i
      BY <3>1 DEF RoutingInv, JobsHoldTheirs
    <3>4. m \in DOMAIN txs /\ txs[m].intent = txs[job[l].ref].intent
      BY <1>6, <3>1, <3>2, <3>3
    <3>5. QED
      BY <3>1, <3>4 DEF CapitalInv, WaitsForLast
  <2>3. QED
    BY <2>1, <2>2
<1>11. ASSUME NEW s \in Solver, NEW k \in Intent, Committed(s, k)' PROVE Committed(s, k)
  <2>1. CASE \E l \in Job : job'[l].pc \in {"gate", "post"} /\ job'[l].intent = {k} /\ job'[l].solver = s
    BY <1>4, <2>1 DEF Committed
  <2>2. CASE \E n \in DOMAIN txs' : /\ txs'[n].st \in {"signed", "mempool"}
                                    /\ txs'[n].solver = s /\ txs'[n].intent = k
    <3>1. PICK n \in DOMAIN txs' : /\ txs'[n].st \in {"signed", "mempool"}
                                   /\ txs'[n].solver = s /\ txs'[n].intent = k
      BY <2>2
    <3>2. CASE n = new
      BY <1>1, <1>3, <1>6, <3>1, <3>2 DEF Committed
    <3>3. CASE n \in DOMAIN txs
      BY <1>6, <3>1, <3>3 DEF Committed
    <3>4. QED
      BY <1>6, <3>2, <3>3
  <2>3. QED
    BY <1>11, <2>1, <2>2 DEF Committed
<1>12. \A k \in Job : job'[k].pc = "decide" => At(k, "decide") /\ job'[k] = job[k]
  BY <1>4
<1>13. QED
  BY <1>1, <1>3, <1>6, <1>8, <1>9, <1>10, <1>11, <1>12, JobCapital

LEMMA BroadcastCapital ==
    ASSUME RoutingInv, CapitalInv, NEW j \in Job, Broadcast(j)
    PROVE  CapitalInv'
<1>1. /\ At(j, "wait") /\ txs[job[j].ref].st = "signed"
      /\ txs' = [txs EXCEPT ![job[j].ref].st = "mempool"]
      /\ UNCHANGED <<now, ledger, book, lock, job, mined, crashes, up>>
  BY DEF Broadcast
<1>2. /\ txs \in Seq(TxRecord) /\ job[j].ref \in DOMAIN txs /\ "mempool" \in TxState
      /\ \A k \in Job : At(k, "wait") => job[k].ref \in DOMAIN txs
  BY <1>1 DEF RoutingInv, TypeOK, TxState
<1>3. /\ DOMAIN txs' = DOMAIN txs
      /\ \A m \in DOMAIN txs : m # job[j].ref => txs'[m] = txs[m]
      /\ \A m \in DOMAIN txs : txs'[m].intent = txs[m].intent /\ txs'[m].solver = txs[m].solver
  BY <1>1, <1>2, TxMoves
<1>4. WaitsForLast'
  BY <1>1, <1>2, <1>3, WaitsKept DEF CapitalInv
<1>5. \A s \in Solver, k \in Intent : Committed(s, k)' => Committed(s, k)
  BY <1>1, <1>3 DEF Committed
<1>6. up
  BY <1>1, JobWorks
<1>7. QED
  BY <1>1, <1>3, <1>4, <1>5, <1>6, JobCapital

LEMMA PostFailsCapital ==
    ASSUME RoutingInv, CapitalInv, ~MayLoseReceipt, NEW j \in Job, PostFails(j)
    PROVE  CapitalInv'
<1>1. job[j].pc \in Working /\ Fails(j) /\ UNCHANGED <<now, lock, mined, crashes, up>>
  BY DEF PostFails
<1>2. CASE /\ At(j, "wait") /\ txs[job[j].ref].st = "signed"
           /\ txs' = [txs EXCEPT ![job[j].ref].st = "dropped"]
  <2>1. txs \in Seq(TxRecord) /\ job[j].ref \in DOMAIN txs /\ "dropped" \in TxState
    BY <1>2 DEF RoutingInv, TypeOK, TxState
  <2>2. /\ DOMAIN txs' = DOMAIN txs
        /\ txs'[job[j].ref].st = "dropped"
        /\ \A m \in DOMAIN txs : m # job[j].ref => txs'[m] = txs[m]
        /\ \A m \in DOMAIN txs : txs'[m].intent = txs[m].intent /\ txs'[m].solver = txs[m].solver
    BY <1>2, <2>1, TxMoves
  <2>3. QED
    BY <1>1, <1>2, <2>2, FailsCapital
<1>3. CASE txs' = txs /\ (At(j, "wait") => txs[job[j].ref].st = "reverted")
  BY <1>1, <1>3, FailsCapital
<1>4. QED
  BY <1>2, <1>3 DEF PostFails

\* The receipt: the reservation goes on hold, longer than the collateral can be missed.
LEMMA PostSucceedsCapital ==
    ASSUME RoutingInv, CapitalInv, NEW j \in Job, PostSucceeds(j)
    PROVE  CapitalInv'
<1>1. /\ At(j, "wait") /\ Finish(j)
      /\ UNCHANGED <<now, lock, txs, mined, crashes, up>>
  BY DEF PostSucceeds
<1>2. PICK i \in job[j].intent : /\ holdFor(job[j].solver, i)
                                 /\ setArbitrumStage(i, "collateral_posted", ledger[i].solver)
  BY DEF PostSucceeds
<1>3. i \in Intent /\ On(j, i) /\ up
  BY <1>1, <1>2, JobWorks DEF RoutingInv, JobsHoldTheirs
<1>4. job'[j].pc = "idle" /\ \A l \in Job : l # j => job'[l] = job[l]
  BY <1>1 DEF RoutingInv, TypeOK, Finish
<1>5. /\ \A k \in Intent : k # i => ledger'[k] = ledger[k]
      /\ ledger'[i].stage = "collateral_posted" /\ ledger'[i].solver = ledger[i].solver
  BY <1>2, <1>3 DEF RoutingInv, TypeOK, setArbitrumStage
<1>6. \A r \in book : r.intent # i => r \in book'
  BY <1>2 DEF holdFor, Of
<1>7. PICK held \in book' : /\ held.solver = job[j].solver /\ held.intent = i
                            /\ held.release = now + Hold
  <2>1. PICK r \in book : r.solver = job[j].solver /\ r.intent = i /\ r.release = Pending
    BY <1>1, <1>3 DEF RoutingInv, JobsHoldTheirs
  <2>2. r \in Reservation
    BY <2>1 DEF RoutingInv, TypeOK
  <2> DEFINE q == [r EXCEPT !.release = now + Hold]
  <2>3. q \in book'
    BY <1>2, <2>1 DEF holdFor, Of
  <2>4. q.solver = job[j].solver /\ q.intent = i /\ q.release = now + Hold
    BY <2>1, <2>2 DEF Reservation
  <2>5. QED
    BY <2>3, <2>4
<1>8. now \in Nat /\ Hold \in Nat /\ now + Hold # Pending
  BY RoutingAssumption DEF RoutingInv, TypeOK, Pending
<1>9. MinedIsKnown'
  <2> SUFFICES ASSUME NEW n \in DOMAIN mined
               PROVE  LET s == mined[n].solver
                          k == mined[n].intent
                      IN  /\ mined[n].at <= now
                          /\ ledger'[k].solver = s
                          /\ \E m \in DOMAIN txs : /\ txs[m].intent = k /\ txs[m].st = "success"
                                                   /\ \A l \in DOMAIN txs : txs[l].intent = k => l <= m
                          /\ \/ ledger'[k].stage = "posting_collateral"
                             \/ /\ ledger'[k].stage = "collateral_posted"
                                /\ \/ ~up
                                   \/ \E r \in book' : /\ r.solver = s /\ r.intent = k
                                                       /\ r.release # Pending /\ r.release >= mined[n].at + Hold
                                   \/ /\ mined[n].at + Lag <= now
                                      /\ \A l \in Job : job'[l].pc = "decide" => n <= job'[l].ref
    BY <1>1 DEF MinedIsKnown
  <2> DEFINE s == mined[n].solver
             k == mined[n].intent
  <2>1. /\ mined[n].at <= now /\ ledger[k].solver = s
        /\ \E m \in DOMAIN txs : /\ txs[m].intent = k /\ txs[m].st = "success"
                                 /\ \A l \in DOMAIN txs : txs[l].intent = k => l <= m
        /\ \/ ledger[k].stage = "posting_collateral"
           \/ /\ ledger[k].stage = "collateral_posted"
              /\ \/ ~up
                 \/ \E r \in book : /\ r.solver = s /\ r.intent = k
                                    /\ r.release # Pending /\ r.release >= mined[n].at + Hold
                 \/ /\ mined[n].at + Lag <= now
                    /\ \A l \in Job : At(l, "decide") => n <= job[l].ref
    BY DEF CapitalInv, MinedIsKnown
  <2>2. mined[n].at \in Nat /\ k \in Intent
    BY MinedIsOver DEF CapitalInv
  <2>3. CASE k = i
    <3>1. s = job[j].solver
      BY <1>1, <1>3, <2>1, <2>3 DEF RoutingInv, JobsHoldTheirs
    <3>2. held.release # Pending /\ held.release >= mined[n].at + Hold
      BY <1>7, <1>8, <2>1, <2>2
    <3>3. QED
      BY <1>5, <1>7, <2>1, <2>3, <3>1, <3>2
  <2>4. CASE k # i
    <3>1. ledger'[k] = ledger[k]
      BY <1>5, <2>2, <2>4
    <3>2. \A r \in book : r.intent = k => r \in book'
      BY <1>6, <2>4
    <3>3. \A l \in Job : job'[l].pc = "decide" => At(l, "decide") /\ job'[l] = job[l]
      BY <1>4
    <3>4. QED
      BY <2>1, <3>1, <3>2, <3>3
  <2>5. QED
    BY <2>3, <2>4
<1>10. ReadsAreFresh'
  BY <1>1, <1>4, ReadsKept DEF CapitalInv
<1>11. WaitsForLast'
  <2>1. \A k \in Job : At(k, "wait") => job[k].ref \in DOMAIN txs
    BY DEF RoutingInv, TypeOK
  <2>2. QED
    BY <1>1, <1>4, <2>1, WaitsKept DEF CapitalInv
<1>12. EmptyAtBoot'
  BY <1>1, <1>3 DEF EmptyAtBoot
<1>13. ExposureFits'
  <2>1. \A s \in Solver, k \in Intent : Committed(s, k)' => Committed(s, k)
    BY <1>1, <1>4 DEF Committed
  <2>2. \A s \in Solver : Promised(s)' \subseteq Promised(s) /\ MinedFor(s, Len(mined))' = MinedFor(s, Len(mined))
    BY <1>1, <2>1 DEF Promised, MinedFor
  <2>3. QED
    BY <2>2, ExposureKept DEF CapitalInv
<1>14. QED
  BY <1>9, <1>10, <1>11, <1>12, <1>13 DEF CapitalInv

\* A selection's reads: what they miss is younger than the reservations that hold it.
LEMMA ReadsCapital ==
    ASSUME RoutingInv, CapitalInv, HoldSuffices, NEW j \in Job, Reads(j)
    PROVE  CapitalInv'
<1>1. /\ At(j, "enter") /\ lock = NoJob
      /\ UNCHANGED <<now, ledger, book, txs, mined, crashes, up>>
  BY DEF Reads
<1>2. PICK k \in View :
        job' = [job EXCEPT ![j] = [pc |-> "decide", intent |-> job[j].intent, solver |-> NoSolver,
                                     ref |-> k, due |-> now + Patience]]
  BY DEF Reads
<1>3. /\ job'[j].pc = "decide" /\ job'[j].ref = k /\ job'[j].due = now + Patience
      /\ \A l \in Job : l # j => job'[l] = job[l] /\ ~At(l, "decide")
  BY <1>1, <1>2, RoutingAssumption DEF RoutingInv, TypeOK
<1>4. /\ now \in Nat /\ Patience \in Nat /\ Hold \in Nat /\ Lag \in Nat
      /\ DOMAIN mined = 1 .. Len(mined) /\ Len(mined) \in Nat
      /\ k \in Nat /\ k <= Len(mined)
      /\ \A n \in DOMAIN mined : n \in Nat /\ mined[n].at \in Nat
  BY <1>2, RoutingAssumption, MinedIsOver DEF View, RoutingInv, TypeOK, CapitalInv
<1>5. \A n \in DOMAIN mined : n > k => now < mined[n].at + Lag
  BY <1>2 DEF View
<1>6. MinedIsKnown'
  <2> SUFFICES ASSUME NEW n \in DOMAIN mined, mined[n].at + Lag <= now
               PROVE  \A l \in Job : job'[l].pc = "decide" => n <= job'[l].ref
    BY <1>1 DEF CapitalInv, MinedIsKnown
  <2>1. n <= k
    BY <1>4, <1>5
  <2>2. QED
    BY <1>3, <2>1
<1>7. ReadsAreFresh'
  <2>1. \A n \in DOMAIN mined : n > k => now + Patience < mined[n].at + Hold
    BY <1>4, <1>5 DEF HoldSuffices
  <2>2. now <= now + Patience
    BY <1>4
  <2> SUFFICES ASSUME NEW l \in Job, job'[l].pc = "decide"
               PROVE  /\ now <= job'[l].due /\ job'[l].due <= now + Patience
                      /\ job'[l].ref <= Len(mined)
                      /\ \A n \in DOMAIN mined : n > job'[l].ref => job'[l].due < mined[n].at + Hold
    BY <1>1 DEF ReadsAreFresh
  <2>3. l = j
    BY <1>3
  <2>4. QED
    BY <1>3, <1>4, <2>1, <2>2, <2>3
<1>8. WaitsForLast'
  BY <1>1, <1>3 DEF CapitalInv, WaitsForLast
<1>9. EmptyAtBoot'
  BY <1>1 DEF CapitalInv, EmptyAtBoot
<1>10. ExposureFits'
  <2>1. \A s \in Solver, i \in Intent : Committed(s, i)' => Committed(s, i)
    BY <1>1, <1>3 DEF Committed
  <2>2. \A s \in Solver : Promised(s)' \subseteq Promised(s) /\ MinedFor(s, Len(mined))' = MinedFor(s, Len(mined))
    BY <1>1, <2>1 DEF Promised, MinedFor
  <2>3. QED
    BY <2>2, ExposureKept DEF CapitalInv
<1>11. QED
  BY <1>6, <1>7, <1>8, <1>9, <1>10 DEF CapitalInv

\* Everything of a solver's capital that is promised or taken is in what its selection
\* subtracts: mined collateral the reads missed is still in the book, or in flight.
LEMMA ExposureIsCounted ==
    ASSUME RoutingInv, CapitalInv, NEW j \in Job, At(j, "decide"), NEW s \in Solver,
           NEW k \in Promised(s) \cup MinedFor(s, Len(mined))
    PROVE  \/ k \in MinedFor(s, job[j].ref)
           \/ k \in ReservedFor(s)
           \/ k \in InFlight /\ ledger[k].solver = s
<1>1. /\ up /\ now <= job[j].due /\ now \in Nat /\ Hold \in Nat
      /\ \A n \in DOMAIN mined : n > job[j].ref => job[j].due < mined[n].at + Hold
      /\ job[j].due \in Nat /\ job[j].ref \in Nat
      /\ DOMAIN mined = 1 .. Len(mined) /\ Len(mined) \in Nat
  <2>1. job[j] \in JobRecord /\ mined \in Seq([solver : Solver, intent : Intent, at : Nat]) /\ now \in Nat
    BY DEF RoutingInv, TypeOK
  <2>2. job[j].due \in Nat /\ job[j].ref \in Nat
    BY <2>1 DEF JobRecord
  <2>3. up
    BY JobWorks
  <2>4. /\ now <= job[j].due
        /\ \A n \in DOMAIN mined : n > job[j].ref => job[j].due < mined[n].at + Hold
    BY DEF CapitalInv, ReadsAreFresh
  <2>5. DOMAIN mined = 1 .. Len(mined) /\ Len(mined) \in Nat
    BY <2>1
  <2>6. QED
    BY <2>1, <2>2, <2>3, <2>4, <2>5, RoutingAssumption
<1>2. \A r \in book : r.solver = s /\ r.intent = k /\ ~Lapsed(r) => k \in ReservedFor(s)
  BY DEF ReservedFor
<1>3. CASE k \in Promised(s)
  <2>1. k \in Intent /\ Committed(s, k)
    BY <1>3 DEF Promised
  <2>2. CASE \E r \in book : r.solver = s /\ r.intent = k /\ r.release = Pending
    BY <1>2, <2>2 DEF Lapsed
  <2>3. QED
    BY <2>1, <2>2, CommitmentsHeld DEF CommitmentsCounted
<1>4. CASE k \in MinedFor(s, Len(mined))
  <2>1. PICK n \in DOMAIN mined : mined[n].solver = s /\ mined[n].intent = k
    BY <1>1, <1>4 DEF MinedFor
  <2>2. /\ k \in Intent /\ mined[n].at \in Nat /\ n \in Nat
        /\ \A l \in Job : On(l, k) => At(l, "wait")
    BY <2>1, MinedIsOver DEF CapitalInv
  <2>3. CASE n <= job[j].ref
    <3>1. n \in {m \in 1 .. job[j].ref : mined[m].solver = s}
      BY <1>1, <2>1, <2>2, <2>3
    <3>2. QED
      BY <2>1, <3>1 DEF MinedFor
  <2>4. CASE ~(n <= job[j].ref)
    <3>1. now < mined[n].at + Hold
      BY <1>1, <2>2, <2>4
    <3>2. /\ ledger[k].solver = s
          /\ \/ ledger[k].stage = "posting_collateral"
             \/ \E r \in book : /\ r.solver = s /\ r.intent = k
                                /\ r.release # Pending /\ r.release >= mined[n].at + Hold
      BY <1>1, <2>1, <2>4 DEF CapitalInv, MinedIsKnown
    <3>3. CASE \E r \in book : /\ r.solver = s /\ r.intent = k
                               /\ r.release # Pending /\ r.release >= mined[n].at + Hold
      <4>1. PICK r \in book : /\ r.solver = s /\ r.intent = k
                              /\ r.release # Pending /\ r.release >= mined[n].at + Hold
        BY <3>3
      <4>2. r \in Reservation
        BY DEF RoutingInv, TypeOK
      <4>3. r.release \in Nat
        BY <4>1, <4>2 DEF Reservation
      <4>4. ~(now >= r.release)
        BY <1>1, <2>2, <3>1, <4>1, <4>3
      <4>5. QED
        BY <1>2, <4>1, <4>4 DEF Lapsed
    <3>4. CASE ledger[k].stage = "posting_collateral" /\ ~hasIntent(k)
      BY <2>2, <3>2, <3>4 DEF InFlight
    <3>5. CASE ledger[k].stage = "posting_collateral" /\ hasIntent(k)
      <4>1. PICK r \in book : r.intent = k
        BY <3>5 DEF hasIntent
      <4>2. r.release = Pending
        BY <3>5, <4>1 DEF RoutingInv, HoldsArePosted
      <4>3. PICK l \in Job : job[l].pc \in Working /\ On(l, k) /\ job[l].solver = r.solver
        BY <4>1, <4>2 DEF RoutingInv, NoLeakedReservation
      <4>4. r.solver = s
        BY <2>2, <3>2, <4>3 DEF RoutingInv, JobsHoldTheirs
      <4>5. QED
        BY <1>2, <4>1, <4>2, <4>4 DEF Lapsed
    <3>6. QED
      BY <3>2, <3>3, <3>4, <3>5
  <2>5. QED
    BY <2>3, <2>4
<1>5. QED
  BY <1>3, <1>4

\* So a selection that finds the need of one more intent available does not overcommit.
LEMMA RoomForOneMore ==
    ASSUME RoutingInv, CapitalInv, NEW j \in Job, At(j, "decide"), NEW s \in Solver, NEW i \in Intent,
           Available(s, Capital[s] - Spent(s, job[j].ref)) >= Need(i)
    PROVE  NeedOf(Promised(s) \cup MinedFor(s, Len(mined)) \cup {i}) <= Capital[s]
<1> DEFINE M == MinedFor(s, job[j].ref)
           R == ReservedFor(s)
           F == {k \in InFlight : ledger[k].solver = s}
           old == Promised(s) \cup MinedFor(s, Len(mined))
<1>1. old \subseteq M \cup R \cup F
  BY ExposureIsCounted
<1>2. M \in SUBSET Intent /\ R \in SUBSET Intent /\ F \in SUBSET Intent
  <2>1. job[j].ref \in 0 .. Len(mined)
    <3>1. job[j] \in JobRecord /\ Len(mined) \in Nat
      BY DEF RoutingInv, TypeOK
    <3>2. QED
      BY <3>1 DEF CapitalInv, ReadsAreFresh, JobRecord
  <2>2. M \in SUBSET Intent
    BY <2>1, ExposureTypes DEF CapitalInv
  <2>3. \A r \in book : r.intent \in Intent
    BY DEF RoutingInv, TypeOK, Reservation
  <2>4. QED
    BY <2>2, <2>3 DEF ReservedFor, InFlight
<1>3. Capital[s] - NeedOf(M) - NeedOf(R) - NeedOf(F) >= Need(i)
  BY DEF Available, Spent, reservedWei
<1> HIDE DEF M, R, F, old
<1>4. NeedOf(old \cup {i}) <= NeedOf((M \cup R) \cup (F \cup {i}))
  <2>1. (M \cup R) \cup (F \cup {i}) \in SUBSET Intent /\ old \cup {i} \in SUBSET ((M \cup R) \cup (F \cup {i}))
    BY <1>1, <1>2
  <2>2. QED
    BY <2>1, NeedMonotone
<1>5. NeedOf((M \cup R) \cup (F \cup {i})) <= NeedOf(M \cup R) + NeedOf(F \cup {i})
  <2>1. (M \cup R) \in SUBSET Intent /\ (F \cup {i}) \in SUBSET Intent
    BY <1>2
  <2>2. QED
    BY <2>1, NeedOfUnion
<1>6. NeedOf(M \cup R) <= NeedOf(M) + NeedOf(R)
  BY <1>2, NeedOfUnion
<1>7. NeedOf(F \cup {i}) <= NeedOf(F) + NeedOf({i})
  <2>1. {i} \in SUBSET Intent
    OBVIOUS
  <2>2. QED
    BY <1>2, <2>1, NeedOfUnion
<1>8. NeedOf({i}) = Need(i) /\ Need(i) \in Nat /\ Capital[s] \in Nat
  BY NeedTypes, RoutingAssumption
<1>9. /\ NeedOf(M) \in Nat /\ NeedOf(R) \in Nat /\ NeedOf(F) \in Nat
      /\ NeedOf(M \cup R) \in Nat /\ NeedOf(F \cup {i}) \in Nat
      /\ NeedOf((M \cup R) \cup (F \cup {i})) \in Nat /\ NeedOf(old \cup {i}) \in Nat
  <2>1. /\ M \cup R \in SUBSET Intent /\ F \cup {i} \in SUBSET Intent
        /\ (M \cup R) \cup (F \cup {i}) \in SUBSET Intent /\ old \cup {i} \in SUBSET Intent
    BY <1>1, <1>2
  <2>2. QED
    BY <1>2, <2>1, NeedTypes
<1>10. NeedOf(old \cup {i}) <= Capital[s]
  BY <1>3, <1>4, <1>5, <1>6, <1>7, <1>8, <1>9
<1>11. QED
  BY <1>10 DEF old

\* After a decision no selection is under way: a hold it purged had outlasted the lag.
LEMMA PurgeCapital ==
    ASSUME RoutingInv, CapitalInv, HoldSuffices, NEW j \in Job, NEW i \in Intent, On(j, i), At(j, "decide"),
           \A l \in Job : l # j => job'[l] = job[l], job'[j].pc \in {"idle", "gate"},
           \A k \in Intent : k # i => ledger'[k] = ledger[k],
           \A r \in book : r.release # Pending /\ r.intent # i /\ ~Lapsed(r) => r \in book',
           UNCHANGED <<now, mined, txs, up>>
    PROVE  MinedIsKnown' /\ ReadsAreFresh' /\ WaitsForLast' /\ EmptyAtBoot'
<1>1. \A l \in Job : job'[l].pc # "decide"
  BY DEF RoutingInv, TypeOK
<1>2. up /\ \A n \in DOMAIN mined : mined[n].intent # i
  BY JobWorks, NothingMined
<1>3. MinedIsKnown'
  <2> SUFFICES ASSUME NEW n \in DOMAIN mined
               PROVE  LET s == mined[n].solver
                          k == mined[n].intent
                      IN  /\ mined[n].at <= now
                          /\ ledger'[k].solver = s
                          /\ \E m \in DOMAIN txs : /\ txs[m].intent = k /\ txs[m].st = "success"
                                                   /\ \A l \in DOMAIN txs : txs[l].intent = k => l <= m
                          /\ \/ ledger'[k].stage = "posting_collateral"
                             \/ /\ ledger'[k].stage = "collateral_posted"
                                /\ \/ ~up
                                   \/ \E r \in book' : /\ r.solver = s /\ r.intent = k
                                                       /\ r.release # Pending /\ r.release >= mined[n].at + Hold
                                   \/ mined[n].at + Lag <= now
    BY <1>1 DEF MinedIsKnown
  <2> DEFINE s == mined[n].solver
             k == mined[n].intent
  <2>1. /\ mined[n].at <= now /\ ledger[k].solver = s
        /\ \E m \in DOMAIN txs : /\ txs[m].intent = k /\ txs[m].st = "success"
                                 /\ \A l \in DOMAIN txs : txs[l].intent = k => l <= m
        /\ \/ ledger[k].stage = "posting_collateral"
           \/ /\ ledger[k].stage = "collateral_posted"
              /\ \/ \E r \in book : /\ r.solver = s /\ r.intent = k
                                    /\ r.release # Pending /\ r.release >= mined[n].at + Hold
                 \/ mined[n].at + Lag <= now
    BY <1>2 DEF CapitalInv, MinedIsKnown
  <2>2. mined[n].at \in Nat /\ ledger'[k] = ledger[k] /\ k # i
    BY <1>2, MinedIsOver DEF CapitalInv
  <2>3. ASSUME NEW r \in book, r.intent = k, r.release # Pending, r.release >= mined[n].at + Hold
        PROVE  r \in book' \/ mined[n].at + Lag <= now
    <3>1. CASE ~Lapsed(r)
      BY <2>2, <2>3, <3>1
    <3>2. CASE Lapsed(r)
      <4>1. r \in Reservation
        BY DEF RoutingInv, TypeOK
      <4>2. r.release \in Nat /\ now >= r.release
        BY <2>3, <3>2, <4>1 DEF Reservation, Lapsed
      <4>3. /\ now \in Nat /\ Hold \in Nat /\ Lag \in Nat /\ Patience \in Nat
            /\ Lag + Patience <= Hold
        BY RoutingAssumption DEF RoutingInv, TypeOK, HoldSuffices
      <4>4. QED
        BY <2>2, <2>3, <4>2, <4>3
    <3>3. QED
      BY <3>1, <3>2
  <2>4. QED
    BY <2>1, <2>2, <2>3
<1>4. ReadsAreFresh'
  BY <1>1 DEF ReadsAreFresh
<1>5. WaitsForLast'
  <2>1. \A l \in Job : job'[l].pc = "wait" => At(l, "wait") /\ job'[l] = job[l] /\ job[l].ref \in DOMAIN txs
    BY DEF RoutingInv, TypeOK
  <2>2. QED
    BY <2>1, WaitsKept DEF CapitalInv
<1>6. EmptyAtBoot'
  BY <1>2 DEF EmptyAtBoot
<1>7. QED
  BY <1>3, <1>4, <1>5, <1>6

\* The decision: the solver selected has the need of the intent beyond its exposure.
LEMMA DecideCapital ==
    ASSUME RoutingInv, CapitalInv, HoldSuffices, NEW j \in Job, Decide(j)
    PROVE  CapitalInv'
<1>1. PICK i \in Intent : On(j, i)
  BY DEF RoutingInv, JobsHoldTheirs, Decide
<1>2. /\ At(j, "decide") /\ lock' = NoJob
      /\ UNCHANGED <<now, txs, mined, crashes, up>>
  BY DEF Decide
<1>3. PICK kept \in SUBSET book :
        /\ \A r \in book : ~Lapsed(r) => r \in kept
        /\ \/ /\ book' = kept
              /\ setArbitrumStage(i, "collateral_failed", ledger[i].solver)
              /\ Finish(j)
           \/ \E s \in Solver :
              /\ Available(s, Capital[s] - Spent(s, job[j].ref)) >= Need(i)
              /\ reserve(kept, s, i)
              /\ job' = [job EXCEPT ![j] = [pc |-> "gate", intent |-> {i}, solver |-> s, ref |-> 0, due |-> 0]]
              /\ UNCHANGED ledger
  <2>1. PICK balances \in SUBSET Solver, answered \in SUBSET Solver, k \in job[j].intent :
          LET avail == [s \in Solver |-> Available(s, Capital[s] - Spent(s, job[j].ref))]
              able == Eligible(answered, k, avail)
              kept == {r \in book : ~(Lapsed(r) /\ r.solver \in balances)}
          IN  \/ /\ book' = kept
                 /\ setArbitrumStage(k, "collateral_failed", ledger[k].solver)
                 /\ Finish(j)
              \/ \E s \in able :
                 /\ reserve(kept, s, k)
                 /\ job' = [job EXCEPT ![j] = [pc |-> "gate", intent |-> {k}, solver |-> s, ref |-> 0, due |-> 0]]
                 /\ UNCHANGED ledger
    BY Zenon DEF Decide
  <2>2. k = i
    BY <1>1
  <2> DEFINE avail == [s \in Solver |-> Available(s, Capital[s] - Spent(s, job[j].ref))]
             kept == {r \in book : ~(Lapsed(r) /\ r.solver \in balances)}
  <2>3. \A s \in Eligible(answered, i, avail) :
          s \in Solver /\ Available(s, Capital[s] - Spent(s, job[j].ref)) >= Need(i)
    BY DEF Eligible
  <2>4. kept \in SUBSET book /\ \A r \in book : ~Lapsed(r) => r \in kept
    OBVIOUS
  <2>5. QED
    BY Zenon, <2>1, <2>2, <2>3, <2>4
<1>4. CASE /\ book' = kept
           /\ setArbitrumStage(i, "collateral_failed", ledger[i].solver)
           /\ Finish(j)
  <2>1. job'[j].pc = "idle" /\ \A l \in Job : l # j => job'[l] = job[l]
    BY <1>4 DEF Finish, RoutingInv, TypeOK
  <2>2. \A k \in Intent : k # i => ledger'[k] = ledger[k]
    BY <1>4 DEF setArbitrumStage, RoutingInv, TypeOK
  <2>3. MinedIsKnown' /\ ReadsAreFresh' /\ WaitsForLast' /\ EmptyAtBoot'
    BY <1>1, <1>2, <1>3, <1>4, <2>1, <2>2, PurgeCapital
  <2>4. \A s \in Solver, k \in Intent : Committed(s, k)' => Committed(s, k)
    BY <1>2, <2>1 DEF Committed
  <2>5. \A s \in Solver : Promised(s)' \subseteq Promised(s) /\ MinedFor(s, Len(mined))' = MinedFor(s, Len(mined))
    BY <1>2, <2>4 DEF Promised, MinedFor
  <2>6. ExposureFits'
    BY <2>5, ExposureKept DEF CapitalInv
  <2>7. QED
    BY <2>3, <2>6 DEF CapitalInv
<1>5. CASE \E s \in Solver :
              /\ Available(s, Capital[s] - Spent(s, job[j].ref)) >= Need(i)
              /\ reserve(kept, s, i)
              /\ job' = [job EXCEPT ![j] = [pc |-> "gate", intent |-> {i}, solver |-> s, ref |-> 0, due |-> 0]]
              /\ UNCHANGED ledger
  <2>1. PICK s \in Solver :
              /\ Available(s, Capital[s] - Spent(s, job[j].ref)) >= Need(i)
              /\ reserve(kept, s, i)
              /\ job' = [job EXCEPT ![j] = [pc |-> "gate", intent |-> {i}, solver |-> s, ref |-> 0, due |-> 0]]
              /\ UNCHANGED ledger
    BY <1>5
  <2>2. /\ job'[j].pc = "gate" /\ job'[j].solver = s /\ job'[j].intent = {i}
        /\ \A l \in Job : l # j => job'[l] = job[l]
    BY <2>1 DEF RoutingInv, TypeOK
  <2>3. \A r \in book : r.release # Pending /\ r.intent # i /\ ~Lapsed(r) => r \in book'
    BY <1>3, <2>1 DEF reserve, Of
  <2>4. \A k \in Intent : k # i => ledger'[k] = ledger[k]
    BY <2>1
  <2>5. MinedIsKnown' /\ ReadsAreFresh' /\ WaitsForLast' /\ EmptyAtBoot'
    BY <1>1, <1>2, <2>2, <2>3, <2>4, PurgeCapital
  <2>6. \A t \in Solver, k \in Intent : Committed(t, k)' => Committed(t, k) \/ (t = s /\ k = i)
    BY <1>2, <2>2 DEF Committed
  <2> DEFINE old(t) == Promised(t) \cup MinedFor(t, Len(mined))
             new(t) == Promised(t)' \cup MinedFor(t, Len(mined))'
  <2>7. \A t \in Solver : new(t) \subseteq (IF t = s THEN old(t) \cup {i} ELSE old(t))
    BY <1>2, <2>6 DEF Promised, MinedFor
  <2>8. \A t \in Solver : old(t) \in SUBSET Intent
    <3>1. Len(mined) \in 0 .. Len(mined)
      BY DEF RoutingInv, TypeOK
    <3>2. QED
      BY <3>1, ExposureTypes DEF CapitalInv
  <2>9. /\ \A t \in Solver : NeedOf(old(t)) <= Capital[t]
        /\ NeedOf(old(s) \cup {i}) <= Capital[s]
    BY <1>2, <2>1, RoomForOneMore DEF CapitalInv, ExposureFits
  <2> HIDE DEF old, new
  <2>10. ASSUME NEW t \in Solver PROVE NeedOf(new(t)) <= Capital[t]
    <3>1. PICK S \in SUBSET Intent : new(t) \in SUBSET S /\ NeedOf(S) <= Capital[t]
      <4>1. CASE t = s
        <5>1. old(t) \cup {i} \in SUBSET Intent
          BY <2>8
        <5>2. new(t) \in SUBSET (old(t) \cup {i}) /\ NeedOf(old(t) \cup {i}) <= Capital[t]
          BY <2>7, <2>9, <4>1
        <5>3. QED
          BY <5>1, <5>2
      <4>2. CASE t # s
        BY <2>7, <2>8, <2>9, <4>2
      <4>3. QED
        BY <4>1, <4>2
    <3>2. NeedOf(new(t)) <= NeedOf(S) /\ NeedOf(new(t)) \in Nat /\ NeedOf(S) \in Nat
      <4>1. new(t) \in SUBSET Intent
        BY <3>1
      <4>2. QED
        BY <3>1, <4>1, NeedMonotone, NeedTypes
    <3>3. QED
      BY <3>1, <3>2, RoutingAssumption
  <2>11. ExposureFits'
    BY <2>10 DEF ExposureFits, new
  <2>12. QED
    BY <2>5, <2>11 DEF CapitalInv
<1>6. QED
  BY <1>3, <1>4, <1>5

\* Mined collateral was committed: the wallet loses what the exposure already counts.
LEMMA MineCapital ==
    ASSUME RoutingInv, CapitalInv, HoldSuffices, NEW n \in DOMAIN txs, Mine(n)
    PROVE  CapitalInv'
<1> DEFINE Lock == [solver : Solver, intent : Intent, at : Nat]
           s == txs[n].solver
           i == txs[n].intent
           len == Len(mined)
           new == [solver |-> s, intent |-> i, at |-> now]
<1>1. txs[n].st = "mempool" /\ UNCHANGED <<now, ledger, book, lock, job, crashes, up>>
  BY DEF Mine
<1>2. txs \in Seq(TxRecord) /\ mined \in Seq(Lock) /\ now \in Nat
  BY DEF RoutingInv, TypeOK
<1>3. s \in Solver /\ i \in Intent /\ n \in Nat
  <2>1. txs[n] \in TxRecord
    BY <1>2
  <2>2. QED
    BY <1>2, <2>1 DEF TxRecord
<1>4. PICK st \in {"success", "reverted"} :
        /\ txs' = [txs EXCEPT ![n].st = st]
        /\ mined' = IF st = "success" THEN Append(mined, new) ELSE mined
  BY DEF Mine
<1>5. /\ DOMAIN txs' = DOMAIN txs
      /\ txs'[n].st = st
      /\ \A m \in DOMAIN txs : m # n => txs'[m] = txs[m]
      /\ \A m \in DOMAIN txs : txs'[m].intent = txs[m].intent /\ txs'[m].solver = txs[m].solver
  <2>1. st \in TxState
    BY DEF TxState
  <2>2. QED
    BY <1>2, <1>4, <2>1, TxMoves
<1>6. /\ ledger[i].stage = "posting_collateral" /\ ledger[i].solver = s
      /\ \A m \in DOMAIN txs : txs[m].intent = i => m <= n
  <2>1. Live(n)
    BY <1>1
  <2>2. CASE \E j \in Job : At(j, "wait") /\ job[j].ref = n
    BY <2>1, <2>2 DEF RoutingInv, LiveIsKnown, JobsHoldTheirs
  <2>3. QED
    BY <2>1, <2>2 DEF RoutingInv, LiveIsKnown
<1>7. \A t \in Solver, k \in Intent : Committed(t, k)' => Committed(t, k)
  BY <1>1, <1>5 DEF Committed
<1>8. WaitsForLast'
  <2>1. \A k \in Job : At(k, "wait") => job[k].ref \in DOMAIN txs
    BY DEF RoutingInv, TypeOK
  <2>2. QED
    BY <1>1, <1>5, <2>1, WaitsKept DEF CapitalInv
<1>9. EmptyAtBoot'
  BY <1>1 DEF CapitalInv, EmptyAtBoot
<1>10. CASE st = "reverted"
  <2>1. mined' = mined
    BY <1>4, <1>10
  <2>2. \A m \in DOMAIN txs : txs[m].st = "success" => txs'[m].st = "success"
    BY <1>1, <1>5
  <2>3. MinedIsKnown'
    BY <1>1, <1>2, <1>5, <2>1, <2>2, MinedKept DEF CapitalInv
  <2>4. ReadsAreFresh'
    BY <1>1, <2>1, ReadsKept DEF CapitalInv
  <2>5. \A t \in Solver : Promised(t)' \subseteq Promised(t) /\ MinedFor(t, Len(mined))' = MinedFor(t, Len(mined))
    BY <1>7, <2>1 DEF Promised, MinedFor
  <2>6. ExposureFits'
    BY <2>5, ExposureKept DEF CapitalInv
  <2>7. QED
    BY <1>8, <1>9, <2>3, <2>4, <2>6 DEF CapitalInv
<1>11. CASE st = "success"
  <2>1. /\ Len(mined') = len + 1 /\ len \in Nat
        /\ DOMAIN mined = 1 .. len /\ DOMAIN mined' = 1 .. (len + 1)
        /\ \A k \in DOMAIN mined : mined'[k] = mined[k]
        /\ mined'[len + 1] = new
    <3>1. new \in Lock
      BY <1>2, <1>3
    <3>2. mined' = Append(mined, new)
      BY <1>4, <1>11
    <3> HIDE DEF new, Lock
    <3>3. QED
      BY <1>2, <3>1, <3>2
  <2>2. new.solver = s /\ new.intent = i /\ new.at = now
    OBVIOUS
  <2> HIDE DEF new, len
  <2>3. MinedIsKnown'
    <3> SUFFICES ASSUME NEW k \in DOMAIN mined'
                 PROVE  LET t == mined'[k].solver
                            g == mined'[k].intent
                        IN  /\ mined'[k].at <= now
                            /\ ledger[g].solver = t
                            /\ \E m \in DOMAIN txs' : /\ txs'[m].intent = g /\ txs'[m].st = "success"
                                                      /\ \A l \in DOMAIN txs' : txs'[l].intent = g => l <= m
                            /\ \/ ledger[g].stage = "posting_collateral"
                               \/ /\ ledger[g].stage = "collateral_posted"
                                  /\ \/ ~up
                                     \/ \E r \in book : /\ r.solver = t /\ r.intent = g
                                                        /\ r.release # Pending /\ r.release >= mined'[k].at + Hold
                                     \/ /\ mined'[k].at + Lag <= now
                                        /\ \A l \in Job : At(l, "decide") => k <= job[l].ref
      BY <1>1 DEF MinedIsKnown
    <3>1. CASE k = len + 1
      <4>1. \E m \in DOMAIN txs' : /\ txs'[m].intent = i /\ txs'[m].st = "success"
                                   /\ \A l \in DOMAIN txs' : txs'[l].intent = i => l <= m
        BY <1>5, <1>6, <1>11
      <4>2. now <= now
        BY <1>2
      <4>3. QED
        BY <1>6, <2>1, <2>2, <3>1, <4>1, <4>2
    <3>2. CASE k \in DOMAIN mined
      <4>1. mined'[k] = mined[k]
        BY <2>1, <3>2
      <4>2. PICK m \in DOMAIN txs : /\ txs[m].intent = mined[k].intent /\ txs[m].st = "success"
                                    /\ \A l \in DOMAIN txs : txs[l].intent = mined[k].intent => l <= m
        BY <3>2 DEF CapitalInv, MinedIsKnown
      <4>3. \E x \in DOMAIN txs' : /\ txs'[x].intent = mined[k].intent /\ txs'[x].st = "success"
                                   /\ \A l \in DOMAIN txs' : txs'[l].intent = mined[k].intent => l <= x
        BY <1>1, <1>5, <4>2
      <4>4. QED
        BY <3>2, <4>1, <4>3 DEF CapitalInv, MinedIsKnown
    <3>3. QED
      BY <2>1, <3>1, <3>2
  <2>4. ReadsAreFresh'
    <3> SUFFICES ASSUME NEW j \in Job, At(j, "decide")
                 PROVE  /\ now <= job[j].due /\ job[j].due <= now + Patience
                        /\ job[j].ref <= Len(mined')
                        /\ \A k \in DOMAIN mined' : k > job[j].ref => job[j].due < mined'[k].at + Hold
      BY <1>1 DEF ReadsAreFresh
    <3>1. job[j] \in JobRecord
      BY DEF RoutingInv, TypeOK
    <3>2. job[j].ref \in Nat /\ job[j].due \in Nat
      BY <3>1 DEF JobRecord
    <3>3. /\ now <= job[j].due /\ job[j].due <= now + Patience
          /\ job[j].ref <= len
          /\ \A k \in DOMAIN mined : k > job[j].ref => job[j].due < mined[k].at + Hold
      BY DEF CapitalInv, ReadsAreFresh, len
    <3>4. Patience \in Nat /\ Hold \in Nat /\ Patience < Hold
      BY RoutingAssumption DEF HoldSuffices
    <3>5. job[j].due < now + Hold
      BY <1>2, <3>2, <3>3, <3>4
    <3>6. \A k \in DOMAIN mined' : k > job[j].ref => job[j].due < mined'[k].at + Hold
      <4>1. \A k \in DOMAIN mined' : k \in DOMAIN mined \/ k = len + 1
        BY <2>1
      <4>2. QED
        BY <2>1, <2>2, <3>3, <3>5, <4>1
    <3>7. job[j].ref <= Len(mined')
      BY <2>1, <3>2, <3>3
    <3>8. QED
      BY <3>3, <3>6, <3>7
  <2>5. ASSUME NEW t \in Solver, NEW k \in Promised(t)' \cup MinedFor(t, Len(mined))'
        PROVE  k \in Promised(t) \cup MinedFor(t, Len(mined))
    <3>1. CASE k \in Promised(t)'
      BY <1>7, <3>1 DEF Promised
    <3>2. CASE k \in MinedFor(t, Len(mined))'
      <4>1. PICK m \in 1 .. (len + 1) : mined'[m].solver = t /\ mined'[m].intent = k
        BY <2>1, <3>2 DEF MinedFor
      <4>2. CASE m = len + 1
        <5>1. s = t /\ i = k
          BY <2>1, <2>2, <4>1, <4>2
        <5>2. Committed(t, k)
          BY <1>1, <5>1 DEF Committed
        <5>3. QED
          BY <1>3, <5>1, <5>2 DEF Promised
      <4>3. CASE m # len + 1
        <5>1. m \in 1 .. len /\ mined[m].solver = t /\ mined[m].intent = k
          BY <2>1, <4>1, <4>3
        <5>2. QED
          BY <5>1 DEF MinedFor, len
      <4>4. QED
        BY <4>2, <4>3
    <3>3. QED
      BY <2>5, <3>1, <3>2
  <2>6. ExposureFits'
    BY <2>5, ExposureKept DEF CapitalInv
  <2>7. QED
    BY <1>8, <1>9, <2>3, <2>4, <2>6 DEF CapitalInv
<1>12. QED
  BY <1>10, <1>11

LEMMA TickCapital ==
    ASSUME RoutingInv, CapitalInv, Tick
    PROVE  CapitalInv'
<1>1. /\ now' = now + 1 /\ \A j \in Job : At(j, "decide") => now < job[j].due
      /\ UNCHANGED <<ledger, book, lock, job, txs, mined, crashes, up>>
  BY DEF Tick
<1>2. now \in Nat /\ now' \in Nat /\ now' >= now /\ Patience \in Nat
  BY <1>1, RoutingAssumption DEF RoutingInv, TypeOK
<1>3. MinedIsKnown'
  BY <1>1, <1>2, MinedKept DEF CapitalInv
<1>4. ReadsAreFresh'
  <2>1. ASSUME NEW j \in Job, At(j, "decide")
        PROVE  now' <= job[j].due /\ job[j].due <= now' + Patience
    <3>1. job[j] \in JobRecord
      BY DEF RoutingInv, TypeOK
    <3>2. job[j].due \in Nat /\ now < job[j].due /\ job[j].due <= now + Patience
      BY <1>1, <2>1, <3>1 DEF JobRecord, CapitalInv, ReadsAreFresh
    <3>3. QED
      BY <1>1, <1>2, <3>2
  <2>2. QED
    BY <1>1, <2>1 DEF CapitalInv, ReadsAreFresh
<1>5. WaitsForLast' /\ EmptyAtBoot'
  BY <1>1 DEF CapitalInv, WaitsForLast, EmptyAtBoot
<1>6. ExposureFits'
  <2>1. \A s \in Solver : Promised(s)' \subseteq Promised(s) /\ MinedFor(s, Len(mined))' = MinedFor(s, Len(mined))
    BY <1>1 DEF Promised, MinedFor, Committed
  <2>2. QED
    BY <2>1, ExposureKept DEF CapitalInv
<1>7. QED
  BY <1>3, <1>4, <1>5, <1>6 DEF CapitalInv

\* A crash leaves the chain and the ledger, and no job to commit anything.
LEMMA CrashCapital ==
    ASSUME RoutingInv, CapitalInv, Crash
    PROVE  CapitalInv'
<1>1. /\ book' = {} /\ up' = FALSE /\ job' = [j \in Job |-> Idle]
      /\ txs' = [n \in DOMAIN txs |-> IF txs[n].st = "signed" THEN [txs[n] EXCEPT !.st = "dropped"] ELSE txs[n]]
      /\ UNCHANGED <<now, ledger, mined>>
  BY DEF Crash
<1>2. \A j \in Job : job'[j].pc = "idle"
  BY <1>1
<1>3. \A n \in DOMAIN txs : txs[n] \in TxRecord
  BY DEF RoutingInv, TypeOK
<1>4. /\ DOMAIN txs' = DOMAIN txs
      /\ \A n \in DOMAIN txs : /\ txs'[n].intent = txs[n].intent /\ txs'[n].solver = txs[n].solver
                               /\ txs[n].st = "success" => txs'[n].st = "success"
                               /\ txs'[n].st \in {"signed", "mempool"} => Live(n)
  BY <1>1, <1>3 DEF TxRecord
<1>5. now' \in Nat /\ now' >= now
  BY <1>1 DEF RoutingInv, TypeOK
<1>6. MinedIsKnown'
  BY <1>1, <1>2, <1>4, <1>5, MinedKept DEF CapitalInv
<1>7. ReadsAreFresh' /\ WaitsForLast' /\ EmptyAtBoot'
  BY <1>1, <1>2 DEF ReadsAreFresh, WaitsForLast, EmptyAtBoot
<1>8. ExposureFits'
  <2>1. \A s \in Solver, k \in Intent : Committed(s, k)' => Committed(s, k)
    BY <1>2, <1>4 DEF Committed
  <2>2. \A s \in Solver : Promised(s)' \subseteq Promised(s) /\ MinedFor(s, Len(mined))' = MinedFor(s, Len(mined))
    BY <1>1, <2>1 DEF Promised, MinedFor
  <2>3. QED
    BY <2>2, ExposureKept DEF CapitalInv
<1>9. QED
  BY <1>6, <1>7, <1>8 DEF CapitalInv

\* The boot calls an entry failed only where the intent's last transaction reverted, so
\* that nothing of it was mined.
LEMMA BootMidCapital ==
    ASSUME RoutingInv, CapitalInv, NEW i \in Intent, BootMid(i)
    PROVE  CapitalInv'
<1>1. ~up /\ UNCHANGED <<now, book, lock, job, txs, mined, crashes, up>>
  BY DEF BootMid
<1>2. PICK n \in DOMAIN txs :
        /\ txs[n].intent = i
        /\ \A m \in DOMAIN txs : txs[m].intent = i => m <= n
        /\ \/ txs[n].st = "success" /\ setArbitrumStage(i, "collateral_posted", ledger[i].solver)
           \/ txs[n].st = "reverted" /\ setArbitrumStage(i, "collateral_failed", ledger[i].solver)
  BY DEF BootMid
<1>3. /\ \A k \in Intent : k # i => ledger'[k] = ledger[k]
      /\ ledger'[i].solver = ledger[i].solver
      /\ ledger'[i].stage = "collateral_posted" \/ (txs[n].st = "reverted" /\ ledger'[i].stage = "collateral_failed")
  BY <1>2 DEF setArbitrumStage, RoutingInv, TypeOK
<1>4. MinedIsKnown'
  <2> SUFFICES ASSUME NEW k \in DOMAIN mined
               PROVE  LET s == mined[k].solver
                          g == mined[k].intent
                      IN  /\ mined[k].at <= now
                          /\ ledger'[g].solver = s
                          /\ \E m \in DOMAIN txs : /\ txs[m].intent = g /\ txs[m].st = "success"
                                                   /\ \A l \in DOMAIN txs : txs[l].intent = g => l <= m
                          /\ \/ ledger'[g].stage = "posting_collateral"
                             \/ ledger'[g].stage = "collateral_posted"
    BY <1>1 DEF MinedIsKnown
  <2> DEFINE g == mined[k].intent
  <2>1. PICK m \in DOMAIN txs : /\ txs[m].intent = g /\ txs[m].st = "success"
                                /\ \A l \in DOMAIN txs : txs[l].intent = g => l <= m
    BY DEF CapitalInv, MinedIsKnown
  <2>2. /\ mined[k].at <= now /\ ledger[g].solver = mined[k].solver
        /\ ledger[g].stage \in {"posting_collateral", "collateral_posted"}
    BY DEF CapitalInv, MinedIsKnown
  <2>3. g \in Intent
    BY MinedIsOver DEF CapitalInv
  <2>4. CASE g = i
    <3>1. m <= n /\ n <= m
      BY <1>2, <2>1, <2>4
    <3>2. m \in Nat /\ n \in Nat
      BY DEF RoutingInv, TypeOK
    <3>3. txs[n].st = "success"
      <4>1. m = n
        BY <3>1, <3>2
      <4>2. QED
        BY <2>1, <4>1
    <3>4. QED
      BY <1>3, <2>1, <2>2, <2>4, <3>3
  <2>5. CASE g # i
    BY <1>3, <2>1, <2>2, <2>3, <2>5
  <2>6. QED
    BY <2>4, <2>5
<1>5. ReadsAreFresh' /\ WaitsForLast' /\ EmptyAtBoot'
  BY <1>1 DEF CapitalInv, ReadsAreFresh, WaitsForLast, EmptyAtBoot
<1>6. ExposureFits'
  <2>1. \A s \in Solver : Promised(s)' \subseteq Promised(s) /\ MinedFor(s, Len(mined))' = MinedFor(s, Len(mined))
    BY <1>1 DEF Promised, MinedFor, Committed
  <2>2. QED
    BY <2>1, ExposureKept DEF CapitalInv
<1>7. QED
  BY <1>4, <1>5, <1>6 DEF CapitalInv

\* The boot ends when every node knows what was mined before it.
LEMMA BootDoneCapital ==
    ASSUME RoutingInv, CapitalInv, HoldSuffices, BootDone
    PROVE  CapitalInv'
<1>1. /\ ~up /\ up' = TRUE /\ \A k \in DOMAIN mined : mined[k].at + Lag <= now
      /\ UNCHANGED <<now, ledger, book, lock, job, txs, mined, crashes>>
  BY DEF BootDone, HoldSuffices
<1>2. \A j \in Job : ~At(j, "decide")
  BY <1>1 DEF RoutingInv, NoJobAtBoot
<1>3. MinedIsKnown'
  BY <1>1, <1>2 DEF CapitalInv, MinedIsKnown
<1>4. ReadsAreFresh' /\ WaitsForLast' /\ EmptyAtBoot'
  BY <1>1, <1>2 DEF CapitalInv, ReadsAreFresh, WaitsForLast, EmptyAtBoot
<1>5. ExposureFits'
  <2>1. \A s \in Solver : Promised(s)' \subseteq Promised(s) /\ MinedFor(s, Len(mined))' = MinedFor(s, Len(mined))
    BY <1>1 DEF Promised, MinedFor, Committed
  <2>2. QED
    BY <2>1, ExposureKept DEF CapitalInv
<1>6. QED
  BY <1>3, <1>4, <1>5 DEF CapitalInv

LEMMA InitCapital == Init => CapitalInv
<1> SUFFICES ASSUME Init PROVE CapitalInv
  OBVIOUS
<1>1. \A j \in Job : job[j].pc = "idle" /\ job[j].intent = {}
  BY DEF Init
<1>2. DOMAIN mined = {} /\ Len(mined) = 0 /\ book = {} /\ DOMAIN txs = {}
  BY DEF Init
<1>3. MinedIsKnown /\ ReadsAreFresh /\ WaitsForLast /\ EmptyAtBoot
  BY <1>1, <1>2 DEF MinedIsKnown, ReadsAreFresh, WaitsForLast, EmptyAtBoot
<1>4. ASSUME NEW s \in Solver PROVE NeedOf(Promised(s) \cup MinedFor(s, Len(mined))) <= Capital[s]
  <2>1. Promised(s) \cup MinedFor(s, Len(mined)) = {}
    BY <1>1, <1>2 DEF Promised, Committed, MinedFor
  <2>2. NeedOf({}) = 0
    <3>1. [i \in Intent |-> Need(i)] \in [Intent -> Int] /\ IsFiniteSet(Intent)
      BY NeedTypes
    <3>2. QED
      BY <3>1, SumStep DEF NeedOf
  <2>3. NeedOf(Promised(s) \cup MinedFor(s, Len(mined))) = 0
    BY Zenon, <2>1, <2>2
  <2>4. 0 <= Capital[s]
    BY RoutingAssumption
  <2>5. QED
    BY <2>3, <2>4
<1>5. QED
  BY <1>3, <1>4 DEF CapitalInv, ExposureFits

LEMMA NextCapital ==
    ASSUME HoldSuffices, RoutingInv, CapitalInv, [Next]_vars
    PROVE  CapitalInv'
<1>1. ~MayLoseReceipt
  BY DEF HoldSuffices
<1>2. ASSUME NEW j \in Job, JobStep(j) PROVE CapitalInv'
  BY <1>1, <1>2, DispatchCapital, ReadsCapital, DecideCapital, GateCapital, GateThrowsCapital, PostSignCapital,
     BroadcastCapital, PostFailsCapital, PostSucceedsCapital DEF JobStep
<1>3. CASE UNCHANGED vars
  <2>1. UNCHANGED <<now, ledger, book, lock, job, txs, mined, crashes, up>>
    BY <1>3 DEF vars
  <2>2. MinedIsKnown' /\ ReadsAreFresh' /\ WaitsForLast' /\ EmptyAtBoot'
    BY <2>1 DEF CapitalInv, MinedIsKnown, ReadsAreFresh, WaitsForLast, EmptyAtBoot
  <2>3. \A s \in Solver : Promised(s)' \subseteq Promised(s) /\ MinedFor(s, Len(mined))' = MinedFor(s, Len(mined))
    BY <2>1 DEF Promised, MinedFor, Committed
  <2>4. ExposureFits'
    BY <2>3, ExposureKept DEF CapitalInv
  <2>5. QED
    BY <2>2, <2>4 DEF CapitalInv
<1>4. QED
  BY <1>2, <1>3, MineCapital, TickCapital, CrashCapital, BootMidCapital, BootDoneCapital DEF Next

\* What is committed is not mined yet, so that it is in the wallet.
LEMMA CapitalSuffices == RoutingInv /\ CapitalInv => CapitalCovers
<1> SUFFICES ASSUME RoutingInv, CapitalInv, NEW s \in Solver
             PROVE  NeedOf(Promised(s)) <= Wallet(s)
  BY DEF CapitalCovers
<1> DEFINE taken == MinedFor(s, Len(mined))
<1>1. Promised(s) \in SUBSET Intent /\ taken \in SUBSET Intent
  <2>1. Len(mined) \in 0 .. Len(mined)
    BY DEF RoutingInv, TypeOK
  <2>2. QED
    BY <2>1, ExposureTypes DEF CapitalInv
<1>2. Promised(s) \cap taken = {}
  <2> SUFFICES ASSUME NEW k \in Promised(s), k \in taken PROVE FALSE
    OBVIOUS
  <2>1. PICK n \in DOMAIN mined : mined[n].intent = k
    <3>1. DOMAIN mined = 1 .. Len(mined)
      BY DEF RoutingInv, TypeOK
    <3>2. QED
      BY <3>1 DEF MinedFor
  <2>2. /\ \A j \in Job : On(j, k) => At(j, "wait")
        /\ \A m \in DOMAIN txs : Live(m) => txs[m].intent # k
    BY <2>1, MinedIsOver DEF CapitalInv
  <2>3. Committed(s, k)
    BY DEF Promised
  <2>4. QED
    BY <2>2, <2>3 DEF Committed
<1>3. NeedOf(Promised(s) \cup taken) <= Capital[s]
  BY DEF CapitalInv, ExposureFits
<1>4. Wallet(s) = Capital[s] - NeedOf(taken)
  BY DEF Wallet, Spent
<1> HIDE DEF taken
<1>5. NeedOf(Promised(s) \cup taken) = NeedOf(Promised(s)) + NeedOf(taken)
  BY <1>1, <1>2, NeedOfUnion
<1>6. NeedOf(Promised(s)) \in Nat /\ NeedOf(taken) \in Nat /\ Capital[s] \in Nat
  BY <1>1, NeedTypes, RoutingAssumption
<1>7. QED
  BY <1>3, <1>4, <1>5, <1>6

\* A solver's capital is never promised twice: what selectSolver reserved, what is signed
\* and what waits in a mempool is in the solver's wallet together (solver_routing.ts, L7),
\* however far the answering node is behind, if the hold outlasts its lag and a decision.
THEOREM CapitalIsCovered == HoldSuffices => (Spec => []CapitalCovers)
<1> SUFFICES ASSUME HoldSuffices PROVE Spec => []CapitalCovers
  OBVIOUS
<1>1. Init => RoutingInv /\ CapitalInv
  BY InitInv, InitCapital
<1>2. (RoutingInv /\ CapitalInv) /\ [Next]_vars => (RoutingInv /\ CapitalInv)'
  BY NextInv, NextCapital DEF HoldSuffices
<1>3. RoutingInv /\ CapitalInv => CapitalCovers
  BY CapitalSuffices
<1>4. QED
  BY <1>1, <1>2, <1>3, PTL DEF Spec

\* The book, the ledger's entries, the jobs and the mutex of runExclusive keep their
\* shape: the mutex is held exactly between a selection's reads and its decision.
THEOREM TypeCorrect == ~MayLoseReceipt => (Spec => []TypeOK)
<1>1. RoutingInv => TypeOK
  BY DEF RoutingInv
<1>2. QED
  BY <1>1, RoutingInvariant, PTL
=============================================================================
