------------------------- MODULE SolverStatsProofs -------------------------
(***************************************************************************)
(* What SolverStats owes to the escrow contract: a status that was cached  *)
(* stays true.  The contract's invariant and its status latch are the      *)
(* lemmas of IntentManagerProofs, here about the contract that the track   *)
(* records are read from.                                                  *)
(***************************************************************************)
EXTENDS SolverStats, FiniteSetTheorems, FunctionTheorems, TLAPS

Contract == INSTANCE IntentManagerProofs

\* Why PromotionIsEarned holds: an outcome on chain stays, either source of ids names every
\* slashed intent, and a read that neither failed nor came late left its outcome in the map.
SlashesSeen ==
    \A s \in Solver : \A i \in reader.slashed[s] :
        /\ i \in Outcomes(s, "Slashed")
        /\ reader.ids # {} => <<i, "bare">> \in reader.ids
        /\ <<i, "bare">> \in reader.ids \ reader.todo /\ ~reader.failed /\ ~reader.misled
              => Cached(reader.cache, <<i, "bare">>)

ReaderRecord ==
    [busy : BOOLEAN, ids : SUBSET Key, todo : SUBSET Key, cache : [Key -> Entry],
     exclusions : loadExclusions, failed : BOOLEAN, slashed : [Solver -> SUBSET Intent], misled : BOOLEAN]

Normalized(ids) == \A k \in ids : k[2] = "bare"

StatsInv ==
    /\ Contract!EscrowInv
    /\ cacheFile \in [Key -> Entry]
    /\ reader \in ReaderRecord
    /\ Normalized(reader.ids)
    /\ CacheIsTrue

\* Every transaction of this composition is a call of the contract's own specification.
LEMMA ChainStep == ChainMoves \/ UNCHANGED chainVars => [Contract!Next]_(Contract!vars)
<1>1. CASE UNCHANGED chainVars
  BY <1>1 DEF chainVars, Contract!vars, Contract!contractVars, Contract!adminVars, Contract!volumeVars
<1>2. CASE Chain!Tick
  BY <1>2 DEF Chain!Tick, Chain!contractVars, Chain!adminVars, Chain!volumeVars, Contract!Next,
              Contract!Tick, Contract!contractVars, Contract!adminVars, Contract!volumeVars
<1>3. ASSUME NEW a \in Account, Chain!Submit(a) PROVE Contract!Submit(a)
  BY <1>3 DEF Chain!Submit, Chain!submitIntent, Chain!adminVars, Chain!EmptyIntent,
              Contract!Submit, Contract!submitIntent, Contract!adminVars, Contract!EmptyIntent
<1>4. ASSUME NEW a \in Account, NEW i \in Intent,
             Chain!postCollateral(a, i, Chain!Collateral(intents[i].amount))
      PROVE  Contract!postCollateral(a, i, Contract!Collateral(intents[i].amount))
  BY <1>4 DEF Chain!postCollateral, Chain!CanPostCollateral, Chain!Exists, Chain!Collateral,
              Chain!COLLATERAL_RATIO, Chain!adminVars, Chain!volumeVars, Contract!postCollateral,
              Contract!CanPostCollateral, Contract!Exists, Contract!Collateral,
              Contract!COLLATERAL_RATIO, Contract!adminVars, Contract!volumeVars
<1>5. ASSUME NEW a \in Account, NEW i \in Intent, Chain!confirmSettlement(a, i)
      PROVE  Contract!confirmSettlement(a, i)
  BY <1>5 DEF Chain!confirmSettlement, Chain!CanConfirm, Chain!CanReceive, Chain!Resolve,
              Chain!BalanceAfter, Chain!Asset, Chain!adminVars, Chain!volumeVars,
              Contract!confirmSettlement, Contract!CanConfirm, Contract!CanReceive, Contract!Resolve,
              Contract!BalanceAfter, Contract!Asset, Contract!adminVars, Contract!volumeVars
<1>6. ASSUME NEW a \in Account, NEW i \in Intent, Chain!slashSolver(a, i)
      PROVE  Contract!slashSolver(a, i)
  BY <1>6 DEF Chain!slashSolver, Chain!CanSlash, Chain!CanReceive, Chain!Resolve,
              Chain!ForfeitToTreasury, Chain!BalanceAfter, Chain!Asset, Chain!adminVars,
              Chain!volumeVars, Contract!slashSolver, Contract!CanSlash, Contract!CanReceive,
              Contract!Resolve, Contract!ForfeitToTreasury, Contract!BalanceAfter, Contract!Asset,
              Contract!adminVars, Contract!volumeVars
<1>7. ASSUME NEW a \in Account, NEW i \in Intent, Chain!cancelIntent(a, i)
      PROVE  Contract!cancelIntent(a, i)
  BY <1>7 DEF Chain!cancelIntent, Chain!CanReceive, Chain!BalanceAfter, Chain!Asset,
              Chain!adminVars, Chain!volumeVars, Contract!cancelIntent, Contract!CanReceive,
              Contract!BalanceAfter, Contract!Asset, Contract!adminVars, Contract!volumeVars
<1>8. ASSUME NEW a \in Account, NEW i \in Intent, Chain!claimRefund(a, i)
      PROVE  Contract!claimRefund(a, i)
  BY <1>8 DEF Chain!claimRefund, Chain!CanReceive, Chain!Resolve, Chain!ForfeitToTreasury,
              Chain!BalanceAfter, Chain!Asset, Chain!adminVars, Chain!volumeVars,
              Contract!claimRefund, Contract!CanReceive, Contract!Resolve,
              Contract!ForfeitToTreasury, Contract!BalanceAfter, Contract!Asset,
              Contract!adminVars, Contract!volumeVars
<1>9. Intent = Contract!Intent
  BY DEF Intent, Chain!Intent, Contract!Intent
<1>10. QED
  BY <1>1, <1>2, <1>3, <1>4, <1>5, <1>6, <1>7, <1>8, <1>9, PartyAssumption
     DEF ChainMoves, Contract!Next, Contract!Call

\* The contract keeps its invariant under the transactions of this composition, and closes
\* no intent twice.
LEMMA ContractStep ==
    ASSUME Contract!EscrowInv, ChainMoves \/ UNCHANGED chainVars
    PROVE  /\ Contract!EscrowInv'
           /\ \A i \in Intent : intents[i].status # "Pending" => intents'[i] = intents[i]
<1>1. Contract!AccountAssumption /\ Contract!NumberAssumption
  BY ContractAssumption
     DEF Contract!AccountAssumption, Contract!NumberAssumption, Chain!AccountAssumption,
         Chain!NumberAssumption
<1>2. Contract!EscrowInv'
  BY <1>1, ChainStep, Contract!NextEscrow
<1>3. Contract!OneWay
  BY <1>1, ChainStep, Contract!NextOneWay
<1>4. QED
  BY <1>2, <1>3 DEF Contract!OneWay, Contract!Intent, Intent, Chain!Intent

LEMMA InitStats == Init => StatsInv
<1> SUFFICES ASSUME Init PROVE StatsInv
  OBVIOUS
<1>1. Contract!AccountAssumption /\ Contract!NumberAssumption
  BY ContractAssumption
     DEF Contract!AccountAssumption, Contract!NumberAssumption, Chain!AccountAssumption,
         Chain!NumberAssumption
<1>2. Contract!EscrowInv
  <2>1. Contract!InitWith(OrchestratorKey, Solver)
    BY DEF Init, Chain!InitWith, Chain!Intent, Chain!EmptyIntent, Chain!Asset, Chain!NothingPaid,
           Contract!InitWith, Contract!Intent, Contract!EmptyIntent, Contract!Asset,
           Contract!NothingPaid
  <2>2. QED
    BY <1>1, <2>1, PartyAssumption, Contract!InitWithEscrow
<1>3. EmptyCache \in [Key -> Entry] /\ TrueOrAbsent(EmptyCache)
  BY DEF EmptyCache, Entry, TrueOrAbsent, Cached
<1>4. Idle \in ReaderRecord
  BY <1>3 DEF Idle, ReaderRecord, loadExclusions
<1>5. QED
  BY <1>2, <1>3, <1>4 DEF Init, Idle, StatsInv, CacheIsTrue, Normalized

\* A cached outcome is terminal, so no transaction changes what it says.
LEMMA CacheSurvives ==
    ASSUME NEW cache \in [Key -> Entry], TrueOrAbsent(cache),
           \A i \in Intent : intents[i].status # "Pending" => intents'[i] = intents[i]
    PROVE  \A k \in Key : Cached(cache, k) => cache[k] = Truth(k[1])'
<1> SUFFICES ASSUME NEW k \in Key, Cached(cache, k) PROVE cache[k] = Truth(k[1])'
  OBVIOUS
<1>1. k[1] \in Intent /\ cache[k] = Truth(k[1])
  BY DEF Key, TrueOrAbsent
<1>2. cache[k].status \in Terminal
  BY DEF Cached, Entry
<1>3. intents[k[1]].status # "Pending"
  BY <1>1, <1>2 DEF Truth, Terminal
<1>4. QED
  BY <1>1, <1>3 DEF Truth

\* What a read adds to the cache is the truth: a late answer says Pending, which is not
\* terminal and is not cached.
LEMMA VisitStats ==
    ASSUME StatsInv, NEW k \in Key, Visit(k)
    PROVE  /\ reader' \in ReaderRecord
           /\ reader'.ids = reader.ids
           /\ TrueOrAbsent(reader.cache)'
<1>1. PICK r \in ReadIntent(k[1]) :
        reader' = [reader EXCEPT
            !.todo = @ \ {k},
            !.cache[k] = IF isTerminalStatus(r.status) THEN r ELSE NoEntry,
            !.misled = @ \/ r # Truth(k[1])]
  BY DEF Visit
<1>2. isTerminalStatus(r.status) => r = Truth(k[1])
  BY DEF ReadIntent, isTerminalStatus, Terminal, Truth
<1>3. k[1] \in Intent
  BY DEF Key
<1>4. intents[k[1]].solver \in Account \cup {NoAccount}
  BY <1>3 DEF StatsInv, Contract!EscrowInv, Contract!TypeOK, Contract!IntentRecord, Contract!Intent,
              Intent, Chain!Intent
<1>5. isTerminalStatus(r.status) => r \in Entry
  BY <1>2, <1>4 DEF Entry, Truth, isTerminalStatus
<1>6. NoEntry \in Entry
  BY DEF Entry
<1>7. reader \in ReaderRecord
  BY DEF StatsInv
<1>8. reader' \in ReaderRecord /\ reader'.ids = reader.ids
  BY <1>1, <1>5, <1>6, <1>7 DEF ReaderRecord
<1>9. /\ reader'.cache = [reader.cache EXCEPT ![k] = IF isTerminalStatus(r.status) THEN r ELSE NoEntry]
      /\ reader.cache \in [Key -> Entry]
  BY <1>1, <1>7 DEF ReaderRecord
<1>10. UNCHANGED intents
  BY DEF Visit, chainVars
<1>11. QED
  BY <1>2, <1>8, <1>9, <1>10 DEF StatsInv, CacheIsTrue, TrueOrAbsent, Cached, Truth, Normalized

LEMMA NextStats == StatsInv /\ [Next]_vars => StatsInv'
<1> SUFFICES ASSUME StatsInv, [Next]_vars PROVE StatsInv'
  OBVIOUS
<1>1. CASE ChainMoves \/ UNCHANGED vars
  <2>1. UNCHANGED <<cacheFile, reader>> /\ (ChainMoves \/ UNCHANGED chainVars)
    BY <1>1 DEF ChainMoves, vars
  <2>2. /\ Contract!EscrowInv'
        /\ \A i \in Intent : intents[i].status # "Pending" => intents'[i] = intents[i]
    BY <2>1, ContractStep DEF StatsInv
  <2>3. reader.cache \in [Key -> Entry]
    BY DEF StatsInv, ReaderRecord
  <2>4. TrueOrAbsent(cacheFile)' /\ TrueOrAbsent(reader.cache)'
    BY <2>1, <2>2, <2>3, CacheSurvives DEF StatsInv, CacheIsTrue, TrueOrAbsent, Cached
  <2>5. QED
    BY <2>1, <2>2, <2>4 DEF StatsInv, CacheIsTrue, Normalized
<1>2. ASSUME UNCHANGED chainVars PROVE Contract!EscrowInv'
  BY <1>2, ContractStep DEF StatsInv
<1>3. CASE Start
  <2>1. UNCHANGED <<chainVars, cacheFile>>
    BY <1>3 DEF Start
  <2>2. PICK states \in {StateIds, {}}, ledger \in {LedgerIds, {}}, cache \in {cacheFile, EmptyCache},
             exclusions \in loadExclusions :
            reader' = [busy |-> TRUE, ids |-> {keyOf(id) : id \in states \cup ledger},
                       todo |-> {keyOf(id) : id \in states \cup ledger}, cache |-> cache,
                       exclusions |-> exclusions, failed |-> FALSE, slashed |-> [s \in Solver |-> Outcomes(s, "Slashed")],
                       misled |-> FALSE]
    BY <1>3 DEF Start
  <2>3. /\ {keyOf(id) : id \in states \cup ledger} \subseteq Key
        /\ Normalized({keyOf(id) : id \in states \cup ledger})
    BY DEF keyOf, StateIds, LedgerIds, Key, Spelling, Normalized
  <2>4. \A s \in Solver : Outcomes(s, "Slashed") \subseteq Intent
    BY DEF Outcomes
  <2>5. cache \in [Key -> Entry] /\ TrueOrAbsent(cache)
    BY DEF StatsInv, CacheIsTrue, EmptyCache, Entry, TrueOrAbsent, Cached
  <2>6. reader' \in ReaderRecord
    BY <2>2, <2>3, <2>4, <2>5 DEF ReaderRecord
  <2>7. reader'.cache = cache /\ Normalized(reader'.ids)
    BY <2>2, <2>3
  <2>8. QED
    BY <1>2, <2>1, <2>5, <2>6, <2>7
       DEF StatsInv, CacheIsTrue, TrueOrAbsent, Cached, Truth, Normalized, chainVars
<1>4. ASSUME NEW k \in Key, Visit(k) PROVE StatsInv'
  <2>1. UNCHANGED <<chainVars, cacheFile>>
    BY <1>4 DEF Visit
  <2>2. QED
    BY <1>2, <1>4, <2>1, VisitStats DEF StatsInv, CacheIsTrue, TrueOrAbsent, Cached, Truth, Normalized, chainVars
<1>5. ASSUME NEW k \in Key, VisitCached(k) \/ VisitFails(k) PROVE StatsInv'
  <2>1. /\ UNCHANGED <<chainVars, cacheFile>>
        /\ \/ reader' = [reader EXCEPT !.todo = @ \ {k}]
           \/ reader' = [reader EXCEPT !.todo = @ \ {k}, !.failed = TRUE]
    BY <1>5 DEF VisitCached, VisitFails
  <2>2. reader' \in ReaderRecord /\ reader'.cache = reader.cache /\ reader'.ids = reader.ids
    BY <2>1 DEF StatsInv, ReaderRecord
  <2>3. QED
    BY <1>2, <2>1, <2>2 DEF StatsInv, CacheIsTrue, TrueOrAbsent, Cached, Truth, Normalized, chainVars
<1>6. CASE Finish \/ Crash
  <2>1. UNCHANGED chainVars /\ reader' = Idle /\ cacheFile' \in {cacheFile, reader.cache}
    BY <1>6 DEF Finish, Crash
  <2>2. EmptyCache \in [Key -> Entry] /\ Idle \in ReaderRecord /\ Idle.cache = EmptyCache /\ Idle.ids = {}
    BY DEF EmptyCache, Entry, Idle, ReaderRecord, loadExclusions
  <2>3. reader.cache \in [Key -> Entry]
    BY DEF StatsInv, ReaderRecord
  <2>4. QED
    BY <1>2, <2>1, <2>2, <2>3
       DEF StatsInv, CacheIsTrue, TrueOrAbsent, Cached, Truth, Normalized, EmptyCache, chainVars
<1>7. QED
  BY <1>1, <1>3, <1>4, <1>5, <1>6 DEF Next

\* "L1: a TERMINAL on-chain status never changes once reached" (solver_stats.ts): whatever
\* readSolverRecord remembers, in its cache file or in the map it works on, is how that
\* intent ended on chain, for any number of intents and solvers, nodes that lag, and any
\* transactions between two reads.
THEOREM CacheStaysTrue == Spec => []CacheIsTrue
<1>1. StatsInv => CacheIsTrue
  BY DEF StatsInv
<1>2. QED
  BY InitStats, NextStats, <1>1, PTL DEF Spec

\* What is counted for a solver is an intent that ended with it and that the exclusions as
\* loaded leave to it, and since ids are normalized no intent is counted under two of them.
LEMMA CountIsBounded ==
    ASSUME StatsInv, NEW s \in Solver, NEW status \in {"Settled", "Slashed"}
    PROVE  /\ Count(s, status) <= Cardinality(LeftTo(s, Outcomes(s, status), reader.exclusions))
           /\ Count(s, status) \in Nat
           /\ Cardinality(LeftTo(s, Outcomes(s, status), reader.exclusions)) \in Nat
           /\ IsFiniteSet({k \in reader.ids :
                reader.cache[k] = [status |-> status, solver |-> s] /\ ~Excluded(k, s)})
<1> DEFINE counted == {k \in reader.ids :
                reader.cache[k] = [status |-> status, solver |-> s] /\ ~Excluded(k, s)}
           left == LeftTo(s, Outcomes(s, status), reader.exclusions)
           byIntent == [k \in counted |-> k[1]]
<1>1. IsFiniteSet(left)
  <2>1. MaxIntents - 1 \in Int
    BY ContractAssumption DEF Chain!NumberAssumption
  <2>2. IsFiniteSet(Intent)
    BY <2>1, FS_Interval DEF Intent, Chain!Intent
  <2>3. QED
    BY <2>2, FS_Subset DEF LeftTo, Outcomes
<1>2. reader.ids \subseteq Key
  BY DEF StatsInv, ReaderRecord
<1>3. ASSUME NEW k \in counted PROVE k[1] \in left
  <2>1. reader.cache[k] = Truth(k[1])
    BY <1>2 DEF StatsInv, CacheIsTrue, TrueOrAbsent, Cached, NoEntry
  <2>2. QED
    BY <1>2, <2>1 DEF LeftTo, Outcomes, Excluded, Key
<1>4. \A k, l \in counted : k[1] = l[1] => k = l
  BY <1>2 DEF StatsInv, Normalized, Key
<1>5. byIntent \in Injection(counted, left)
  BY <1>3, <1>4, Fun_IsInj
<1>6. QED
  BY <1>1, <1>5, FS_Injection, FS_CardinalityType DEF Count

\* "A strict subset of the truth, never an overcount" (solver_stats.ts), for any number of
\* intents and solvers, whichever sources, reads and spellings a run of readSolverRecord
\* met; the truth is the chain less the exclusions that the run could load.
THEOREM RecordNeverOvercounts == Spec => []NeverOvercounts
<1>1. StatsInv => NeverOvercounts
  BY CountIsBounded DEF NeverOvercounts
<1>2. QED
  BY InitStats, NextStats, <1>1, PTL DEF Spec

----------------------------------------------------------------------------
(***************************************************************************)
(* A promotion is earned: SlashesSeen, step by step, and the arithmetic of *)
(* computeTier.                                                            *)
(***************************************************************************)
PromotionInv == StatsInv /\ Contract!SolverHasIntent /\ SlashesSeen

LEMMA InitPromotion == Init => PromotionInv
<1> SUFFICES ASSUME Init PROVE PromotionInv
  OBVIOUS
<1>1. StatsInv
  BY InitStats
<1>2. intents = [i \in Contract!Intent |-> Contract!EmptyIntent]
  BY DEF Init, Chain!InitWith, Chain!Intent, Contract!Intent, Chain!EmptyIntent, Contract!EmptyIntent
<1>3. Contract!SolverHasIntent
  BY <1>2 DEF Contract!SolverHasIntent, Contract!EmptyIntent
<1>4. SlashesSeen
  BY DEF Init, Idle, SlashesSeen
<1>5. QED
  BY <1>1, <1>3, <1>4 DEF PromotionInv

LEMMA ContractKeepsIntents ==
    ASSUME Contract!EscrowInv, Contract!SolverHasIntent, ChainMoves \/ UNCHANGED chainVars
    PROVE  Contract!SolverHasIntent'
<1>1. Contract!AccountAssumption /\ Contract!NumberAssumption
  BY ContractAssumption
     DEF Contract!AccountAssumption, Contract!NumberAssumption, Chain!AccountAssumption,
         Chain!NumberAssumption
<1>2. QED
  BY <1>1, ChainStep, Contract!NextSolverHasIntent

\* An outcome on chain stays on chain.
LEMMA OutcomesStay ==
    ASSUME Contract!EscrowInv, ChainMoves \/ UNCHANGED chainVars, NEW s \in Solver,
           NEW i \in Outcomes(s, "Slashed")
    PROVE  i \in Outcomes(s, "Slashed")'
<1>1. i \in Intent /\ intents[i].status = "Slashed"
  BY DEF Outcomes, Truth
<1>2. intents'[i] = intents[i]
  BY <1>1, ContractStep
<1>3. QED
  BY <1>1, <1>2 DEF Outcomes, Truth

\* What Start takes from either source: everything its solvers were slashed for.
LEMMA SourcesNameSlashes ==
    ASSUME Contract!EscrowInv, Contract!SolverHasIntent, NEW s \in Solver,
           NEW i \in Outcomes(s, "Slashed")
    PROVE  <<i, "bare">> \in StateIds /\ <<i, "0x">> \in LedgerIds
<1>1. i \in Intent /\ intents[i].solver = s
  BY DEF Outcomes, Truth
<1>2. s # NoAccount
  BY PartyAssumption, ContractAssumption DEF Chain!AccountAssumption
<1>3. intents[i].owner # NoAccount
  BY <1>1, <1>2 DEF Contract!SolverHasIntent, Contract!Exists, Contract!Intent, Intent, Chain!Intent
<1>4. QED
  BY <1>1, <1>3 DEF StateIds, LedgerIds, Chain!Exists

LEMMA StartSeesSlashes == PromotionInv /\ Start => SlashesSeen'
<1> SUFFICES ASSUME PromotionInv, Start PROVE SlashesSeen'
  OBVIOUS
<1>1. PICK states \in {StateIds, {}}, ledger \in {LedgerIds, {}} :
        /\ reader'.ids = {keyOf(id) : id \in states \cup ledger}
        /\ reader'.todo = reader'.ids
        /\ reader'.slashed = [s \in Solver |-> Outcomes(s, "Slashed")]
  BY DEF Start
<1>2. UNCHANGED chainVars
  BY DEF Start
<1>3. Contract!EscrowInv /\ Contract!SolverHasIntent
  BY DEF PromotionInv, StatsInv
<1>4. SUFFICES ASSUME NEW s \in Solver, NEW i \in Outcomes(s, "Slashed")
               PROVE  /\ i \in Outcomes(s, "Slashed")'
                      /\ reader'.ids # {} => <<i, "bare">> \in reader'.ids
  BY <1>1 DEF SlashesSeen
<1>5. i \in Outcomes(s, "Slashed")'
  BY <1>2, <1>3, OutcomesStay
<1>6. ASSUME reader'.ids # {} PROVE <<i, "bare">> \in reader'.ids
  <2>1. <<i, "bare">> \in StateIds /\ <<i, "0x">> \in LedgerIds
    BY <1>3, SourcesNameSlashes
  <2>2. states = StateIds \/ ledger = LedgerIds
    BY <1>1, <1>6
  <2>3. keyOf(<<i, "bare">>) = <<i, "bare">> /\ keyOf(<<i, "0x">>) = <<i, "bare">>
    BY DEF keyOf
  <2>4. PICK id \in states \cup ledger : keyOf(id) = <<i, "bare">>
    BY <2>1, <2>2, <2>3
  <2>5. QED
    BY <1>1, <2>4
<1>7. QED
  BY <1>5, <1>6

LEMMA VisitSeesSlashes ==
    ASSUME PromotionInv, NEW k \in Key, Visit(k) \/ VisitCached(k) \/ VisitFails(k)
    PROVE  SlashesSeen'
<1>1. reader \in ReaderRecord /\ UNCHANGED chainVars /\ Contract!EscrowInv
  BY DEF PromotionInv, StatsInv, Visit, VisitCached, VisitFails
<1>2. /\ reader'.ids = reader.ids /\ reader'.todo = reader.todo \ {k}
      /\ reader'.slashed = reader.slashed
  BY <1>1 DEF Visit, VisitCached, VisitFails, ReaderRecord
<1>3. SUFFICES ASSUME NEW s \in Solver, NEW i \in reader.slashed[s]
               PROVE  /\ i \in Outcomes(s, "Slashed")'
                      /\ reader'.ids # {} => <<i, "bare">> \in reader'.ids
                      /\ <<i, "bare">> \in reader'.ids \ reader'.todo /\ ~reader'.failed /\ ~reader'.misled
                            => Cached(reader'.cache, <<i, "bare">>)
  BY <1>2 DEF SlashesSeen
<1>4. /\ i \in Outcomes(s, "Slashed")
      /\ reader.ids # {} => <<i, "bare">> \in reader.ids
      /\ <<i, "bare">> \in reader.ids \ reader.todo /\ ~reader.failed /\ ~reader.misled
              => Cached(reader.cache, <<i, "bare">>)
  BY DEF PromotionInv, SlashesSeen
<1>5. i \in Outcomes(s, "Slashed")'
  BY <1>1, <1>4, OutcomesStay
<1>6. ASSUME <<i, "bare">> \in reader'.ids \ reader'.todo, ~reader'.failed, ~reader'.misled
      PROVE  Cached(reader'.cache, <<i, "bare">>)
  <2>1. CASE Visit(k)
    <3>1. PICK r \in ReadIntent(k[1]) :
            reader' = [reader EXCEPT
                !.todo = @ \ {k},
                !.cache[k] = IF isTerminalStatus(r.status) THEN r ELSE NoEntry,
                !.misled = @ \/ r # Truth(k[1])]
      BY <2>1 DEF Visit
    <3>2. /\ reader'.cache = [reader.cache EXCEPT ![k] = IF isTerminalStatus(r.status) THEN r ELSE NoEntry]
          /\ reader.cache \in [Key -> Entry]
          /\ reader'.failed = reader.failed
          /\ reader'.misled = (reader.misled \/ r # Truth(k[1]))
      BY <1>1, <3>1 DEF ReaderRecord
    <3>3. CASE k = <<i, "bare">>
      <4>1. r = Truth(i) /\ r.status = "Slashed"
        <5>1. k[1] = i /\ Truth(i).status = "Slashed"
          BY <1>4, <3>3 DEF Outcomes
        <5>2. r = Truth(k[1])
          BY <1>6, <3>2
        <5>3. QED
          BY <5>1, <5>2
      <4>2. reader'.cache[k] = r
        BY <3>2, <4>1 DEF isTerminalStatus, Terminal
      <4>3. QED
        BY <3>3, <4>1, <4>2 DEF Cached, NoEntry
    <3>4. CASE k # <<i, "bare">>
      <4>1. Cached(reader.cache, <<i, "bare">>)
        BY <1>2, <1>4, <1>6, <3>2, <3>4
      <4>2. <<i, "bare">> \in Key
        BY <1>1, <1>2, <1>6 DEF ReaderRecord
      <4>3. QED
        BY <3>2, <3>4, <4>1, <4>2 DEF Cached
    <3>5. QED
      BY <3>3, <3>4
  <2>2. CASE VisitCached(k)
    <3>1. reader'.cache = reader.cache /\ reader'.failed = reader.failed /\ reader'.misled = reader.misled
      BY <1>1, <2>2 DEF VisitCached, ReaderRecord
    <3>2. Cached(reader.cache, k)
      BY <2>2 DEF VisitCached
    <3>3. QED
      BY <1>2, <1>4, <1>6, <3>1, <3>2
  <2>3. CASE VisitFails(k)
    <3>1. reader'.failed
      BY <1>1, <2>3 DEF VisitFails, ReaderRecord
    <3>2. QED
      BY <1>6, <3>1
  <2>4. QED
    BY <2>1, <2>2, <2>3
<1>7. QED
  BY <1>2, <1>4, <1>5, <1>6

LEMMA NextPromotion == PromotionInv /\ [Next]_vars => PromotionInv'
<1> SUFFICES ASSUME PromotionInv, [Next]_vars PROVE PromotionInv'
  OBVIOUS
<1>1. StatsInv'
  BY NextStats DEF PromotionInv
<1>2. Contract!EscrowInv /\ Contract!SolverHasIntent /\ SlashesSeen
  BY DEF PromotionInv, StatsInv
<1>3. ChainMoves \/ UNCHANGED chainVars
  BY DEF Next, Start, Visit, VisitCached, VisitFails, Finish, Crash, vars
<1>4. Contract!SolverHasIntent'
  BY <1>2, <1>3, ContractKeepsIntents
<1>5. SlashesSeen'
  <2>1. CASE ChainMoves \/ UNCHANGED vars
    <3>1. reader' = reader
      BY <2>1 DEF ChainMoves, vars
    <3>2. \A s \in Solver : \A i \in reader.slashed[s] : i \in Outcomes(s, "Slashed")'
      BY <1>2, <1>3, OutcomesStay DEF SlashesSeen
    <3>3. QED
      BY <1>2, <3>1, <3>2 DEF SlashesSeen, Cached
  <2>2. CASE Finish \/ Crash
    <3>1. reader' = Idle
      BY <2>2 DEF Finish, Crash
    <3>2. \A s \in Solver : reader'.slashed[s] = {}
      BY <3>1 DEF Idle
    <3>3. QED
      BY <3>2 DEF SlashesSeen
  <2>3. QED
    BY <2>1, <2>2, StartSeesSlashes, VisitSeesSlashes DEF Next
<1>6. QED
  BY <1>1, <1>4, <1>5 DEF PromotionInv

\* With a complete record, nothing that was slashed when the run began goes uncounted unless
\* the exclusions as loaded name it.
LEMMA SlashesCounted ==
    ASSUME StatsInv, SlashesSeen, Done, ~reader.misled, ~reader.failed, NEW s \in Solver,
           Count(s, "Settled") + Count(s, "Slashed") > 0
    PROVE  /\ Cardinality(LeftTo(s, reader.slashed[s], reader.exclusions)) \in Nat
           /\ Cardinality(LeftTo(s, reader.slashed[s], reader.exclusions)) <= Count(s, "Slashed")
<1> DEFINE counted(status) == {k \in reader.ids :
                reader.cache[k] = [status |-> status, solver |-> s] /\ ~Excluded(k, s)}
           before == LeftTo(s, reader.slashed[s], reader.exclusions)
           keyed == [i \in before |-> <<i, "bare">>]
<1>1. reader.ids # {}
  <2>1. SUFFICES ASSUME reader.ids = {} PROVE FALSE
    OBVIOUS
  <2>2. counted("Settled") = {} /\ counted("Slashed") = {}
    BY <2>1
  <2>3. Count(s, "Settled") = 0 /\ Count(s, "Slashed") = 0
    BY <2>2, FS_EmptySet DEF Count
  <2>4. QED
    BY <2>3
<1>2. ASSUME NEW i \in before PROVE keyed[i] \in counted("Slashed")
  <2>1. /\ i \in Outcomes(s, "Slashed") /\ <<i, "bare">> \in reader.ids
        /\ Cached(reader.cache, <<i, "bare">>) /\ reader.exclusions[i] # s
    BY <1>1 DEF SlashesSeen, Done, LeftTo
  <2>2. <<i, "bare">> \in Key
    BY <2>1 DEF StatsInv, ReaderRecord
  <2>3. reader.cache[<<i, "bare">>] = Truth(i)
    BY <2>1, <2>2 DEF StatsInv, CacheIsTrue, TrueOrAbsent
  <2>4. QED
    BY <2>1, <2>3 DEF Outcomes, Excluded
<1>3. keyed \in Injection(before, counted("Slashed"))
  BY <1>2, Fun_IsInj
<1>4. IsFiniteSet(counted("Slashed")) /\ Count(s, "Slashed") = Cardinality(counted("Slashed"))
  BY CountIsBounded DEF Count
<1>5. IsFiniteSet(before) /\ Cardinality(before) <= Cardinality(counted("Slashed"))
  BY <1>3, <1>4, FS_Injection
<1>6. QED
  BY <1>4, <1>5, FS_CardinalityType

\* A counted record with a rate of P% still has it with fewer slashes and more settlements.
LEMMA RateHolds ==
    ASSUME NEW P \in 0 .. 100, NEW c \in Nat, NEW k \in Nat, NEW settled \in Nat, NEW slashed \in Nat,
           c <= settled, slashed <= k, 100 * c >= P * (c + k)
    PROVE  100 * settled >= P * (settled + slashed)
<1> DEFINE more == settled - c
           fewer == k - slashed
<1>1. more \in Nat /\ fewer \in Nat /\ settled = c + more /\ k = slashed + fewer
  OBVIOUS
<1>2. P * (c + k) = P * c + P * slashed + P * fewer
  BY <1>1
<1>3. P * (settled + slashed) = P * c + P * slashed + P * more
  BY <1>1
<1>4. P * fewer >= 0 /\ P * more <= 100 * more
  BY <1>1
<1>5. /\ P * c \in Int /\ P * slashed \in Int /\ P * fewer \in Int /\ P * more \in Int
      /\ 100 * settled = 100 * c + 100 * more
  BY <1>1
<1>6. QED
  BY <1>2, <1>3, <1>4, <1>5

\* Only a complete record of enough intents with the rate promotes.
LEMMA PromotesOnlyOnRate ==
    ASSUME NEW o \in 1 .. 3, NEW settled \in Nat, NEW resolved \in Nat, NEW complete \in BOOLEAN,
           computeTier(o, settled, resolved, complete) < o
    PROVE  /\ complete /\ resolved > 0 /\ resolved >= PromoteMinResolved
           /\ 100 * settled >= PromoteMinSuccess * resolved
<1> DEFINE rate == 100 * settled >= PromoteMinSuccess * resolved
           promotes == complete /\ resolved > 0 /\ resolved >= PromoteMinResolved /\ rate
           demotes == /\ ~promotes /\ resolved > 0 /\ resolved >= DemoteMinResolved
                      /\ 100 * settled < DemoteMaxSuccess * resolved
           tier == CASE promotes -> o - 1 [] demotes -> o + 1 [] OTHER -> o
<1>1. computeTier(o, settled, resolved, complete) = CASE tier < 1 -> 1 [] tier > 3 -> 3 [] OTHER -> tier
  BY DEF computeTier
<1> HIDE DEF rate, demotes
<1>2. promotes
  <2>1. SUFFICES ASSUME ~promotes PROVE FALSE
    OBVIOUS
  <2>2. tier \in {o, o + 1}
    <3> HIDE DEF promotes
    <3>1. QED
      BY <2>1
  <2>3. QED
    <3> HIDE DEF tier
    <3>1. QED
      BY <1>1, <2>2
<1>3. QED
  BY <1>2 DEF rate

\* "Must never be trusted enough to promote" (computeTier): whichever source of ids, read or
\* cache failed, and whatever was mined meanwhile, the true record less the exclusions that
\* were loaded is as long as a promotion asks for and has its rate, unless a node answered
\* late.
THEOREM PromotionsAreEarned == Spec => []PromotionIsEarned
<1>1. ASSUME PromotionInv, Done, ~reader.misled, NEW s \in Solver
      PROVE  Earned(s, reader.exclusions)
  <2> DEFINE settled == Cardinality(LeftTo(s, Outcomes(s, "Settled"), reader.exclusions))
             slashed == Cardinality(LeftTo(s, Outcomes(s, "Slashed"), reader.exclusions))
             before == Cardinality(LeftTo(s, reader.slashed[s], reader.exclusions))
             c == Count(s, "Settled")
             k == Count(s, "Slashed")
  <2>1. StatsInv /\ SlashesSeen
    BY <1>1 DEF PromotionInv
  <2>2. /\ c \in Nat /\ settled \in Nat /\ c <= settled
        /\ k \in Nat /\ slashed \in Nat /\ k <= slashed
    BY <2>1, CountIsBounded
  <2>3. SUFFICES ASSUME Tier(s) < OnboardingTier[s]
                 PROVE  /\ settled + slashed > 0 /\ settled + slashed >= PromoteMinResolved
                        /\ 100 * settled >= PromoteMinSuccess * (settled + before)
    BY DEF Earned
  <2>4. computeTier(OnboardingTier[s], c, c + k, ~reader.failed) < OnboardingTier[s]
    BY <2>3 DEF Tier
  <2>5. /\ ~reader.failed /\ c + k > 0 /\ c + k >= PromoteMinResolved
        /\ 100 * c >= PromoteMinSuccess * (c + k)
    <3>1. (~reader.failed) \in BOOLEAN /\ OnboardingTier[s] \in 1 .. 3
      BY TierAssumption
    <3> HIDE DEF c, k
    <3>2. c \in Nat /\ c + k \in Nat
      BY <2>2
    <3>3. QED
      BY <2>4, <3>1, <3>2, PromotesOnlyOnRate
  <2>6. before \in Nat /\ before <= k
    BY <1>1, <2>1, <2>5, SlashesCounted
  <2>7. PromoteMinSuccess \in 0 .. 100 /\ PromoteMinResolved \in Nat
    BY TierAssumption
  <2> HIDE DEF settled, slashed, before, c, k
  <2>8. settled + slashed > 0 /\ settled + slashed >= PromoteMinResolved
    BY <2>2, <2>5, <2>7
  <2>9. 100 * settled >= PromoteMinSuccess * (settled + before)
    BY <2>2, <2>5, <2>6, <2>7, RateHolds
  <2>10. QED
    BY <2>8, <2>9
<1>2. PromotionInv => PromotionIsEarned
  BY <1>1 DEF PromotionIsEarned
<1>3. QED
  BY InitPromotion, NextPromotion, <1>2, PTL DEF Spec

----------------------------------------------------------------------------
\* What a run of readSolverRecord leaves when it is not running, and that it visits no id
\* it did not list.
RunsAreWhole == reader.todo \subseteq reader.ids /\ (~reader.busy => reader = Idle)

LEMMA InitRuns == Init => RunsAreWhole
BY DEF Init, Idle, RunsAreWhole

LEMMA NextRuns == StatsInv /\ RunsAreWhole /\ [Next]_vars => RunsAreWhole'
<1> SUFFICES ASSUME StatsInv, RunsAreWhole, [Next]_vars PROVE RunsAreWhole'
  OBVIOUS
<1>1. CASE Start
  BY <1>1 DEF Start, RunsAreWhole
<1>2. ASSUME NEW k \in Key, Visit(k) \/ VisitCached(k) \/ VisitFails(k) PROVE RunsAreWhole'
  <2>1. reader \in ReaderRecord
    BY DEF StatsInv
  <2>2. reader.busy
    <3>1. k \in reader.todo
      BY <1>2 DEF Visit, VisitCached, VisitFails
    <3>2. Idle.todo = {} /\ reader.busy \in BOOLEAN
      BY <2>1 DEF Idle, ReaderRecord
    <3>3. ~reader.busy => reader = Idle
      BY DEF RunsAreWhole
    <3>4. QED
      BY <3>1, <3>2, <3>3
  <2>3. reader'.busy = reader.busy /\ reader'.ids = reader.ids /\ reader'.todo = reader.todo \ {k}
    BY <1>2, <2>1 DEF Visit, VisitCached, VisitFails, ReaderRecord
  <2>4. QED
    BY <2>2, <2>3 DEF RunsAreWhole
<1>3. CASE Finish \/ Crash
  BY <1>3 DEF Finish, Crash, Idle, RunsAreWhole
<1>4. CASE ChainMoves \/ UNCHANGED vars
  BY <1>4 DEF ChainMoves, vars, RunsAreWhole
<1>5. QED
  BY <1>1, <1>2, <1>3, <1>4 DEF Next

\* The cache file holds nothing but terminal statuses, and a run of readSolverRecord that
\* is over, or was given up, leaves nothing of itself behind.
THEOREM TypeCorrect == Spec => []TypeOK
<1>1. StatsInv /\ RunsAreWhole => TypeOK
  <2> SUFFICES ASSUME StatsInv, RunsAreWhole PROVE TypeOK
    OBVIOUS
  <2>1. Contract!TypeOK <=> Chain!TypeOK
    BY DEF Contract!TypeOK, Contract!Intent, Contract!IntentRecord, Contract!PaidRecord, Contract!Asset,
           Contract!IntentStatus, Chain!TypeOK, Chain!Intent, Chain!IntentRecord, Chain!PaidRecord, Chain!Asset,
           Chain!IntentStatus
  <2>2. QED
    BY <2>1 DEF StatsInv, Contract!EscrowInv, RunsAreWhole, ReaderRecord, TypeOK
<1>2. QED
  BY InitStats, NextStats, InitRuns, NextRuns, <1>1, PTL DEF Spec
=============================================================================
