---------------------------- MODULE SolverStats ----------------------------
(***************************************************************************)
(* Track records and tiers, orchestrator/src/solver_stats.ts, as solver    *)
(* selection uses them (solver_routing.ts), over the escrow contract.      *)
(*                                                                         *)
(* Under the reservation book's mutex, a selection lists the intents this  *)
(* orchestrator knows of, takes each one's outcome from the cache file or  *)
(* else from a node, counts outcomes by solver and moves each solver's     *)
(* tier one step from where it was onboarded.  Other transactions are      *)
(* mined between two reads, reads fail or come from a node that lags, a    *)
(* source of ids, the cache or the exclusions may be unreadable, and the   *)
(* process may crash before the cache is written.                          *)
(***************************************************************************)
EXTENDS Integers, FiniteSets

CONSTANTS
    Account, NoAccount, treasury, owner, NonPayable, Eth, Token, Amount, Expiry, Limit, MaxLimit,
    REFUND_GRACE, VOLUME_WINDOW, MaxIntents, MaxTime,   \* of IntentManager
    User, Solver, OrchestratorKey,
    Exclusion,          \* solver_exclusions.json: the solver named for an intent, or NoAccount
    OnboardingTier,     \* by solver: 1, the best, to 3
    PromoteMinResolved, PromoteMinSuccess, DemoteMinResolved, DemoteMaxSuccess, \* rates in %
    StaleReads          \* whether a node may still answer Pending

ASSUME TierAssumption ==
    /\ OnboardingTier \in [Solver -> 1 .. 3]
    /\ PromoteMinResolved \in Nat /\ PromoteMinSuccess \in 0 .. 100
    /\ DemoteMinResolved \in Nat /\ DemoteMaxSuccess \in 0 .. 100
ASSUME PartyAssumption ==
    User \cup Solver \cup {OrchestratorKey} \subseteq Account

VARIABLES
    now, intents, intentNonce, orchestrator, approvedSolvers, pendingTreasuryWithdrawals,
    dailyVolume, dailyVolumeLimit, lastVolumeReset, paused, balance, paid   \* of IntentManager

VARIABLES
    cacheFile,      \* solver_stats_cache.json
    reader          \* the run of readSolverRecord under way

Chain == INSTANCE IntentManager

ASSUME ContractAssumption == Chain!AccountAssumption /\ Chain!NumberAssumption

chainVars == <<now, intents, intentNonce, orchestrator, approvedSolvers, pendingTreasuryWithdrawals,
               dailyVolume, dailyVolumeLimit, lastVolumeReset, paused, balance, paid>>
vars == <<chainVars, cacheFile, reader>>

Intent == Chain!Intent
Terminal == {"Settled", "Slashed", "Refunded", "Expired"}

\* Mutant of isTerminalStatus: a collateralized intent is as good as settled.
isTerminalStatusOrPosted(status) == status \in Terminal \cup {"Pending"}

isTerminalStatus(status) == status \in Terminal

\* An intent id is written bare in the state files' names and with 0x in the ledger.
Spelling == {"bare", "0x"}
Key == Intent \X Spelling

\* Mutant of keyOf: as it is spelled.
keyOfSpelled(id) == id

keyOf(id) == <<id[1], "bare">>

\* The cache at a key without an entry; an outcome otherwise.
NoEntry == [status |-> "none", solver |-> NoAccount]
Cached(cache, k) == cache[k] # NoEntry
EmptyCache == [k \in Key |-> NoEntry]

Truth(i) == [status |-> intents[i].status, solver |-> intents[i].solver]

\* An exclusions file that is missing or malformed is an empty one, with a warning.
NoExclusions == [i \in Intent |-> NoAccount]
loadExclusions == {Exclusion, NoExclusions}

Excluded(k, solver) == reader.exclusions[k[1]] = solver

\* Outcomes of s on chain, and those of a set of intents that exclusions leave to s.
Outcomes(s, status) == {i \in Intent : Truth(i) = [status |-> status, solver |-> s]}
LeftTo(s, ids, exclusions) == {i \in ids : exclusions[i] # s}

\* reader: the normalized ids and those not looked at yet, the cache as loaded and added
\* to, the exclusions as loaded, whether a read failed; and as history, who was slashed for
\* what when it began, and whether a node answered Pending of an intent that no longer was.
Idle ==
    [busy |-> FALSE, ids |-> {}, todo |-> {}, cache |-> EmptyCache, exclusions |-> NoExclusions,
     failed |-> FALSE, slashed |-> [s \in Solver |-> {}], misled |-> FALSE]

----------------------------------------------------------------------------
\* The intents this orchestrator knows of: state files, and ledger entries of those its
\* solvers posted collateral for.
StateIds == {<<i, "bare">> : i \in {j \in Intent : Chain!Exists(j)}}
LedgerIds == {<<i, "0x">> : i \in {j \in Intent : intents[j].solver \in Solver}}

\* listKnownIntentIds, loadCache and loadExclusions; a file that cannot be read is an empty
\* one, and none of them makes the record incomplete.
Start ==
    /\ ~reader.busy
    /\ \E states \in {StateIds, {}}, ledger \in {LedgerIds, {}}, cache \in {cacheFile, EmptyCache},
          exclusions \in loadExclusions :
          LET ids == {keyOf(id) : id \in states \cup ledger}
          IN  reader' = [busy |-> TRUE, ids |-> ids, todo |-> ids, cache |-> cache,
                         exclusions |-> exclusions, failed |-> FALSE,
                         slashed |-> [s \in Solver |-> Outcomes(s, "Slashed")],
                         misled |-> FALSE]
    /\ UNCHANGED <<chainVars, cacheFile>>

\* What a node says of intent i.
ReadIntent(i) ==
    {Truth(i)} \cup (IF StaleReads THEN {[Truth(i) EXCEPT !.status = "Pending"]} ELSE {})

Visit(k) ==
    /\ k \in reader.todo
    /\ ~Cached(reader.cache, k)
    /\ \E r \in ReadIntent(k[1]) :
          reader' = [reader EXCEPT
            !.todo = @ \ {k},
            !.cache[k] = IF isTerminalStatus(r.status) THEN r ELSE NoEntry,
            !.misled = @ \/ r # Truth(k[1])]
    /\ UNCHANGED <<chainVars, cacheFile>>

VisitCached(k) ==
    /\ k \in reader.todo
    /\ Cached(reader.cache, k)
    /\ reader' = [reader EXCEPT !.todo = @ \ {k}]
    /\ UNCHANGED <<chainVars, cacheFile>>

\* Mutant of VisitFails: the error is logged and not recorded.
VisitFailsSilently(k) ==
    /\ k \in reader.todo
    /\ ~Cached(reader.cache, k)
    /\ reader' = [reader EXCEPT !.todo = @ \ {k}]
    /\ UNCHANGED <<chainVars, cacheFile>>

VisitFails(k) ==
    /\ k \in reader.todo
    /\ ~Cached(reader.cache, k)
    /\ reader' = [reader EXCEPT !.todo = @ \ {k}, !.failed = TRUE]
    /\ UNCHANGED <<chainVars, cacheFile>>

Done == reader.busy /\ reader.todo = {}

\* A counter of the record of s, once all ids were visited.
Count(s, status) ==
    Cardinality({k \in reader.ids :
        reader.cache[k] = [status |-> status, solver |-> s] /\ ~Excluded(k, s)})

\* computeTier, for settled of resolved intents.
computeTier(onboarding, settled, resolved, complete) ==
    LET promotes == /\ complete /\ resolved > 0 /\ resolved >= PromoteMinResolved
                    /\ 100 * settled >= PromoteMinSuccess * resolved
        demotes == /\ ~promotes /\ resolved > 0 /\ resolved >= DemoteMinResolved
                   /\ 100 * settled < DemoteMaxSuccess * resolved
        tier == CASE promotes -> onboarding - 1 [] demotes -> onboarding + 1 [] OTHER -> onboarding
    IN  CASE tier < 1 -> 1 [] tier > 3 -> 3 [] OTHER -> tier

Tier(s) ==
    computeTier(OnboardingTier[s], Count(s, "Settled"), Count(s, "Settled") + Count(s, "Slashed"),
                ~reader.failed)

\* saveCache, whose failure is swallowed, and the result goes to the selection.
Finish ==
    /\ Done
    /\ cacheFile' \in {cacheFile, reader.cache}
    /\ reader' = Idle
    /\ UNCHANGED chainVars

\* The process dies before the cache is written, or the selection is given up.
Crash ==
    /\ reader.busy
    /\ reader' = Idle
    /\ UNCHANGED <<chainVars, cacheFile>>

----------------------------------------------------------------------------
\* Everybody's transactions: this orchestrator's own and the users'.
ChainMoves ==
    /\ \/ Chain!Tick
       \/ \E u \in User : Chain!Submit(u)
       \/ \E i \in Intent :
            \/ \E s \in Solver : Chain!postCollateral(s, i, Chain!Collateral(intents[i].amount))
            \/ Chain!confirmSettlement(OrchestratorKey, i)
            \/ Chain!slashSolver(OrchestratorKey, i)
            \/ \E u \in User : Chain!cancelIntent(u, i) \/ Chain!claimRefund(u, i)
    /\ UNCHANGED <<cacheFile, reader>>

Init ==
    /\ Chain!InitWith(OrchestratorKey, Solver)
    /\ cacheFile = EmptyCache
    /\ reader = Idle

Next ==
    \/ Start
    \/ \E k \in Key : Visit(k) \/ VisitCached(k) \/ VisitFails(k)
    \/ Finish \/ Crash
    \/ ChainMoves

Spec == Init /\ [][Next]_vars

----------------------------------------------------------------------------
Entry == [status : Terminal, solver : Account \cup {NoAccount}] \cup {NoEntry}

\* The types of the cache file and of readSolverRecord's locals: nothing but terminal
\* statuses is ever cached, under normalized ids.
TypeOK ==
    /\ Chain!TypeOK
    /\ cacheFile \in [Key -> Entry]
    /\ reader \in [busy : BOOLEAN, ids : SUBSET Key, todo : SUBSET Key, cache : [Key -> Entry],
                   exclusions : loadExclusions, failed : BOOLEAN, slashed : [Solver -> SUBSET Intent], misled : BOOLEAN]
    /\ reader.todo \subseteq reader.ids
    /\ ~reader.busy => reader = Idle

TrueOrAbsent(cache) == \A k \in Key : Cached(cache, k) => cache[k] = Truth(k[1])

\* "L1: a TERMINAL on-chain status never changes once reached": whatever is cached, in
\* the file or by a run under way, is the intent's final outcome on chain, however long
\* ago and between whatever transactions it was read.
CacheIsTrue == TrueOrAbsent(cacheFile) /\ TrueOrAbsent(reader.cache)

\* "a strict subset of the truth, never an overcount" (ReadSolverRecordResult.complete), as
\* far as this run could read the exclusions: no intent counts twice, for a solver it did
\* not end with, or although the exclusions that were loaded name it.
NeverOvercounts ==
    Done => \A s \in Solver, status \in {"Settled", "Slashed"} :
        Count(s, status) <= Cardinality(LeftTo(s, Outcomes(s, status), reader.exclusions))

\* The true record, less what exclusions name, earned the tier of s: it is long enough, and
\* its settlements have the rate against every slash of before the selection.
Earned(s, exclusions) ==
    LET settled == Cardinality(LeftTo(s, Outcomes(s, "Settled"), exclusions))
        slashed == Cardinality(LeftTo(s, Outcomes(s, "Slashed"), exclusions))
        slashedBefore == Cardinality(LeftTo(s, reader.slashed[s], exclusions))
    IN  Tier(s) < OnboardingTier[s] =>
            /\ settled + slashed > 0 /\ settled + slashed >= PromoteMinResolved
            /\ 100 * settled >= PromoteMinSuccess * (settled + slashedBefore)

\* An incomplete record "must never be trusted enough to promote a solver" (computeTier):
\* every promotion is earned under the exclusions that were loaded, whichever reads fail
\* and whichever sources of ids or cache cannot be read, short of a node that lags.
PromotionIsEarned == Done /\ ~reader.misled => \A s \in Solver : Earned(s, reader.exclusions)

\* A late answer is not noticed: the intent counts as Pending, the record as complete.
PromotionIsAlwaysEarned == Done => \A s \in Solver : Earned(s, reader.exclusions)

\* "An excluded intent counts as neither settled nor slashed" (solver_stats.ts:120), so no
\* promotion needs one: every promotion is earned under the exclusions there are.
ExcludedNeverPromotes == Done /\ ~reader.misled => \A s \in Solver : Earned(s, Exclusion)
=============================================================================
