# Ma'at: a TLA+ verification of cross-chain intent settlement

Ma'at lets a user escrow funds on an EVM chain and be paid on Solana. A user
opens an *intent* in an escrow contract; a solver locks 150 % of it as
collateral; the orchestrator (one Node process) proves the deposit, pays the
destination on Solana and then confirms the settlement on the EVM chain, which
pays the solver. If the payout does not happen the solver is slashed and the
user is refunded. Everything hard is between the chains: the process holds keys
to both and must neither pay twice, nor be paid for what it did not deliver, nor
punish a solver that did deliver, across crashes, lost answers, lagging RPC
nodes and overlapping timers.

This directory holds the models, the TLC runs and the TLAPS proofs.
Paths are relative to `src/`.

## 1. Inventory

| Component | State | Operations | Talks to |
|---|---|---|---|
| **EVM escrow contract** `contracts/evm/src/IntentManager.sol` | intents (owner, amount, token, expiry, status, solver, collateral), approved solvers, treasury credits, volume window, pause, balances | submitIntent, postCollateral, confirmSettlement, slashSolver, cancelIntent, claimRefund, withdrawTreasury, pause/unpause, setters | users, solvers, the orchestrator's key |
| **Arbitrum settlement sequence** `orchestrator/src/arbitrum_settlement.ts` | its position in the sequence, backoff, snapshots of a slash pass | runArbitrumSettlementSequence, resume…FromCollateralPosted, confirmSettlementWithRetry, pollAwaitingSlash, resumeConfirmIfSolanaLanded, reconcileArbitrumLedger | contract (signed transactions, reads), both ledgers, payout |
| **Arbitrum ledger** `orchestrator/src/arbitrum_ledger.ts` | stage, solver, tx hashes per intent, in memory and in a file | setArbitrumStage, getMidSequenceEntries, getAwaitingExpirySlashEntries | sequence, pollers, boot |
| **Settled ledger** `orchestrator/src/prover_pipeline.ts` (first half) | none / settling(sig) / settled per intent, in memory and in a file | markSettling, markSettled, loadLedger, reconcileSettlingLedger | payout, pollers, boot |
| **Solana payout leg** `listener.ts` runSolanaPayout, `orchestrator/settle_intent.js` | one child process per attempt: the nonce it read, its escrow, the payout it signed, its exit | submit_intent, SETTLING_SIG / GO handshake, broadcast, poll for confirmation, exit code | settled ledger, Solana program |
| **Listener process** `orchestrator/src/listener.ts` | timers, watchers, boot order | main, triggerZKVerification, finality poller, slash poller, reconciliation timer | everything above |
| **Solana escrow program** `contracts/solana/maat/programs/maat/src/lib.rs` | program state, intent accounts and their lamports, circuit breakers | submit_intent, receive_settlement, cancel_intent, set_circuit_breaker, pause/unpause | payout child, owners |
| **Prover pipeline** `prover_pipeline.ts` (second half) | FIFO queue, retry count; prover processes, lock and proof files on the host | ProverQueue, proveIntent, runProverProcess, readProofJson, evaluateSettleGate | listener, ZK host |
| **Solver routing** `solver_routing.ts` | reservations per solver | selectSolver, ReservationBook, dispatchArbitrumSettlement | sequence, statistics |
| **Solver statistics** `solver_stats.ts` | a cache file of final outcomes | listKnownIntentIds, readSolverRecord, computeTier | contract (reads), state files, ledger file, routing |
| **RPC rotation** `rpc_rotation.ts` | cooldowns shared by the process, the next endpoint of each client | rotationOrder, recordCapacityError, attemptSweep, request | every RPC, the event watchers |
| **Intent state records** `intent_state.ts` | a JSON file per intent | upsert and its setters, finality | pipeline, payout, dashboard |
| **TRON listener** `tron_listener.ts` | cursor and dedupe keys per event | poll, deliver | TronGrid, records |
| ZK guest and host `zk/` | none | receipt and header verification | prover pipeline |

What is hard, and where it bites, is the `hazards` list of `PROJECT.json`; in short:

* **Crashes.** The process may die between the signing of a transaction, the write
  of a ledger, the broadcast, the inclusion and the answer, on either chain.
* **Unknown outcomes.** A call that threw may have taken effect, a payout reported
  as failed may land a minute later, a read may come from a node that lags.
* **Overlap.** `setInterval` starts a slash or reconciliation pass while the last one
  is still waiting; the sequence, a slash pass and a reconciliation pass can hold the
  same intent at once and all write the same ledger entry.
* **Races with the clock.** Delivery margin, signature validity, confirmation
  deadline and refund grace have to fit together.
* **Repeats.** A log comes twice or after a reorganisation, a poll returns what an
  overlapping one has returned, a proof file is from an earlier run.
* **Contract sequences.** Eleven entry points, three roles and a pause switch in any
  order; `postCollateral` never looks at the status.

What makes each component correct:

* *contract*: escrow and collateral leave once, in full, to the right party; the
  balance is what is owed; the volume breaker counts its window; nothing the
  administrator does traps an escrow.
* *settlement*: it implements `CrossChainSwap` (below); its ledgers never claim what is
  not so; a payout that may land is on record; a solver that delivered is not
  slashed; confirmation stops before the user's refund opens; a landed payout is
  recorded in the end and the queue is always given back.
* *payout leg*: it implements `PayoutLeg` (below): one payout per swap, on record before it is
  broadcast; only failed attempts leave lamports escrowed; a child that signed ends.
* *routing*: no solver's capital is promised twice; a reservation lives exactly as long as
  its job or its hold.
* *statistics*: what is cached is final; no outcome counts twice; a promotion is earned, as far as the exclusions could be read.
* *RPC rotation*: a capped key is spared, one good key is enough, a watcher that lost its
  filter gets a new one.
* *prover pipeline*: only what is on the canonical chain gets settled, once; a job that fails
  does not stop the queue; the dashboard claims no more than the ledger.
* *TRON listener*: no event is skipped, none handled twice, each one arrives.
* *Solana program*: a pending escrow is whole and a closed account empty; the slippage
  floor holds in exact arithmetic; wallets add up; an owner always gets out.

## 2. Modules

| Module | Models |
|---|---|
| `IntentManager` | the escrow contract, one action per external function |
| `MCIntentManager` | its instance for TLC |
| `IntentManagerProofs` | its theorems |
| `CrossChainSwap` | the abstract specification of a settlement: what clients may rely on |
| `Settlement` | the orchestrator's settlement running against `IntentManager` (`Chain == INSTANCE IntentManager`), and the refinement mapping to `CrossChainSwap` |
| `MCSettlement`, `SettlementProofs` | its instance for TLC (symmetry of the slash passes); its theorems |
| `PayoutLeg` | the abstract specification of the payout: what the settlement may rely on |
| `SolanaPayout` | the payout child, its attempts and its parent, over `SolanaProgram` (`Program == INSTANCE SolanaProgram`), and the refinement mapping to `PayoutLeg` |
| `MCSolanaPayout`, `SolanaPayoutProofs` | its instance for TLC; its theorems |
| `SolverRouting` | the reservation book, solver selection and the collateral leg of concurrent jobs |
| `MCSolverRouting`, `SolverRoutingProofs` | its instance for TLC; its theorems |
| `SolverStats` | known ids, cache, reads, counts and tiers, over `IntentManager` |
| `MCSolverStats`, `SolverStatsProofs` | its instance for TLC; its theorems |
| `RpcRotation` | overlapping requests over shared cooldowns, and one event watcher |
| `MCRpcRotation` | its instance for TLC; its theorems are in `ListenerProofs` |
| `ProverPipeline` | from a log to a settlement: queue, provers on the host, settle gate, records |
| `MCProverPipeline`, `ProverPipelineProofs` | its instance for TLC; its theorems |
| `TronListener` | overlapping polls of one TRON event |
| `MCTronListener` | its instance for TLC |
| `ListenerProofs` | the theorems of `RpcRotation` and of `TronListener` (`Tron == INSTANCE TronListener`) |
| `SolanaProgram` | the Solana program, one action per instruction |
| `MCSolanaProgram` | its instance for TLC |
| `SolanaProgramProofs` | its theorems |

### IntentManager

Every external function is one atomic action. A revert undoes the call, so a call
that reverts is an action that is not enabled. `nonReentrant` on the fund movers keeps
callbacks out. `paid` is the only history variable: what each intent has paid and to
whom. ERC20 escrow records what arrived (a fee-on-transfer token delivers any amount up
to the one asked for); a recipient in `NonPayable` refuses native transfers.
Destination, slippage and proof hash are stored and emitted but never read by the
contract and are left out, as are `uint256` widths (checked arithmetic reverts, and the
bounds stay far below).

### Settlement

Node runs one task at a time and switches only at an `await`; an action is therefore the
code between two awaits, and `task[t].pc` names the await a task is in.

| `pc` | code |
|---|---|
| `gate`, `post`, `postWait` | runArbitrumSettlementSequence, step 1 |
| `verify`, `pay` | resumeArbitrumSettlementFromCollateralPosted, steps 2 and 3 |
| `child`, `childWait` | runSolanaPayout before and after the child's SETTLING_SIG |
| `cread`, `csign`, `cwait` | confirmSettlementWithRetry |
| `pcheck`, `psig`, `ssign`, `swait` | pollAwaitingSlash, one entry of one pass |
| `rcheck`, `rresume` | the reconciliation timer, one entry of one pass |

`Sequencer` is the one job of the prover queue, or the boot resume, which is awaited the
same way. `Poller` and `Reconciler` are sets of passes that may overlap. `phase` is the
order of `main`: settled-ledger reconciliation, the two loops of
`reconcileArbitrumLedger`, then `up`, when watchers and timers start. `Crash` may happen
at any time and loses `task`, `settled` and `arb`; the next `Boot` reads `settledDisk` and
`arbDisk`.

Both ledgers have a copy in memory and one in the file. `DiskMayFail` lets the settled
ledger's write fail; `persistLedger` swallows it. `ArbDiskMayFail` lets the write of
`setArbitrumStage` fail; it throws after the map was changed, so memory is ahead of the file and
what happens next depends on where it throws: inside `onSigned` it is one more failure of
`signAndSend`, before the broadcast (`PostUnrecorded`, `ConfirmUnrecorded`,
`SlashUnrecorded`: memory holds the hash of a transaction that was signed in vain); elsewhere the task
ends (`setArbitrumStageAndEnd`, `PostSucceeds`); in the boot reconciliation it ends the process, which is
`Crash`. A later successful write of any entry stores the whole map.

`txs[i]` and `sigs[i]` are the signed Arbitrum transactions and Solana payouts: *signed*
is not *broadcast* (`Broadcast`, `ChildSends`) is not *executed* (`Mine`, `PayoutLands`).
`PostFails`, `ConfirmFails`, `SlashFails` may happen in every state of the transaction they
wait for: that is what an exception of `sendRawTransaction` or
`waitForTransactionReceipt` tells the code. A signed payout can land until its blockhash
expires (`SigValidity`), also after its child has exited or the parent has died; a child
that never got to broadcast takes its signature with it (`dead`). `ReadIntent` answers
with the truth or, with `StaleReads`, with an earlier record.

The users open, cancel and reclaim; a rival solver may lock an intent first. The
administrator's calls and `withdrawTreasury` are not in this composition (they are in the
contract's own runs). The payout appears as its signature's life; what happens in the child is
`SolanaPayout`.

### PayoutLeg and SolanaPayout

`PayoutLeg` says what `Settlement` takes for granted of a payout: a signature becomes the record
of its swap before it is broadcast, the record is never replaced, only the recorded signature
is broadcast and lands, "settled" follows the landing, and each destination
receives exactly the amounts of the signatures that landed.

`SolanaPayout` models every attempt as a process of its own, `child[<<swap, k>>]`. `pc` is its place in
`runSettlement`: `fetch` (the nonce is read), `confirm` (`submit_intent` was sent), `wait`
(SETTLING_SIG printed), `poll` (broadcast), `ok`, `failed`. `escrow` and `pay` are its two
transactions, which live on when it is gone; `owned` says that its parent still listens to it. The parent's
handlers are `ParentRecords` (`markSettling`, then `GO`) and `ParentSees` (the `close`
event). `Fails` stands for every exception, also one of a call that took effect. After
`ParentCrashes` the child goes on as an orphan. `ReadNonce` is the
program's nonce as a node reports it, up to `Lag` behind, and is read twice: for the
account of the escrow and, minus one, for the account of the payout. `Others` submits intents of another
wallet, which move the nonce. The program's pause and circuit breaker stay open: closed
they only keep transactions from landing, which need not land anyway.

### SolverRouting

`dispatchArbitrumSettlement` as a set of jobs that may overlap, each with the await it is in
(`Reads`, `Decide`, `Gate`, `PostSign`, then the receipt). `decide` is synchronous, so
selection and `reserve` are one step; the mutex only orders the reads. The book is memory,
the Arbitrum ledger's `posting_collateral` entries are on disk, and a job's own
reservation hides its own entry. `View` is a balance as a node reports it, up to `Lag` late;
`Patience` bounds the time between reads and decision, `Hold` is how long confirmed
collateral stays booked. `BootOutlastsLag` says that a boot takes longer than a node lags
(boot reads both chains for every open entry before the first watcher starts).
`MayLoseReceipt` lets the wait for a receipt throw. Tiers and
success rates are constants; approval and the track record are an arbitrary subset.

### SolverStats

One selection after the other, under the book's mutex: `Start` lists the ids of the state files and
of the Arbitrum ledger and loads the cache and the exclusions (each of the four may be unreadable and
then counts as empty, `loadExclusions` and `NoExclusions` for the last); one `Visit`, `VisitCached` or `VisitFails` per id, with everybody's transactions
(`ChainMoves`) in between; `Finish` counts, moves the tiers and writes the cache, unless that
fails. `keyOf` removes the spelling. `reader.exclusions` is what the run loaded, and decides what it
counts (`Excluded`), whereas the constant `Exclusion` is what the file says. `reader.slashed` and `reader.misled` are history, for
`PromotionIsEarned`: what had been slashed when the selection began, and whether a node that
lags answered Pending. Addresses have one spelling, rates are integer percentages.

### RpcRotation

A request is a sweep over `order`, the order it took when it began; `Answered`, `TriesNext`,
`Pauses` (another sweep follows) and `Throws` end an attempt. `coolDown` is shared by all clients,
`nextStartIndex` is each client's own. `Watcher` is the request that polls an event filter: once
`initialized` it is understood only by the endpoint that holds `filter`, and only an error "filter
not found" at the end of the last sweep makes it create another. `endpoint` and `filter`
change at any time (an endpoint answers, is capped or dead; a filter expires). `usable` and
`hits` are history.

### ProverPipeline

As in `Settlement`, an action is the code between two awaits; `job.pc` names the await.
The settlement itself appears only in what it does to the settled ledger and the record
(`ChildSigns`, `ChildFails`, `ChildSucceeds`). Provers are processes of
the host: a crash of the listener orphans them (`mine = FALSE`), the lock and the
files stay. `proof[i]` has the block each of the two files commits to: `prove.rs` renames the
`.bin` first and exits 0 even when the `.json` could not be written, so the two may
come from different runs. `where[i]` is the canonical block of the intent's
transaction, which `ChainMoves` changes. `RecordMayFail` makes the write of a record throw: inside
a job that is a rejected promise, in the child's `data` handler `GO` is never sent, in its
`close` handler the promise never settles (`stuck`). Expiry and the checks on the proof's fields are an
arbitrary refusal of the gate. A lagging node that still reports a reorganised
block as canonical is left out: the gate asks once.

### TronListener

One of the three events, which share nothing. `request` is what is in flight: asked with the
cursor of its time, answered with a page (`Pages`: the first `Limit` by timestamp, in any order
inside a block), delivered later. Every tick may start a request: see `MCTronPileUp`. A
restart starts at the present.

### SolanaProgram

An instruction that fails has no effect, so each is an action guarded by its
requirements; the signature checks are in who the action's wallets are. Intent accounts are
named by their nonce, circuit breakers by their channel (both are derived addresses). The
`u128`-to-`u64` cast of the slippage deduction is `% U64`. Rent, and a destination that is
itself an intent account, are left out.

### CrossChainSwap

Per intent: `escrow` (none, open, locked, released, returned), its `holder`, and how often
the destination was paid. A payment needs a lock held by one of this
orchestrator's solvers and happens at most once; the escrow is released to the solver only
after it. `Settlement` maps the contract's status to `escrow`, the contract's solver to `holder` and
the number of landed signatures to `delivered`.

## 3. Runs

All with `tlc -config X.cfg M`. `CHECK_DEADLOCK FALSE` throughout: the clock, the
number of intents, of transactions and of crashes are bounded, so every model can come
to a stop that the system does not.

| Run | Config | Shows |
|---|---|---|
| `contract` | `MCIntentManager` | `PaidExactlyOnce`, `Solvency`, `VolumeCountsTheWindow`, `EscrowNeverTrapped`, `TypeOK`: two intents, two accounts in every role, one of which refuses ETH, ETH and a fee-taking token, all calls in all orders (0.75 M states) |
| `settlement` | `MCSettlement` | `ImplementsSwap`, `LedgersTellTheTruth`, `NoUnrecordedPayout`, `DeliveryGetsRecorded`, `SequenceEnds`: two crashes, lagging reads, lost receipts, failing writes of the Arbitrum ledger, a rival solver, no assumption on timing (0.27 M states) |
| `settlement_timed` | `MCSettlementTimed` | `DeliveredNeverSlashed`, `ConfirmEndsBeforeRefund`: no crash, two overlapping slash passes, timing assumptions below (3.1 M states) |
| `routing` | `MCRouting` | `CapitalCovers`, `CommitmentsCounted`, `NoLeakedReservation`, `TypeOK`: concurrent jobs for capital that covers one, lagging balances, two crashes (0.68 M states) |
| `prover` | `MCProver` | `SettledWasOnChain`, `NoSecondPayout`, `RecordsClaimNoMore`, `QueueDrains`: two deliveries, reorganisations, a crash with an orphan, failing record writes (0.63 M states) |
| `tron` | `MCTron` | `NothingSkipped`, `HandledOnce`, `EventsArrive`: two requests in flight, blocks that fill a page, a restart (21 k states) |
| `solana` | `MCSolanaProgram` | `EscrowIsWhole`, `SlippageRespected`, `WalletsAddUp`, `OwnerGetsOut`, `TypeOK` (0.52 M states) |
| `rpc_rotation` | `MCRpc` | `SparedWhileCooling`, `OneGoodKeyIsEnough`, `WatcherRecovers`, `TypeOK`: the watcher and the finality poller on one client, endpoints that are capped, die and recover at any time (0.13 M states) |
| `payout` | `MCPayout` | `ImplementsLeg`, `OnePayoutPerSwap`, `LockedByFailuresOnly`, `SignedChildrenEnd`, `TypeOK`: two swaps to one wallet with nearly the same amount, two attempts, an orphan, a lagging nonce, another user (0.85 M states) |
| `solver_stats` | `MCStats` | `CacheIsTrue`, `NeverOvercounts`, `PromotionIsEarned`: three intents, two solvers, failing and lagging reads, any file unreadable; the last two against the exclusions as they were loaded (1.7 M states) |
| `settled_ledger_write_fails` | `MCDiskFailure` | **violated**: `NeverPaidTwice` |
| `late_resume` | `MCLateResume` | **violated**: `DeliveredNeverSlashed` |

Further configurations, for the same modules. Larger instances, which hold: `MCSettlementTwoSolvers` (two
solvers of this orchestrator; run on `SettlementProofs`, it checks the invariants that the proofs of section 4 rest
on, 1.6 M states)
and `MCRpcThreeCalls`. Statements that do
not hold, with TLC's counterexample: `MCLostReceipt`, `MCProverRecordFails`, `MCConfirmMargin`,
`MCRoutingLostReceipt`, `MCRoutingRestartLag`, `MCProverMirror`,
`MCProverFinality`, `MCTronPileUp`, `MCTronSeenLimit`, `MCPayoutForeign`, `MCPayoutHang`, `MCStatsLag`,
`MCRpcQuiet`, `MCStatsExclusions` (items 3 to 16 below), and `MCRoutingShortHold` and `MCRoutingSlowDecision`, which
drop one hypothesis each of `CapitalIsCovered`.

### Bounds

* *One intent in `Settlement`.* Two intents share nothing but the sequencer (which
  runs one at a time) and per-entry ledgers; the interference that matters is several tasks
  on one intent. The contract, where intents share a balance and a volume window, is
  checked with two. The theorems of `SettlementProofs` are about any number.
* *Two crashes*: one to leave a half-done state, one to interrupt the recovery from it.
* *One own solver in `settlement`*, chosen again by a second dispatch, and a rival; two own
  ones in `MCSettlementTwoSolvers`.
* *`MaxTx` 3 or 4*: a postCollateral and two or three competing confirmations or slashes.
  *`MaxSigs` 2*: a second payout is representable, so `NeverPaidTwice` and
  `ImplementsSwap` can fail.
* *Clock.* The run `settlement` has `Patience = MaxTime`: a task may take for ever,
  no timing is assumed. The timed run counts in units of the signature validity.
* *Solana amounts* 0, 3, 5 with slippage 0, 50 % and 200 % and `U64 = 8`, so that rounding,
  the narrowing cast and the underflow of `checked_sub` all occur.
* *Routing*: two jobs and capital for one of them is the smallest contention; the run needs
  `Lag + Patience <= Hold` and `Patience < Hold`, i.e. a node's lag and the wait for a decision fit into the
  hold (`RESERVATION_HOLD_SEC`, 30 s), and `BootOutlastsLag`: a restart forgets the holds, and while a node lags nothing else
  counts collateral mined just before it (`MCRoutingRestartLag`). Without either inequality a balance read before the collateral was mined is
  used after the hold is gone (`MCRoutingShortHold`, `MCRoutingSlowDecision`).
* *Payout*: prices 200 and 199 to the same wallet, so that within 50 bps an escrow made for one swap
  can be released for the other; two attempts of the first swap, one of the second, three intent accounts.
  `Lag` 1 lets the nonce be off by one in either reading.
* *Statistics*: a threshold of one resolved intent, so that a promotion happens within three intents; one
  exclusion, of an intent that the named solver or the other may take, so that an excluded settlement alone
is enough to promote (`MCStatsExclusions`).
* *RPC rotation*: two endpoints (any number in the theorems of `ListenerProofs`), one repeated sweep, cooldowns of two ticks; the
  watcher and the finality poller share a client (a second client in `MCRpcThreeCalls`).
* *Prover pipeline*: two deliveries of one intent (a repeat, and a job behind another), two
  positions in the chain (so that a proof can be of the wrong one), two attempts, slots for an
  orphan and for the job's own prover. All that two intents share is the queue and the lock.
* *TRON*: `Limit` 2 with up to 2 events in a block, so that pages cut blocks; a block that
  fills a page holds the cursor for ever, and `EventsArrive` says so. The dedupe keys stay
  below `SeenLimit`.
* *`REFUND_GRACE`, `VOLUME_WINDOW`* are a tick or a few: only the order of events matters.

### Timing assumptions of `settlement_timed`

A task takes at most `Patience` between two looks at the clock (`Tick` waits for it). The two
properties need

* `Patience + SigValidity <= DELIVERY_MARGIN_SEC`: a payout attempt begun just before
  the delivery deadline is dead or landed at expiry;
* `CONFIRM_RETRY_MAX_SEC_AFTER_EXPIRY + Backoff + Patience <= REFUND_GRACE`: the last
  confirmation attempt, begun after the longest sleep, is over before `claimRefund` opens.

The shipped defaults (20 h, 30 min backoff, 24 h grace, a margin of minutes against a
blockhash life of about 90 s) satisfy both as long as no RPC call hangs for longer.

### Fairness

* contract: time passes, and an owner who wants the escrow keeps calling (`WF`). Nothing
  is assumed of the orchestrator, the solvers or the administrator.
* Solana program: the same.
* settlement: the runtime keeps running its tasks (`WF` on the sequencer and on boot: an
  await ends, with an answer or an error; every Arbitrum call has a timeout, the payout child
  has one from its signature on, see `SignedChildrenEnd`, and before it none, see item 12), the process
  supervisor restarts it, `setInterval` keeps starting reconciliation passes (`WF`), a
  signature check does not fail for ever (`SF` on `ReconcileCheck`: each pass asks again through rotating
  endpoints) and the clock is not held up for ever by slow tasks (`SF` on `Tick`). Nothing is assumed
  of the chains, of users or of the success of any call.

* prover pipeline: a running prover ends (`WF`: `RuntimeMaxSec`), a waiting one gets the lock in
  the end (`SF`; a waiting `flock` has no timeout of its own), and every await of the job ends
  (`WF`: sleeps, RPC timeouts, the child's own timeouts, `SequenceEnds`). Nothing is
  assumed of the success of any of them.
* payout: the timed steps of a child that signed are taken (`WF` on `TimedStep`: `waitForGo`, `withTimeout`
  and the deadline of `pollForConfirmation`). Nothing is assumed of its steps before, of the parent or of Solana.
* RPC rotation: an attempt ends (`RPC_TIMEOUT_MS`), pauses end, intervals keep polling, the clock runs (`WF`).
  `WatcherRecovers` assumes that the endpoints stop changing and one of them answers.
* TRON: blocks get confirmed, the interval ticks, an answer that arrived is processed (`WF`), and
  a fetch does not fail for ever (`SF`: it is retried with every tick and with each API key).

### What the violated runs show

1. **A failed write of the settled ledger lets an intent be paid twice.** `persistLedger`
   catches the error and only alerts; `GO` is still sent. After a crash nothing on disk
   says that a payout was signed, and boot resumes from `collateral_posted` and pays
   again. `prover_pipeline.ts:86-88` says the ledger is "enough to stop this orchestrator from
   double-settling the same intent across its own restarts".
2. **A late restart can slash a solver that delivers.** The first payout attempt of a
   resumed sequence looks at no clock. Begun after `expiry - DELIVERY_MARGIN_SEC`, its child may
   fail after broadcasting; the slash poller sees nothing landed at expiry and slashes; then
   the payout lands. Without a crash (`settlement_timed`) it cannot happen.

The further configurations:

3. **A lost postCollateral receipt is recorded as a failure, without its hash** (`MCLostReceipt`,
   `UnknownOutcomeStaysOnRecord`). The
   transaction may be mined all the same: collateral locked, entry `collateral_failed`, and
   no boot pass, poller or retry looks at it again until the user's `claimRefund` forfeits the
   collateral. `arbitrum_settlement.ts:855-858` says that an intent whose outcome was never learned
   is resolved from the recorded hash.
4. **A failed write of a display record can block the prover queue** (`MCProverRecordFails`,
   `RecordsStopNothing`). The record is
   written in the payout child's `close` handler before `resolve`; if it throws,
   `uncaughtException` only logs, and the job never ends.
5. **The boot check on the confirmation deadline leaves out the backoff**
   (`MCConfirmMargin`, `ConfirmEndsBeforeRefund`). It accepts
   any value below 24 h; within one backoff of it the process still confirms when the user may
   take the refund. `arbitrum_settlement.ts:63-67` says it fails fast rather than risk that. The
   20 h default is safe.
6. **A lost receipt also frees the capital it commits** (`MCRoutingLostReceipt`, `CapitalCovers`). The
   reservation is released on every outcome that is not ok (`solver_routing.ts:406`), and the entry
   no longer counts as in flight, so the next selection books the same balance.
7. **A late reconciliation answer overwrites a settled record** (`MCProverMirror`, `RecordMirrorsLedger`). "Not landed" was true when asked;
   applied after `markSettled` and `setSettled` it leaves the record at needs-review,
   and only `settling` entries are looked at again. The ledger stays right.
8. **Finality goes by block number** (`MCProverFinality`, `FinalIsOnChain`). The hash in the record is not compared, so a record of a
   block that was reorganised away becomes final.
9. **The TRON in-flight guard never holds** (`MCTronPileUp`, `NoPileUp`). `pollEvent` returns nothing to wait for. The
   cursor and the dedupe keys make the overlap harmless (run `tron`).
10. **Clearing the TRON dedupe keys forgets the events at the cursor** (`MCTronSeenLimit`,
    `HandledOnce`), which the next poll fetches and handles again.
11. **A payout may be signed for another account than the one just escrowed** (`MCPayoutForeign`,
    `SignsForOwnEscrow`). `settle_intent.js:289` takes the nonce after the submission minus one, and
    anybody's `submit_intent` in between moves it, as does a node that lags. If the account is somebody else's the
    payout reverts and the lamports stay escrowed; if it is an older escrow of the hot wallet for the
    same destination it pays from that one. `ImplementsLeg` and `LockedByFailuresOnly` hold all the same. The
    nonce that derived the escrow's account was known all along.
12. **A child can hang before it signs** (`MCPayoutHang`, `ChildrenEnd`). `settle_intent.js:252-254` says every
    other bare `await` got a timeout; `program.fetch` and `.rpc()` (229, 279, 288) did not, and the
    prover queue waits for the child.
13. **A restart while a node lags counts fresh collateral nowhere** (`MCRoutingRestartLag`, `CapitalCovers`).
    The holds are memory only; the gate's own balance read is the last check.
14. **A lagging node hides a slash from the track record** (`MCStatsLag`, `PromotionIsAlwaysEarned`). A stale
    Pending is not an error, the record counts as complete and may promote. The rule that an incomplete
    record never promotes (`solver_stats.ts:326-332`) covers failed reads only.
15. **A watcher needs other traffic on its client** (`MCRpcQuiet`, `WatcherRecovers`). A failing poll does not move
    `nextStartIndex`; if the last endpoint of its order answers with another error, every
    poll ends with that one and the filter is never created again. The listener's client does have other
    traffic, the finality poller and two more watchers, and `rpc_rotation` relies on it.
16. **An excluded settlement can promote a solver** (`MCStatsExclusions`, `ExcludedNeverPromotes`). `loadExclusions` answers
    a file that is missing, malformed or not an array with a warning and no exclusions (`solver_stats.ts:139-151`).
    Nothing is added to `errors`, `complete` stays true, and `computeTier` may promote on an intent that the
    file excludes, where `:120-121` says that "an excluded intent counts as neither settled nor slashed". That the
    unreadable file is an empty one is intended (`solver_stats.gate.test.ts:314`, `:332`, which look at the
    counts); that the record then still counts as complete is said nowhere. What does hold is
    relative to the exclusions that were loaded: `NeverOvercounts` and `PromotionIsEarned`.

## 4. Proofs

A component's module has its properties; invariants that only the proofs need are at the head of the
proof module.

The eight proof modules hold for every value of the constants that satisfies the assumptions named
in the modules (`AccountAssumption`, `NumberAssumption`, `SettlementAssumption`, `ContractAssumption`,
`SolanaAssumption`, `PayoutAssumption`, `RoutingAssumption`, `ProverAssumption`, `TronAssumption`, `TierAssumption`,
`PartyAssumption`, `RotationAssumption`), i.e. for any
set of accounts, tokens, amounts, any number of intents, tasks, crashes and any timing. Where a theorem has a
hypothesis of its own, it is in its statement, and a run or a further configuration shows
what happens without it:

| Hypothesis | of | without it |
|---|---|---|
| `DiskMayFail = FALSE` | the theorems on payments in `SettlementProofs` | `MCDiskFailure` |
| no crash yet; `Patience + SigValidity <= DELIVERY_MARGIN_SEC` | `DeliveredIsSafe` | `MCLateResume` |
| no crash yet; room for a backoff and an attempt before `REFUND_GRACE` | `ConfirmsInTime` | `MCConfirmMargin` |
| `~MayLoseReceipt` | `SolverRoutingProofs` | `MCRoutingLostReceipt` |
| `BootOutlastsLag`, `Lag + Patience <= Hold`, `Patience < Hold` | `CapitalIsCovered` | `MCRoutingRestartLag`, `MCRoutingShortHold`, `MCRoutingSlowDecision` |
| no more events than dedupe keys | `HandledAtMostOnce` | `MCTronSeenLimit` |
| `~reader.misled`, inside the property | `PromotionsAreEarned` | `MCStatsLag` |
| only the exclusions that were loaded, inside the properties | `RecordNeverOvercounts`, `PromotionsAreEarned` | `MCStatsExclusions` |

**`IntentManagerProofs`** proves `TypeCorrect` and
`EscrowPaidExactlyOnce` (`Spec => []PaidExactlyOnce`). `PaidExactlyOnce` is not
inductive: nothing in it stops `postCollateral`, which does not read the status, from
locking new collateral on a closed intent. The inductive invariant `EscrowInv` is
`TypeOK /\ PaidExactlyOnce /\ ClosedForGood`, where `ClosedForGood` says why each closed
intent is out of its reach: closed with a solver, the solver guard stays shut; closed
without, it is past its expiry, and time does not go back; not yet handed out, it is
untouched storage. There is one lemma per action, each by the intent that the action
touches and the others. `StatusIsOneWay` (`Spec => [][OneWay]_vars`) is an action property from the same
invariant: a status that left Pending never changes. `ContractIsSolvent` and `VolumeIsExact` are about sums over
intents. A sum is a fold, and what a fold does when one element changes or is added is shown once, by taking the
smallest set of intents for which it fails (`WellFoundedInduction`); each call then changes one summand and the balance by
the same amount. `VolumeIsExact` needs `WindowInv` besides: when a window is over, every intent is older than
the next one.

**`SettlementProofs`** is the largest. Its invariant `Inv` is the contract's `EscrowInv` (through
`IntentManagerProofs`), the types, and `SettlementInv`, whose parts are predicates on the records of
one intent: what is signed and mined agrees with the contract (`WireInv`), what either copy of either ledger says
is so on the chains (`EntryInv`, `SettledInv`), what a task remembers at each await is still true when it
comes back (`TaskInv`), and boot passes run alone (`BootOK`). The lemmas are about such records, whoever changes them: first
what each contract call, signature and landing does to the parts, then which action does what. It proves
`LedgersAreTrue`, without any hypothesis. While the settled ledger can be written, `OnceInv` adds that memory and file agree, and that the
ledger has every signature and there is at most one. That gives `PayoutsAreOnRecord`, `PaysOnce` and
`SettlementIsASwap`, the refinement of `CrossChainSwap`: each step of the composition is one of the abstract
steps or a stutter. `ClockInv` keeps track of time until the first crash: no task is later than its due time, and a payout
signed after a look at the clock is dead or landed a margin later. It gives `ConfirmsInTime` and, with `SlashInv` (what is or
will be slashed expired with no payout that has landed or can), `DeliveredIsSafe`.

**`SolanaProgramProofs`** proves `EscrowStaysWhole` and `SlippageFloorHolds`. The
invariant `SolanaInv` is a type invariant of the accounts, `FreshAccounts` (an account
not handed out is empty, so that `submit_intent`'s transfer makes it exactly whole) and
the two properties. The arithmetic is one lemma, `DeductionBound`: the deduction, rounded
down and cast, times 10000 never exceeds amount times slippage; a cast that wraps
only makes the deduction smaller and so the floor higher. `WalletsAreExact` is a sum over the nonces, treated as
the sums of the escrow contract.

**`SolanaPayoutProofs`** proves `SwapsArePaidOnce` (`OnePayoutPerSwap`) from `PayoutInv`, i.e. from what it needs of the ledger, the
children and the handshake only: a child with `GO` is the one its swap's record names, what was sent had `GO`, a new child
starts only where there is no record, and only the one owned child may still get its signature recorded.
With `SolanaInv` of the program it runs against, `PayoutInv` gives `PayoutIsALeg`, the refinement of `PayoutLeg`. For
`OnlyFailuresLock` (`LockedByFailuresOnly`), `MakerInv` says that every escrow has one maker, for its swap's price, and that what is locked is
no more than what the makers not yet paid put in: a payment takes its own escrow's worth
out, or more, though perhaps from another escrow.

**`SolverRoutingProofs`** proves `ReservationsDoNotLeak` (`NoLeakedReservation`) and
`CommitmentsAreCounted` (`CommitmentsCounted`). The inductive invariant
`RoutingInv` adds to `TypeOK` that a job between decision and outcome holds a reservation for its
own intent (`JobsHoldTheirs`), that an intent has one job (`OneJobPerIntent`), that
held reservations are of collateral that is posted (`HoldsArePosted`), that a signed
transaction that can still be mined is known to a job or to the ledger (`LiveIsKnown`), and that
no job runs during boot (`NoJobAtBoot`). One lemma per action, one step per conjunct. `CapitalIsCovered` takes
`CapitalInv` besides: mined collateral is marked as such and still booked while a node or a decision may have missed it
(`MinedIsKnown`, `ReadsAreFresh`), jobs wait for the last transaction of their intent, boot begins with nothing held, and what is
promised and what was mined together fit what the solver started with (`ExposureFits`). At `Decide` the balance the job read
lacks at most collateral that is still in the book; that is where the inequalities of `HoldSuffices` are used.

**`ProverPipelineProofs`** proves `PaidOnce` (`NoSecondPayout`) from `LedgerInv` (the ledger forgets no signature, and an answer
"landed" stays true), `RecordsAreTrue` (`RecordsClaimNoMore`) from that and `ProverSavedInv` (a prover that saved knows its block), and
`SettledIntentsWereOnChain` (`SettledWasOnChain`) from `SinceInv`: the set of blocks kept since the job's start has the present one, and what the gate
was answered.

**`ListenerProofs`** proves the three safety properties of `RpcRotation`: `RotationTypeCorrect` (`TypeOK`),
`CappedKeysAreSpared` (`SparedWhileCooling`) and `OneGoodKeyServes` (`OneGoodKeyIsEnough`). First, what a sweep is: the
order of two urls (`Before`) is a strict total order, since different urls have different turns; so the number of urls
before a url is different for each and less than their number, an injection between finite sets of the same size
reaches every place, and a sweep has each url of its pool exactly once (`SweepIsWhole`). None of the properties is inductive. The invariant
`RpcInv` says of each url which requests still have it before them (`Yet`). What could have served a request all along
is ahead of it in its sweep (`UsableIsAhead`): at the last url of the last sweep nothing else can be left. The hits
of a cooling url and the requests that have it before them are together no more than the
requests (`HitsArePaidFor`): the url is dropped by the request that hits it, and a sweep that begins adds it only when it is not cooling
down, or all are, and then no hits are counted.

In its second half it proves `CursorSkipsNothing` (`NothingSkipped`) of `TronListener`. The invariant needs to
know of answers under way: with an event a page holds every event from its request's cursor up to
that event's block, the block itself excepted, all of them confirmed, and no request is ahead of
the cursor (`PagesAreWhole`). Blocks are in the past (`EventsArePast`), so that a new one adds
nothing below the cursor. `HandledAtMostOnce` bounds the dedupe keys by the events there are, so that they
are never cleared and hold all that was handled since the start.

**`SolverStatsProofs`** proves `CacheStaysTrue` (`CacheIsTrue`) and `RecordNeverOvercounts`
(`NeverOvercounts`). It instantiates `IntentManagerProofs` and uses its lemmas for the contract's steps, so that
the invariant `StatsInv` is the contract's `EscrowInv`, the types, that all keys in use are
normalized, and `CacheIsTrue`; a cached outcome stays true because of `OneWay`. The count is bounded by an injection: each
counted key is normalized, so different keys are different intents, and the intent ended with that solver and is not excluded
by what the run loaded. `PromotionsAreEarned` needs the other direction for slashes: every slash of
before the run is in the list of ids, whichever one source was unreadable, and once visited without a failure in the cache (`SlashesSeen`). A rate
that counts no settlement too many and no slash too few is the true rate or lower, and a record that counts nothing too
often is no longer than the true one. The true record is the chain's less the exclusions that the run loaded:
where it could load them, all of them.

Type correctness is a theorem of each module (`TypeCorrect`; `RotationTypeCorrect`, and a part of `TronInv`, in `ListenerProofs`).

Only model-checked: everything temporal beyond `[]`, i.e. the liveness properties (`WatcherRecovers` and the others of
section 3), which rest on fairness and `ENABLED`, both out of the prover's reach. Every safety invariant and action
property of the runs that pass is a theorem.

## 5. What is not modelled

* A ledger file torn by a crash in the middle of
  `writeFileSync` (its effect on the settled ledger is that of run
  `settled_ledger_write_fails`).
* A failing write of the settled ledger in `SolanaPayout` and `ProverPipeline`: `ParentRecords` and `ChildSigns` always
  store the settling record, although `persistLedger` swallows a failed write and `GO` is sent all the same
  (`prover_pipeline.ts:132-138`). `OnePayoutPerSwap`, `ImplementsLeg`, `NoSecondPayout` and their theorems assume the write; what its
  failure does is the subject of `Settlement` (`DiskMayFail`, run `settled_ledger_write_fails`).
* A Solana node that lags. Signature checks (`PollSig`, `ReconcileCheck` and those of the boot and of the child) may fail,
  but what they answer is true when they are asked, so `DeliveredNeverSlashed` says nothing of a node that has
  not seen yet a payout that landed. (Lagging reads of the Arbitrum contract and of the Solana nonce are modelled.)
* `ConfirmEndsBeforeRefund` is about the settlement sequence. A slash or reconciliation pass that finds a payout landed
  calls the same `confirmSettlementWithRetry`, after the deadline too, and it attempts once before it looks at the
  clock; the contract refuses the call once the intent is refunded.
* The watcher's fall-back in viem: when a filter cannot be created, viem polls by `getLogs`, or with the old filter until that is
  refused, before it asks for another; in `RpcRotation` the watcher asks again with its next poll (`Throws` leaves
  `initialized` FALSE). How a watcher that lost its filter recovers is the same.
* Refusals of the solvency gate by balance or amount (an arbitrary refusal instead),
  the choice of a solver (an arbitrary configured one), decoding of ABI, receipts and proof files.
* The display mirrors of the Arbitrum stage and of the routing decision, alert texts and
  timestamps of a record.
* The prover host's own rotation (`zk/script/src/rpc_rotation.rs`) keeps its cooldowns in a file for one
  sequential process; it is best effort by its own account and nothing depends on it.
* The ZK programs are straight-line
  cryptographic checks (the host's exit codes and files are in `ProverPipeline`), and redaction and
  the deployment scripts have no state of interest.

## 6. Plan

Done, in the order of what is at stake: `IntentManager`, `Settlement` with its abstract
specification, `SolanaProgram`, `SolverRouting`, `TronListener`, `ProverPipeline`, `SolanaPayout` with its
abstract specification, `RpcRotation`, `SolverStats`, and the failing write of the Arbitrum ledger in `Settlement`.

Proved: every safety invariant, every action property and both refinements that the passing runs check (section 4).

What remains is liveness, which stays with TLC, and what section 5 lists. Should the code change, the
order to follow is: the module, its runs, then the lemma of the action that changed.
