# XAI node: a TLA+ verification project

The repository is a blockchain node in Python (`src/src/xai`): a UTXO chain with proof of
work, a finality gadget on top of it, a transaction pool with nonces and Replace-By-Fee,
JSON files as its storage, a peer-to-peer layer, and many services around it. This project
models the parts on which the agreement, the durability and the spending rules of the node
rest, checks them with TLC on small instances and proves the most important facts with
TLAPS for every value of the constants.

Paths below are relative to `src/src/xai/core/` unless they start with `src/` or name
another package of `xai`.

## 1. Inventory

### 1.1 Finality gadget (modelled: `Finality`, `FinalizedLog`)

* **Code**: `consensus/finality.py` (FinalityManager), `blockchain/double_sign_detector.py`,
  the slashing callback in `blockchain.py`, `blockchain/slashing_manager.py`.
* **State**: pending votes and their power, certificates by hash and by height, the
  signatures the detector remembers, the certificate file.
* **Operations**: `record_vote` (reject, late, count, certify and persist), `__init__` from
  the file, `snapshot` / `restore` around a reorganisation, `can_reorg_to_height`.
* **Interactions**: votes come from the API and peers in threads of their own, under the
  manager's lock and not the chain's; `replace_chain` asks `can_reorg_to_height` once.
* **Hard**: votes repeated, late, conflicting; a crash between the certificate in memory
  and the file; a restart that forgets votes and signatures; a failed reorganisation.
* **Correct when**: certificates carry a quorum; one per height for ever; durable ones are
  in force; honest validators are not slashed; a quorum of accepted votes certifies.

### 1.2 Chain acceptance and fork choice (modelled: `ForkChoice`, `BlockTree`)

* **Code**: `Blockchain.add_block`, `_add_block_to_chain`, `_handle_fork`,
  `_check_orphan_chains_for_reorg`, `_prune_orphans`, `replace_chain`,
  `_process_orphan_blocks` in `blockchain.py`; `consensus/node_consensus.py`.
* **State**: chain, orphan pool, UTXO set, governance and contract state, transaction
  count, checkpoint, block files and state files.
* **Operations**: a block extends the tip, is pooled, or forks; a branch replaces the
  chain; orphans are connected; a sync hands over a whole chain; mining appends.
* **Interactions**: everything runs under `_chain_lock` except finality votes and mining
  (section 1.5); storage is written inside it; the pool of transactions is filtered after
  it.
* **Hard**: any order of arrival, pool overflow, nested reorganisations, write errors half
  way, certificates issued while a reorganisation runs.
* **Correct when**: the chain is linked; derived state is the chain's; certified and
  checkpointed blocks stay; a node that has seen all blocks is as high as the highest.

### 1.3 Storage, restart and crash recovery (modelled: `NodeStorage`, `BlockTree`)

* **Code**: `chain/blockchain_storage.py`, `_load_from_disk`, `restore_checkpoint` and the
  reorganisation log in `blockchain.py`, `consensus/checkpoints.py`,
  `chain/blockchain_wal.py`.
* **State**: append-only block files, state files, `checksum.json`, checkpoint files,
  `reorg_wal.json`.
* **Operations**: append a block, replace the state files one by one, seal them with the
  checksum, take or restore a checkpoint, start fast, in full, or over.
* **Hard**: a crash or write error between any two file operations; three ways to start
  which must agree; block files that keep blocks of abandoned branches.
* **Correct when**: a node starts on one save only, and on the last one.

### 1.4 Transaction pool, nonces and mining (modelled: `TxPool`)

* **Code**: `blockchain_components/mempool_mixin.py`, `mining_mixin.py`,
  `consensus/transaction_validator.py`, `transactions/nonce_tracker.py`,
  `transactions/utxo_manager.py`, `_process_orphan_transactions` in `blockchain.py`.
* **State**: the pending list, its indexes (ids, spent inputs, counts by sender, nonces),
  transactions that wait for inputs, strikes, confirmed and reserved nonces, UTXO set.
* **Operations**: `add_transaction`, removal, replacement, eviction, expiry, promotion,
  block assembly, the end, abort or failure of mining, blocks of peers.
* **Interactions**: `_mempool_lock` covers the decision in `add_transaction`, but neither
  its pruning nor mining nor the blocks of peers.
* **Hard**: indexes beside a list, several paths that update only some of them; nonces
  moved before the block is known; fee order against nonce order.
* **Correct when**: no coin is spent twice in the pool; nothing confirmed is pending; ready
  nonces are mined; nonces follow the chain.

### 1.5 Mining threads (modelled: `MiningRace`)

* **Code**: `node.py` (`start_mining`, `stop_mining`, `_mine_continuously`),
  `api_routes/mining.py`, `blockchain_components/mining_mixin.py`, and in `blockchain.py`
  the fork case of `add_block`, `_add_block_to_chain`, `_process_orphan_blocks` and
  `replace_chain`.
* **State**: the chain and the UTXO set, `_mining_target_height`, `_abort_current_mining`,
  `is_mining`, the mining thread, the snapshots of forks and reorganisations.
* **Operations**: start, stop with a join of five seconds, mining once; read the tip,
  search, append, apply, save or roll back; a peer's block, an orphan, a fork that is
  adopted or put back, a reorganisation and its rollback.
* **Interactions**: each request has a thread of its own, and `is_mining` has no lock;
  blocks of peers come in under `_chain_lock`; mining does not take it and is told only by
  the flag.
* **Hard**: every read of the tip is stale when it is used; requests that meet, or a stop
  that gives up, leave two threads with one flag; a rollback restores snapshots that miss
  what others did meanwhile.
* **Correct when**: one loop mines unless requests met or a stop gave up; a block that does
  not follow the tip gets in through the known windows only; the UTXO set is the chain's;
  a lost height is given up.

### 1.6 Peer connections (modelled: `ConnectionPool`)

* **Code**: `PeerConnectionPool` and `PeerConnection` in `xai/network/peer_manager.py`.
* **State**: a queue of idle connections for each peer, `_active_connections`, `_lock`,
  `_closed`.
* **Operations**: `get_connection` (from the queue, a new one, or a wait with the lock
  held), `return_connection`, `close_all`.
* **Interactions**: tasks of one event loop, interleaved at every `await`; the network drops
  connections; the websocket library raises exceptions the pool does not catch.
* **Hard**: a place is counted in other steps than a connection is made and closed; the
  wait keeps the lock from those who give places back; a shutdown in the middle.
* **Correct when**: the limit holds, no place leaks, no connection has two users, every
  request ends.

### 1.7 Atomic swaps (modelled: `AtomicSwaps`)

* **Code**: `SwapStateMachine`, `SwapRefundPlanner`, `SwapRecoveryService`,
  `SwapClaimRecoveryService` in `aixn_blockchain/atomic_swap_11_coins.py`.
* **State**: swaps in memory, one JSON file each, what the planner found, a recovery round.
* **Operations**: create, transitions, refunds that are due, claim recovery in stages, a
  restart that loads the files.
* **Interactions**: callers, planner and recovery use one state machine; it locks a call,
  not a sequence of calls.
* **Hard**: a claim on the edge of the timelock against a refund found due; writes refused
  or torn without a word; restarts between counting a try and trying.
* **Correct when**: a swap is settled once and stays so; tries are bounded; a broken swap
  delays the others by a bounded number of rounds.

### 1.8 Staking pool (modelled: `Staking`)

* **Code**: `StakingPool` in `defi/staking.py`. Only its unit tests use it.
* **State**: validators (own stake, delegated stake, commission, jail), delegations with
  shares and rewards, unbonding entries, totals.
* **Operations**: registration, delegation in all its steps, rewards, slashing, jail.
* **Hard**: every division rounds down, and shares, stakes and rewards are added up in
  different places, so that what counts is the sum over many calls.
* **Correct when**: the totals are the sums, tokens are conserved, rewards are backed.

### 1.9 Parts not modelled

| Part | State and operations | Why not (yet) |
|---|---|---|
| P2P synchronisation (`p2p/`), reputation | peers, request rounds, checkpoint download | its deliveries are inputs of the models; `ChunkedSync._download_chunk` reads `metadata.chunk_hashes`, which `SnapshotMetadata` does not have, so a download from a peer never gets that far |
| Slashing, validator rotation | stakes, epochs, jail | managers that `Blockchain` does not call; the slash of a double sign is in `Finality` |
| Difficulty, rewards, bonuses | functions of block times and heights | arithmetic; difficulty is `Work` in `ForkChoice` |
| Custody: treasury, multisig, time-locked withdrawals, circuit breakers | approvals, timers, half-open state | next candidate: module `Custody` |
| HTLC contracts on the two chains | scripts, deployment | pure functions; the swap they serve is in `AtomicSwaps` |
| DeFi but staking, oracles, trading, margin | in-memory books | sequential arithmetic |
| Token contracts, account abstraction, EVM | maps of balances, an interpreter | unit-testable, or out of reach of explicit states |
| Governance and time locks | proposals, votes | what chain they are replayed from is in `ForkChoice` |
| Light clients, bridges | header chains, messages | same comparison of work; not called by the node |
| Pruning, indexes | derived tables | losing them does not change the chain |
| Wallets, keys, signatures | cryptography | assumed: signatures cannot be forged |
| API, CLI, rate limits, AI, gamification, merchant, mobile, dashboards | requests | clients or filters of the operations above |

`PROJECT.json` lists them with their files, and the hazards of the code line by line with
the properties that address each.

## 2. Plan

Order of work, the most important behaviour first. Steps 1 to 7 are done.

1. `Finality`, with `FinalizedLog` as what it promises the rest of the node; proofs in
   `FinalityProofs`.
2. `BlockTree` (the constant tree both chain modules share), `ForkChoice`; proofs in
   `ForkChoiceProofs`.
3. `NodeStorage`; proofs in `StorageProofs`.
4. `TxPool`; proofs in `TxPoolProofs`.
5. `MiningRace`: mining threads without `_chain_lock` against the blocks of peers; it
   composes the append of `ForkChoice` with the stages of mining in `TxPool`. Proofs in
   `MiningProofs`.
6. `AtomicSwaps` and `Staking`; proofs in `SwapProofs` and `StakingProofs`.
7. `ConnectionPool`; proofs in `ConnectionProofs`.
8. `Custody`: time-locked withdrawals with the release job, multisignature approvals, the
   half-open circuit breaker.
9. Extensions of `TxPool`: wallet locks on UTXOs, the nonce file, revalidation of the pool
   after a reorganisation.

Abstract specifications: `FinalizedLog` (stated, implemented, proved). Next: a last-save
register that `NodeStorage` implements as long as block files and chain agree.

Every safety property of a passing run is a theorem now; the modules of steps 8 and 9 come
with theirs.

## 3. Modules

| Module | What it is |
|---|---|
| `Finality` | one node's gadget, one action per outcome of `record_vote`, restart, reorganisation |
| `FinalizedLog` | the abstract log: blocks are added, one per height, none ever withdrawn |
| `BlockTree` | blocks, parents, `Linked` chains, `ForkPoint` |
| `ForkChoice` | `add_block` and `replace_chain` with their failures |
| `NodeStorage` | files, crashes, the ways to start |
| `TxPool` | pool, nonces, mining, blocks of peers |
| `MiningRace` | mining threads, the flag that aborts them, blocks of peers |
| `ConnectionPool` | the websocket connections of a peer and the tasks that share them |
| `AtomicSwaps` | the swap state machine, its files, refund planner and claim recovery |
| `Staking` | the staking pool and its roundings |
| `MCFinality`, `MCForkChoice`, `MCNodeStorage`, `MCTxPool`, `MCMiningRace`, `MCConnectionPool` | instances for TLC |
| `MCServices` | `AtomicSwaps` and `Staking` in one instance; they share no state, and a behaviour is one of either, the staking pool's with or without negative amounts |
| `FinalityProofs`, `ForkChoiceProofs`, `StorageProofs`, `TxPoolProofs`, `MiningProofs`, `SwapProofs`, `StakingProofs`, `ConnectionProofs` | theorems |

How state and actions correspond to the code:

* **Finality.** `pendingVotes`, `pendingPower`, `certs`, `certAt`, `detector` are the fields
  of the two classes. `_lock` makes `record_vote` one step, split only before the file is
  written (`phase = "persisting"`). `issued` and `signed` are histories. A restored
  snapshot raises half way, as the code does, and so empties `certs`.
* **ForkChoice.** Each case of `add_block` is an action whose guard is the code's path to
  it. `replace_chain` is cut once, between its checks and the switch of the chain, because
  a certificate can be issued there: `job` is what the holder of `_chain_lock` has still to
  do. Derived state is represented by the sequence of blocks it was computed from, which
  is enough to tell whether it belongs to the chain. The branch that `Extended` builds
  follows the first orphan at each height, as `_check_orphan_chains_for_reorg` does.
  The work of a branch (`Total`) and the UTXO replay (`Replayed`) are recursive functions
  over its length. `Mine` takes no lock and so may come between two orphans, but not while
  `replace_chain` runs (`Replacing`): that restriction is the model's, see section 6.
* **NodeStorage.** One step per file operation. `seal` is what the checksum was computed
  from, so that `Intact` is exactly the comparison `verify_integrity` makes. `stray` is a
  history: block files and chain have parted (a fork saved and not adopted, a checkpoint
  restored, a failed save). A checkpoint file is a record of a block and a UTXO set, so that
  a start from one has the coins the file holds, whatever the chain is. The readers of the
  block files take, at each height, the line the code's index by height points to. The
  transaction log of `_atomic_multi_file_write` is not in the
  state because nothing reads it.
* **TxPool.** `request` takes a thread through the stages of `add_transaction` that other
  threads can fall between: the list has been read, replaced, the indexes replaced, and the
  locked decision, which is one step with one disjunct per outcome. The pending list is a
  set: its order decides nothing when fee rates differ, and what a race inserts twice
  counts once. Transactions are constants (sender, nonce, inputs, outputs, fee rate, what
  they replace). `Serial` says that operations without a common lock do not overlap: a
  request is decided, and all waiting transactions are tried, before anything else happens.
  Fee rates differ, so that the order of a block is determined. `age` is 1 when a
  transaction is too old to validate and 2 when it is too old to keep. `Sorted` is Kahn's
  algorithm with the heap by fee: each turn places the best transaction without an open
  predecessor, and `Prioritized` falls back to fees alone when predecessors go round in a
  circle, as the code does. `Before` links a transaction with the next one of its sender
  only, and not if it spends an output of it. Selection and the replay of a block are recursive functions over
  the list. `CoinsHaveOneOrigin`: a coin is named by the transaction that creates it.
  A block found ends in one of three ways: `FinishMining`; `MiningFails`, an error that is
  caught and puts all back; `StateUnsaved`, the `RuntimeError` of the state files, which is
  not caught.
* **MiningRace.** A request tests `is_mining`, sets or clears it, and makes or joins its
  thread in steps of its own; the request is also the name of the thread it makes, or of
  itself when it mines once. A mining thread is at one of the stages between which the code reads or
  writes what it shares: tip, target, flag, snapshot, chain, UTXO set, file. `Look` is the
  test of the flag every ten nonces, so a proof found in the batch in which the flag is
  raised still counts. `peer` is the thread that holds `_chain_lock`; `saved` in it is the
  stack of what `add_block` (case 3) and `replace_chain` copied, chain first and UTXO set
  after it. `_handle_fork` can return False whether or not it called `replace_chain`, hence
  `UndoFork` from both places. Histories: `missed` holds the windows through which the flag
  failed to reach a search, `during` the threads since whose snapshot others changed chain
  or UTXO set, `parted` says that a rollback met such a change or that an own block was
  stored during a reorganisation, `raced` that one request met another between its test and
  its effect, `several` that a thread began to mine beside another, `taken` which thread has
  lost its height. A block stands for one transaction. When two threads mine, two rollbacks
  can pop the chain down to nothing, and the model lets them.
* **ConnectionPool.** A step is the stretch between two awaits; the places in `at` are the
  awaits of `get_connection` and `return_connection`. `lock = t` only while `t` waits for a
  connection or closes one: other stretches under the lock have no await. A connection has
  an identity, is `open`, `dead` (the network dropped it) or `none` (closed), and leads to a
  peer. `lost` counts the places that an exception outside the pool's handlers kept.
  `shutdown.left` are the queues the drain has not left behind: it goes peer by peer, and a
  connection put back to a queue behind it stays there.
* **AtomicSwaps.** A call of `SwapStateMachine` holds its lock through the write, and so is
  one step, with the write's outcome chosen among done, refused and torn. `plan` is what the
  planner returned and the service has not handled; `todo` and `at` are a claim recovery
  round in its stages. `acked` (settlements reported), `attempted` and `waited` are
  histories, `refusedWrite` the swaps whose file missed a write.
* **Staking.** One action per public method; `FloorDiv` is `//`. A call that raises changes
  nothing, except compounding, which claims before it raises. `Amount` is a set of integers
  of either sign and `Commission` of integers up to 100%: the minimum keeps negative amounts
  from being staked or delegated, but nothing refuses one where a stake is taken back or
  moved, nor a negative rate. `MaxDebt` and
  `MaxShares` bound what such calls pile up. What only the owner passes (`Reward`,
  `Fraction`, `JailTime`) is not negative and no fraction is above one, by assumption. The
  history variables add up what was paid in, paid out, slashed and rounded away, to compare
  them with the books.

## 4. Runs

| Run | Question | Result |
|---|---|---|
| `finality_restarts` | votes with a Byzantine validator, a restart, a failed write, a rolled-back reorganisation: types, quorums, one certificate per height, nobody honest slashed | holds |
| `finality_durable` | without reorganisations: file and memory agree, no vote is lost, the file implements `FinalizedLog` | holds |
| `fork_two_branches` | anchors stay on the chain; the node converges | holds |
| `fork_nested` | forks within forks, a double spend on one branch, a write error: chain linked, UTXO set follows, never shorter or lighter | holds |
| `fork_derived` | governance, count and state files once `add_block` has returned | violated |
| `storage_crashes` | two crashes and a write error anywhere: types, checkpoints, one save, the last save | holds |
| `storage_refused` | every crash is recovered from | violated |
| `pool_serial` | operations in turn: types, no double spend, nothing confirmed pending as long as the chain is funded, ready nonces mined unless the order is circular | holds |
| `pool_nonces` | confirmed nonces follow the chain | violated |
| `mining` | requests that start and stop threads, two blocks, two failed saves, forks and reorganisations that are put back: two loops only after a stop gave up or two requests met, the windows, the UTXO set, a lost height is left | holds |
| `services` | two swaps with a restart and a faulty write: settled once and for ever (as long as files parse), tries and delays bounded; two validators and two delegators: totals, tokens, roundings, rewards, the same with one delegator and negative amounts | holds |
| `connections` | three tasks, two peers, a limit of one, connections that die, uncaught exceptions, shutdown: limit, places, no sharing, requests end | holds |

**Bounds and why they are enough.**

* Finality: four validators of power 2, 1, 1, 1 and quorum 4 of 5, the smallest set in
  which the Byzantine validator has more power than another and quorums still overlap in
  an honest one. Two blocks of one height and one above, one restart, one reorganisation:
  a conflict needs two blocks, forgetting needs one restart, a lost snapshot one
  reorganisation. The three equal validators are symmetric.
* ForkChoice: trees of six blocks besides genesis. Two plain branches of unequal length
  give every order of arrival, overflow of the orphan pool (two places) and the limit on
  the depth of reorganisations (1). The nested tree has a fork above a fork and heavier
  blocks on the shorter side, so that length and work disagree. One copy of each block in
  the pool: a second copy only repeats a decision. `fork_nested` allows one write error.
* NodeStorage: two branches of two blocks, two state files (a mixture needs two), two
  crashes (the second one while the first is repaired), one write error, one stored fork,
  one restored checkpoint, a checkpoint at every own block.
* TxPool: two senders and five transactions: a payment, its replacement, a later nonce with
  a better fee, an unrelated one of low fee, and one that spends an output not yet on the
  chain. Two places in the pool force eviction, one place for waiting transactions, one
  strike for a ban. `MaxPerBlock` is never reached; the block always takes all that is
  ready.

* MiningRace: two blocks decide every order of an own block and a peer's; with one request,
  two failed saves give a rollback of the miner and one of a reorganisation in one
  behaviour; a second request stops the first or mines beside it, at the price of the
  failures and of the second block when there is a fork; three requests make two loops, by
  two starts and a stop between or beside them, before anything is mined (`Affordable` of
  `MCMiningRace`). `Affordable` holds back requests, blocks, forks and failures only, which no
  fairness asks for. Every safety property is proved for any number of each.
* ConnectionPool: two tasks contend for the only place of one peer, which makes every wait
  happen; a third task and a second peer share the lock and the two connections with them,
  so that identities are used again; one uncaught exception per peer.
* AtomicSwaps: contracts of each kind of claim data, two swaps (one that breaks and one
  behind it), two tries, one restart, one write that goes wrong, two moments beyond the
  first timelock.
* Staking in `services`: amounts 1 and 2, a scale of 4 for fractions and a slash of one half,
  so that shares are split and divisions round; five tokens, two slashes of each validator, one
  distribution, one unbonding period. With negative amounts (`Small` of `MCServices`): one
  delegator, debts of one token, shares between -3 and 3 (what calls of both signs leave
  grows without end), four tokens, one slash or one distribution.

Deadlock is not checked in the runs of `ForkChoice` and `NodeStorage`, where a node may
have nothing left to do: all blocks received, or all crashes used and the start refused;
nor in `mining` and in `services`, where a bound on blocks, requests, deposits or the clock
ends a behaviour, nor in `connections`, where nothing happens after the pool was shut down.

**Fairness** is assumed in three runs.

* `fork_two_branches`: `WF(Finish)`, since the thread that holds `_chain_lock` runs on;
  `SF(Receive(b))` for each block, since peers answer every sync round with the blocks they
  have, so a block that is useful again and again is received in the end, and a thread that
  waits for the lock gets it. There is none for mining: a node need not mine, and
  `Converges` speaks of blocks that exist.
* `mining`: a thread that has work gets to do it (weak fairness of each miner and of the
  thread with a peer's block). Nothing makes a search succeed, a peer send a block or an
  operator act; `TakenHeightIsLeft` holds without any of them.
* `connections`: the event loop runs every task that is ready (weak fairness of `Run` and
  of the drain); `asyncio.Lock` wakes its waiters in the order of arrival, so a task that
  finds the lock free again and again gets it (strong fairness of `WithLock`). No task has
  to return its connection.

## 5. Proofs

TLAPS proves, for every value of the constants that satisfies the assumptions of the
modules:

* `FinalityProofs`: `TypeCorrect`; `QuorumTheorem`, from the invariant `QuorumInv`, which
  adds to the property that the tally equals the power of the distinct voters kept, in
  memory and in a snapshot, that all of them signed, and that honest validators signed once
  per height; `Agreement`, from the same invariant and `QuorumsIntersect` (two quorums
  share more power than the Byzantine validators hold): an honest validator in both would
  have signed twice. `HonestSafe`, with `SlashInv`: whatever the detector or a snapshot
  remembers was signed. `Durability`, with `InForce` (outside the window of a write, memory
  holds all that the file holds, and the height index is the one of the certificates).
  `FileIsFinalizedLog`: the refinement, where a write maps to `Finalize` of the heights it
  adds. `NoVoteLost`, with `VotesKept`: an accepted vote is either tallied or its block is
  certified. The last three assume `MaxReorgs = 0`: a restored snapshot empties the
  certificates (section 6).
* `ForkChoiceProofs`: `ChainStaysLinked` (`Linkage`: the chain of a job under way is linked
  as well, and orphans are blocks); `AnchorsStay` (`Anchored`: each anchor is on the chain
  and the chain a job switches to agrees with it up to the anchor's height; it assumes
  `~VotesDuringReorg`, see section 6); `UtxoStaysWithChain`; `NeverWorse` (`Compared`: the
  comparison made before a reorganisation still holds when the chain is switched, because
  the chain is locked in between). That two linked chains agree up to their fork point,
  and that a block sits at its own height, are lemmas, shown by least counterexample.
  `ForkTypesHold` adds `PoolBounded`: there is a height above which no orphan waits.
  Without it the branch that `_handle_fork` puts together need not come to an end; with it
  `Extended` is a linked branch, again by least counterexample.
* `StorageProofs`: `StorageIsWellTyped`; `StartedOnOneSave` (`OneSaveSealed`: the state
  files the checksum was computed from are of one save, and replaced files are those of the
  save under way); `StartedOnLastSave` and `CheckpointsStay`, both from `Durable`: unless
  block files and chain have parted (`stray`), the block files hold the chain in memory but
  for the lines still to be written (`MemoryOnDisk`), a failed save goes back to a shorter
  chain whose checkpoints are the ones on disk (`Undoable`), every checkpoint lies on the
  chain no higher than the anchor (`Checkpointed`), and the checksum was taken of files that
  hold the last save, with lines only added since (`Sealed`). An intact checksum then means
  that what a start reads, from a checkpoint or in full, is that save.
* `TxPoolProofs`: `PoolIsSpendable` (`PoolInv`: besides the property, each stage of a request
  has achieved what it stands for, so that a pruned request finds in `spent` exactly what
  the pending transactions spend, and a request under way is the only operation under way).
  The indexes are not in step with the pool at other times; that is why the property alone
  is not inductive. It assumes `Serial` (section 6), and its replacements
  keep to the coins of their originals (`ReplacementsStayApart`, stated in the property).
  `PoolTypesHold` needs neither: the order and the selection of a block are shown to be
  sequences of pending transactions whatever the predecessors are. `NothingIsPendingTwice`,
  under `Serial`, from `OnceInv`: while the chain is funded (`LedgerFunded`, a premise of the
  property, see section 6), what a transaction on the chain spends is in the UTXO set never
  again (`SpentForGood`, from `CoinsHaveOneOrigin`: a later block can create no coin a second
  time), nothing pending is on the chain, and the block being mined is new and spends no
  coin twice (`BlockIsNew`). `AllReadyNoncesAreMined`, an action property, needs the types
  only: when no circle is asked for, Kahn's algorithm places all of the pool, each after its
  predecessors (`InOrder`), hence a sender's transactions by nonce, although only neighbours
  are linked; and by least counterexample the selection has moved to each ready nonce when
  it comes to the transaction that has it.
* `MiningProofs`: `OneThreadMines`, from `LoopsAreKnown`: as long as no stop gave up and no
  two requests met, a start under way is the only one and has no loop beside it, and the one
  loop that runs is announced by `is_mining` or awaited by a stop. The code guarantees no
  more: both premises fail in it, and `mining` reaches both. `MiningIsTyped`, from
  `ShapeInv`: every block has a number of its own, wherever it is, so that no chain has more
  blocks than were made (a pigeonhole), and unless two threads mined or a rollback met
  another thread's change, genesis stays below whatever a rollback pops (`Grounded`).
  `OffTheTipOnlyInAWindow`, from `CourseInv`: while no change was missed and no second
  thread mined, a thread that searches follows the tip, or its height is taken and the flag
  is raised or about to be; the chain, those a reorganisation saved and the one it goes over
  to are linked. `UtxoIsThatOfTheChain`, from `UtxoInv`: unless `parted`, the UTXO set is the
  blocks of the chain but those waiting to be applied, also while it is rebuilt, a miner's
  snapshot is the set without the thread's block, and every pair that a fork or a
  reorganisation may put back is a chain with its own UTXO set.
* `SwapProofs`: `SwapTypesHold`, `SettledOnce` and `SettlementsAreKept`, from one invariant:
  the types; for a swap whose file missed no write, memory and file each agree with the
  settlements reported, where they hold the swap at all (`Settled`); every file is in
  memory unless one that does not parse kept it out (`FilesAreKnown`); a recovery round is
  at a swap that memory holds. Memory alone would not do, for a restart replaces it by
  the files, and the files alone would not, for the next call looks at memory.
  `SettlementsAreKept` says so only as long as every swap file parses. That premise is a
  strong one: every refund the planner stores tears a file (section 6), so after the first
  of them the theorem promises nothing about the swaps a restart loads.
  `AttemptsAreBounded`, from `CountsBacked`: tries are counted in memory and file before they
  are made, so the claims attempted are covered by both counts, whichever a restart keeps.
  `WaitingIsBounded`, from `WaitsBacked`: each round that a swap behind a broken one loses is
  paid for by a try of a broken swap, and the tries spent are a finite set.
* `StakingProofs`: `StakingIsTyped`, `TokensAreConserved`, `SlashRoundingIsBounded` and
  `RewardsAreBacked`, for every number of validators and delegators and every amount, also a
  negative one; only a validator's own stake, the counts and the clock are then sure not to
  be negative. The totals are sums over functions; how such a sum changes when one entry
  does, and that a sum of roundings is bounded by their number, is shown once, by induction
  over the subsets of a finite set. `Unused` adds that an address that is not registered has
  no books. Each step then states by how much it moves each sum (`Moves`).
* `ConnectionProofs`: `PoolTypesHold`, `ConnectionsExclusive`, `ConnectionsLimited` and
  `PlacesBelong`, from `PoolInv`: a task that works with a connection has one that is not
  closed and leads to its peer (`Holding`), so has a queue (`Pooled`), and the count of a
  peer is the number of its connections, of tasks between making or closing one, and of
  lost places, or more once the pool is closed (`Accounts`). The steps are grouped by what
  they do with a connection and a place, and a lemma for each group counts.

Existence of the recursive functions (`Total`, `Replayed`, `Sorted`, `Selection`, `CoinsAfter`)
is a fact to be proved, not a given: `IterationExists` proves it for all functions that are
computed one place after the other.

The assumptions on constants are those of the modules, and TLC evaluates them in the runs.
Two theorems of `TxPoolProofs` assume `Serial`, three of `FinalityProofs` `MaxReorgs = 0`, and
`AnchorsStay` assumes `~VotesDuringReorg`, because the code does not have those properties
otherwise (section 6). `AnchorsStay` and the other theorems of `ForkChoiceProofs` also rest
on the guard of `Mine`: no own block is appended while `replace_chain` runs. The theorems of
`MiningProofs` do not, but have no checkpoints or certificates.

Only model-checked: liveness (`Converges`, `TakenHeightIsLeft`, `RequestsEnd`), which is out of
the prover's reach. Every other property of a passing run is a theorem.

## 6. Where the code departs from what it says

Shown by runs (and recorded with their quotations in `PROJECT.json`):

* governance and contract state are replayed from block files of the old branch
  (`fork_derived`);
* a crash between the first block written and the checksum leaves a node that does not
  start, and neither log is used to repair it (`storage_refused`);
* block assembly moves the confirmed nonces, and an aborted or failed block leaves them
  moved (`pool_nonces`).

Known and followed by the models, without a run of their own:

* a rolled-back reorganisation empties the certificates in force (set `MaxReorgs` above 0
  in `finality_durable`); a quorum completed during a reorganisation certifies a block that
  is then removed (`VotesDuringReorg = TRUE`); pruning outside the lock of
  `add_transaction` erases entries of other threads, and a coin is spent twice in the pool
  (`Serial = FALSE` with two threads);
* the search for a heavier orphan branch follows the first orphan at each height
  (`blockchain.py:3595`), and equal length is compared before work only after length has
  decided, so a heavier, shorter branch loses (`:2735`);
* a reorganisation begun inside a fork is undone in memory and kept on disk (`:2587`);
* a transaction that cannot be applied aborts a reorganisation with a partial UTXO set
  (`:2802`);
* mining does not update the transaction count that ties are broken with;
* a restored checkpoint is undone by the next start (`:1756`), and blocks of a branch saved
  but not adopted spoil the reading of the block files; a torn last line makes a start
  without checkpoint begin a new chain; a new block file is not covered by the last checksum;
* a replacement is not checked against other pending transactions, hence the condition
  `ReplacementsStayApart`; only a first nonce can be used again by a replacement, and one
  that takes a new nonce leaves a hole behind which the sender's transactions wait;
* block assembly validates a transaction against the pool, not against the block
  (`mining_mixin.py:221`): one that came from the waiting list, and so is not in the index
  of spent inputs, is mined also when its pending parent is left out, for its nonce or age.
  The chain then spends a coin that was never created, and once the parent is mined the coin
  can be spent again: with a third sender TLC finds the child pending a second time. Hence
  the premise `LedgerFunded` of `NothingPendingTwice`; the instance of `pool_serial` does
  not reach such a chain;
* the topological sort takes a circle for something that "shouldn't happen with valid
  transactions" (`mempool_mixin.py:800`) and falls back to the order by fee. Inputs cannot
  go round in a circle, but inputs and nonces can: a sender's first transaction is removed,
  and another one with its nonce spends an output of a third party that spends an output of
  the sender's second. All other senders are then ordered by fee too, and one with a better
  fee on its second nonce has that one skipped and dropped. TLC finds it with three senders;
  `ReadyNoncesAreMined` has `PendingInOrder` as its premise;
* a replacement turned down by the caps has already removed its original;
* a transaction that spends an output of a pending one is left out of the block of its
  parent, because its own inputs count as taken; mining then drops it with the pool;
* mining empties the whole pool, blocks of peers do not move the nonce tracker, eviction
  leaves the nonce of the evicted transaction behind, and transactions that waited join the
  pool past its caps and indexes;
* mining: an own block is appended off the tip through the windows `CompetesOnlyInAWindow`
  lists; two loops mine with one flag and one target after `stop_mining` gave up its wait of
  five seconds, after two starts that tested `is_mining` at once (`core/node.py:905`), or
  after a start while another request waits for the old loop, for which the flag is already
  cleared (`:920`); a failed save restores a UTXO snapshot that may be older than another
  thread's change; a fork that is not adopted (`blockchain.py:2198`, `:2224`) and a failed
  reorganisation (`:2948`) remove an own block stored since their copies; and the two copies
  are made one after the other (`:2177`), so that with an own block between them the chain
  put back is without the block and the UTXO set has its outputs (`parted`);
* an own block, and the checkpoint taken with it, that comes between the checks of
  `replace_chain` and its switch is dropped although it was acknowledged, and the checkpoint
  guard has not seen it (`blockchain.py:2697`): `Mine` of `ForkChoice` leaves that out, and
  `AnchorsOnChain` would not hold with it;
* when the state files of an own block cannot be saved, the error is not caught
  (`blockchain_storage.py:616`): the block stays on the chain, the pool is empty, and its
  nonces are not committed (`StateUnsaved`);
* swaps: what a planner's refund stores cannot be serialised, so its write is torn; a torn
  file ends the loading and hides the swaps after it; a swap with bad data ends each
  recovery round until its tries are used up;
* staking: roundings of slashes leave delegations worth more than `delegated_stake`, which
  can become negative; unbonding stake is not slashed; undelegating again restarts the
  unbonding time; compounding drops rewards below the minimum or of a jailed validator;
  a negative amount is undelegated as a negative unbonding entry, or moved so that the
  destination's delegation becomes negative (`staking.py:342`, `:451`), and negative
  commissions are accepted (`:195`, `:232`), all of which the model has; negative rewards and
  slash fractions above one are not refused either, but only the owner could pass them and
  the model's owner does not;
* connections: a return that has passed the look at `_closed` puts its connection into a
  queue that `close_all` has drained; exceptions outside the handlers cost a place; a wait
  for one peer keeps the lock from the tasks of all others.

Read in the code and outside the models:

* `_is_mining_paused` is read but never defined, so the cooldown never pauses the loop; an
  aborted round returns nothing and the loop's `block.index` raises an error it catches;
* what a mined block does to governance and contract state, the loop's heartbeat blocks and
  the broadcast of what was found are not in `MiningRace`;
* with websockets 14 and later a connection object has no attribute `closed`: every health
  check would fail and nothing would be closed; the model takes a connection for what the
  code and its tests take it for;
* `unlock_utxos` after a rejection also frees inputs another pending transaction holds
  (`mempool_mixin.py:452`), and a replacement removes its original before the caps are
  checked (`:482`); the second is in `TxPool`, wallet locks are not;
* the nonce tracker's file (`nonce_tracker.py:102`), the sync round that measures the chain
  before it waits (`p2p/node_p2p.py:2760`), the release job of time-locked withdrawals
  (`time_locked_withdrawals.py:183`) and the half-open circuit breaker
  (`circuit_breaker.py:114`) wait for their modules.
