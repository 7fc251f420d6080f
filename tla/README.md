# TLA+ specifications of DashSync for iOS

DashSync is a light (SPV) client of the Dash network. It downloads the headers of the chain, then
the merkle blocks that concern the wallet, follows reorganisations and chain locks, keeps the
balance of the wallet's accounts, and publishes transactions. These modules specify its core in
TLA+, check it with TLC on small instances and prove theorems about it with TLAPS.

All line numbers are those of the files under `src/`; `DSChain.m` is
`src/DashSync/Models/Chain/DSChain.m`, and a manager is in
`src/DashSync/Models/Managers/Chain Managers/`. `PROJECT.json` gives the lines of every definition.

## 1. Inventory

| Component | State it keeps | Operations | Talks to |
|---|---|---|---|
| `DSChain` | `mTerminalBlocks`, `mSyncBlocks`, the two tips, `mOrphans`, `lastChainLock`, the estimates of the peers | `addBlock`, `addChainLock`, `setEstimatedBlockHeight`, wipes, saves | called by the transaction manager for each block, header and chain lock; calls wallets (`setBlockHeight`) and the chain manager |
| `DSChainManager` | `syncPhase` | `chainShouldStartSyncingBlockchain`, `chainFinishedSyncing…`, rescans, `stopSync` | asks peers for headers and blocks |
| `DSPeerManager` | peers, connected peers, download peer, misbehaving peers, `connectFailures` | `connect`, `disconnect`, `peerConnected`, `disconnectedWithError`, `peerMisbehaving`, `syncTimeout` | tells the chain manager to start, the chain what the peers' heights are |
| `DSPeer` | socket, handshake flags, `knownTxHashes`, `currentBlock`, pong handlers | one handler for each message, timeouts | the three delegates |
| `DSTransactionManager` | `publishedTx`, `publishedCallback`, `txRelays`, `txRequests`, chain and instant locks that wait, bloom filter | publish, relay, request, time out, remove unrelayed, update filter | peers, accounts, chain |
| `DSAccount`, `DSWallet` | transactions, spent and unspent outputs, pending and invalid transactions, balance | `registerTransaction`, `removeTransaction`, `setBlockHeight`, `updateBalance` | the chain |
| `DSMasternodeManager` | masternode lists, quorums, a queue of diffs to retrieve | request, process, verify, time out | decides when the headers phase ends |
| `DSGovernanceSyncManager`, `DSSporkManager` | objects, votes and sporks | request and receive | the peers |
| Core Data entities | what survives a restart | save, load | all of the above |
| Identities, DAPI, platform, prices, payment, keys, scripts, hashing | data and remote services | | not part of the core |

Most handlers of a chain run on one serial queue (`networkingQueue`), and such a handler is atomic as far
as the others there are concerned. The application's calls and timers come on the main thread, a peer has a
thread of its own, and nothing of the managers' state is locked. What makes the code hard is the order in
which handlers run, and what they share:

* the same block comes as a header in one phase and as a merkle block in the next, and two
  dictionaries and two tips move separately;
* blocks of several branches, their chain locks, orphans, wipes and phase changes arrive in any
  order, and `addBlock` and `addChainLock` call themselves and each other;
* a `DSBlock` is an object with a flag, so two objects with one hash may differ;
* reorganisations rewrite the heights of the wallet's transactions;
* peers come and go, answer late or never, and disagree about the height; their objects are replaced by equal ones;
* one thread reads what another changes before it acts on it (publishing, masternode lists);
* dictionaries shed old blocks while they are in use.

`PROJECT.json` lists these hazards one by one with the line where each bites.

What makes each component correct:

* `DSChain`: the sync chain is the one with the most work among what was synced, except where a
  chain lock decides; a chain locked block stays; checkpoints are respected; the transactions of
  the chain have the heights of their blocks; tips are never shed; a handler ends.
* `DSChainManager` and `DSPeerManager`: one download peer, which is connected; as long as peers
  answer the sync phases progress; the estimate is one that connected peers announced.
* `DSTransactionManager`: a completion is called once; a published transaction is removed only
  when no peer has it; a lock that waits for something is applied when that comes.
* `DSAccount`: the balance is the sum of the unspent outputs, of two double spends at most one is
  valid, and the balance does not depend on the order of arrival.

## 2. Modules

| Module | What it is |
|---|---|
| `DSChain` | the two chains, forks, orphans, chain locks, trimming, checkpoints, phases |
| `DSAccount` | the transactions of an account, their heights, `updateBalance` and the sort |
| `Completion` | what `publishTransaction:completion:` promises the one who asks (abstract) |
| `DSPublish` | publish list, completions, relays, requests, timeouts, mempools, on two threads; implements `Completion` |
| `DSPeers` | connecting, choice of the download peer, failures, misbehaviour, on three kinds of thread |
| `DSMasternodes` | retrieval of the masternode lists, with the sync phases, the connection and the tips of the chain |
| `…MC` | the small instances of each module that TLC checks |
| `…Proofs` | the theorems about each module, checked by TLAPS |

How they fit together. The parts meet in few calls, and each module has as much of its neighbours as
makes those calls:

* `DSAccount` has a small chain of its own (a height, a best height, the block of each transaction). What
  it sees of the chain is one kind of call, `setBlockHeight`; those it admits are the ones `addBlock`
  makes, in their order. `DSPublish` has the account's list and the heights of its transactions.
* `DSMasternodes` is the composition of the masternode manager with `DSChainManager`'s phases, the part of
  the peer manager that it calls or that calls it, and the tips of the chain. `DSChain` has the same
  phases, and takes the end of the retrieval as an input.
* `DSPeers` and the connections in the other modules agree in what they pass on: a download peer appears,
  the connection ends at any time, and what a peer did before it ended may be handled after.

The product of whole modules would be too large for TLC by several orders of magnitude, which is why none
EXTENDS another.

## 3. DSChain

### State

| Variable | Code |
|---|---|
| `syncPhase` | `DSChainManager.syncPhase` |
| `mTerminalBlocks`, `mSyncBlocks` | the dictionaries, from a block (its hash) to an object: `chainLocked`, `full` (a merkle block with its matched transactions, or a header) and `linked` (has a previous hash; a checkpoint's object has none) |
| `lastTerminalBlock`, `lastSyncBlock` | the tips |
| `staleTip` | the lock flag of the tip's own object, when `mTerminalBlocks` holds another for its hash |
| `mOrphans` | the orphan kept for each previous hash |
| `lastChainLockHeight` | `lastChainLock.height` |
| `bestEstimatedBlockHeight` | `estimatedBlockHeight` |
| `blockHeight` | the height of each wallet transaction |
| `calls` | what the running handler still has to do: nested `addBlock` calls, the second half of `addChainLock`, and its two loops that add the rest of a fork again |

What a header fixes (previous hash, height, work) is a constant tree. The walks over
`m[b.prevBlock]` are closed forms over that tree: `Below` is the set of blocks a walk visits, and
`WalkBack` finds where the two pointers of "walk back to where the fork joins the main chain" end,
also when they miss each other.

### Actions

`RelayBlock` is `peer:relayedHeader:` or `peer:relayedBlock:` with `addBlock`. `AddBlock` has one
disjunct for each way through that function: an orphan, a rejected block, a block that extends the
sync chain or the terminal chain, one that replaces a known object, a fork that is ignored, a fork
of terminal blocks, a fork of sync blocks. `Finish` is the common end: the phase, the estimate, and
the orphan adopted by a nested call. `RelayChainLock` is `addChainLock` for the terminal chain and
`LockSync` for the sync chain; `RelinkTerminal` and `RelinkSync` are one turn of its loops. Then
`StartSyncingBlockchain`, `FinishedSyncingMasternodeLists`, `AlreadySynced`, `StopSync`,
`ChangeEstimate`, and the two wipes. While `calls` is not empty only its head can be executed.

### What is abstracted

* Hash and difficulty checks: a block's hash or target is bad or not (`BadHash`, `BadTarget`);
  when the check is made is modelled.
* Relayed objects are headers in the headers phase and merkle blocks otherwise, as the client
  requests them.
* A peer's height and the votes on the estimate are inputs (`Estimates`, `AlreadySynced`).
* Each wipe is one action. Neither clears `mOrphans` or `lastChainLock`; that is the code's doing.
* A lock is verified or not, as chosen when it is relayed; quorums never sign two conflicting
  blocks. A lock that is verified for an unknown block leaves only `lastChainLock`.
* `block == self.lastTerminalBlock` at the end of `addBlock` is modelled as "this call made the
  block the tip"; an object shared by both dictionaries that is added again by the loop of the sync
  chain is not told apart.
* Heights start at 1: a block at height 0 would be confused with nil by the loops.
* Saving, notifications and timestamps are left out.

## 4. Runs of DSChain

Deadlock is checked in every run.

| Run | Tree | Shows |
|---|---|---|
| `fork` | `a2 a3 a4` and `b3 b4 b5` above `a2`; `t1` mined on both branches, `t2` at the join; 630,248 states | `TypeOK`, `SyncTipHasMostWork`, `HeightsAgreeAtTip`, `NoOrphanWaitsForTip`, `ReorgConfirms`, `HeightsFollowChains`, `WorkNeverDrops` |
| `lock` | two branches of equal height, `b3` can be locked; 482,330 states | `LocksCovered`, `LockedSyncBlocksOnChain`, `LocksHoldSyncChain`, `HandlersUseUp`, `HandlersReturn` |
| `checkpoint` | a checkpoint at height 3, `x3` in its place, `y4` with a bad hash, sync blocks three deep and terminal blocks two deep are kept; 193,770 states | `TipsHeld`, `CheckpointsRespected`, `SyncChainUnbroken` |
| `locked_reorg` | as below | `LockedTerminalBlocksOnChain` is violated |

Bounds. Blocks may be relayed any number of times in any order, in every phase, and wipes may
happen at any time, so the only bounds are the trees, the single value of `Estimates` and the one
lockable block. Two branches whose lead changes twice (`a4` over `b3`, `b5` over `a4`) is the least
in which a reorganisation goes forth and back; the fork point above genesis and a transaction at it
are needed to see a join. In `checkpoint` the dictionaries keep 3 and 2 blocks and shed them at heights
4 and 5, so that shedding happens on the branch, on a fork and at the estimate. `DGW` is 2 in place
of 24. Work is one for each block in all trees.

What the properties say of tips, trimming and locks needs a word:

* `Buried(m, b, keep)`: at least `keep` blocks of one branch, the lowest of them `b`, go up to a block that is kept
  in `m`. That is what trimming leaves room for: it sheds the ancestors of the block being added that are deeper
  than `keep`.
* `TipsHeld`. A tip can be shed while it is a tip: after an early lock above all blocks every fork is ignored,
  and an ignored block trims too. So a tip is held, or buried; for the sync chain the second needs a verified
  lock, or two checkpoints one above the other. `SyncChainUnbroken` speaks of the gap under the chain in the same
  way.
* `NoOrphanWaitsForTip` is about the time before the first lock: `addChainLock` moves the tip without looking
  at the orphans. A tip that is shed comes back as an orphan, and a wipe makes a tip of the last
  checkpoint, also without looking.
* `LocksHoldSyncChain`. A step takes a locked block off the sync chain in two ways, both the code's doing. Where the new
  branch joins the chain nowhere, because of trimming, the walk back ends at nil. Where the new tip is lower (with more
  work), `b2` starts above `b`, and their distance never closes: it sees only the locks as far down as `b` goes, counted
  from the old tip.

* `ReorgConfirms` is about steps that move the sync tip to a block that is no lower, on a chain that shares a block with the
  old one. A tip is extended by such a step too. A transaction may be in several blocks: it gets the height of one of those
  that are new on the chain. It says nothing of a lower tip with more work, nor of one that has nothing in common with the
  old chain, where the walk back ends at nil (below). `HeightsFollowChains` is about every step.

The last point about the trees matters: `HeightsAgreeAtTip`, of which `SyncedTxsConfirmed` is a part, is claimed for blocks of
equal work. When a shorter branch has more work, `b2` of the walk back stays higher than the new tip, and
the loop that confirms the new branch (`while (b.height > b2.height)`, DSChain.m:2163) does nothing.

Fairness. `FairSpec` has weak fairness of `HandlerStep`, the steps of a handler that has begun. They
are consecutive turns of loops and calls on the queue's thread, with nothing to wait for. No
fairness of peers is assumed, and no liveness is claimed that would need it.

Each property of a passing run has a mutant in `PROJECT.json`: an operator marked `Mutant:` in the
module, which changes one definition the way a slip in the code would, and under which the property
fails.

### Disagreements found

The first has a run. The others are kept as configurations of `DSChainMC`, to be run by hand; each
names the property that TLC finds violated.

* `locked_reorg`. `lastTerminalBlock` is `b3`, received as a header. In the chain sync phase `b3` is
  a fork for the sync chain, and line 2104 replaces its object in `mTerminalBlocks`, not the tip.
  A chain lock marks the object in the dictionary. When the other branch grows, the walk back (line
  2121) asks the tip's old object for its lock and reorganises the locked block away. The code says
  "no reorganizing chain to height %d because of chainlock at height %d" (2127), and
  `testComplexReorgWithChainLock` expects as much.
* `DSChainUnorderedTxs.cfg` (`ConfirmedTxsOnChain`). The loop that unconfirms transactions "after the join point" stops at the first
  one at or below the join (2155). `DSWallet.allTransactions` has no order (DSWallet.m:802-809), so
  transactions of the abandoned branch can be left confirmed.
* `DSChainLockedFork.cfg` (`SyncedTxsConfirmed`). In `addChainLock`, when the locked block is more than one lower than the tip, the
  pointers of the walk back (2574) never meet, `b` ends as nil, and every transaction is
  unconfirmed, those below the fork for good.
* `DSChainOldOrphan.cfg` (`SyncedBlocksMatched`). `clearOrphans` ("clear out orphans that may have been received on an old filter",
  2529) is never called: a header kept as an orphan is adopted later as a synced block that was not
  matched against any filter.

Not claimed, because the code does not do it, and for no comment that says it does: that the
terminal chain is connected down to a checkpoint, that the terminal tip has the most work of three
branches, that the sync tip is never above the terminal tip, and that both dictionaries agree about
a lock.

## 5. Proofs about DSChain

`DSChainProofs` proves, for every tree of blocks, checkpoint table, set of lockable blocks and
parameters that `TreeAssumption`, `CheckpointAssumption`, `LockAssumption` and `DataAssumption`
allow (all of which TLC evaluates in each run):

* `TypeCorrect`: `Spec => []TypeOK`. One lemma for each operation (`AddBlockType`,
  `RelayChainLockType`, `LockSyncType`, `RelinkType`), from lemmas on what `Put`, `Remove`, trimming
  and the transaction heights return. `calls` is a stack, so that each lemma is about pushing to its
  tail.
* `CheckpointsKept`: `Spec => []CheckpointsRespected`. `AddBlockMaps` says that the dictionaries
  gain at most the block added, and that only if it was not rejected; a block that has an equivalent
  terminal block was in a dictionary already.
* `LocksAreCovered`: `Spec => []LocksCovered`. Not inductive by itself: a handler that still has to
  mark a block carries the lock in `calls`. `LocksInv` adds that every pending call carries only
  locks at or below `lastChainLockHeight`.
* `MostWork`: `Spec => []SyncTipHasMostWork`. While `lastChainLockHeight` is 0, `LocksInv` leaves no
  locked block, so no reorganisation is held back, and a fork that does not become the tip has no
  more work than the tip.
* `TipsGainWork`: `Spec => WorkNeverDrops`, step by step from `TypeOK`.
* `HandlersEnd`: `Spec => HandlersUseUp`, the safety half of `HandlersReturn`. Each step of a handler goes on to a later
  stage of `addChainLock`, or adds a block of the fork that it has not added, or goes on adopting only with one orphan
  fewer. `Nested` is what makes this an order: the calls that wait are at most one `addBlock` on top of
  the loop of one chain and the call for the other. A fork and the orphans are finite, so the order has no
  endless descent; that a step is always possible and is taken is left to TLC (`HandlersReturn`).

`DSChainTipProofs` is about chains of several blocks, under the same assumptions:

* The tree. A fact about a block's ancestors is proved by taking the lowest block that lacks it (`LowestBlock`), whose
  parent has it: ancestors are lower, lighter, transitive, ordered by height on one branch, one at each height
  (`AncestorsLower` to `AncestorAt`).
* Trimming. `TrimmingBuries`: what was buried still is after a trim, and what a trim takes is buried under the parent of the
  block being added. `TrimmingKeepsChain`: a trim takes the lower part of a chain and leaves the rest connected.
* `TipsAreHeld`, `SyncChainHolds` and `TipAdoptsOrphans`: `Spec => []TipsHeld`, `Spec => []SyncChainUnbroken` and
  `Spec => []NoOrphanWaitsForTip`. None is inductive. `TipsInv` adds that a sync block that is not a checkpoint has its
  parent in the dictionary or a parent that is buried, that only the checkpoints' own objects lack a previous hash, and
  that every pending call adds an object that has one. It also needs `MostWork`: before the first lock only a checkpoint
  can stand on the sync tip, and what a trim takes has a block standing on it. For `SyncChainHolds` take the lowest block of the chain
  (`LowestOfSyncChain`): the walk ended at it because it is a checkpoint or because its parent is gone.
* `LockedBlocksStay`: `Spec => LocksHoldSyncChain`. `WalkFindsLock` is about the two pointers: when the fork is at
  least as high as the tip, `b` is alone until it is level with `b2`, both then pass every height, and before they
  reach the join one of them stands on the locked block; so the loop stops there or at a higher lock. For `addChainLock`, which does
  not look for locks, it is `LockAssumption` that helps (`LockedBranchHolds`): the two locked blocks are on one branch, and
  `LocksSigned`, an invariant, says that only blocks that a quorum signs are ever marked.
* `ReorgsConfirm`: `Spec => ReorgConfirms`. `WalkFindsJoin`: from a tip that is no lower the two pointers become level and
  then stop together, at a block of both chains or at nil; and if the chains share a block they cannot pass it, so they stop at the highest
  one (`HighestBlock`). `JoinOfChains`: what is above it on the new branch is what is on the new chain and not on
  the old. `ReorgHeightsOf` says what the two loops do to heights above a join; the three ways in which the tip moves,
  an extension, a fork and a chain lock, are `ExtensionConfirmsNew`, `ReorgConfirmsNew` and `LockSyncConfirmsNew`.
* `HeightsComeFromChains`: `Spec => HeightsFollowChains`. A height comes from a block of the branch just confirmed, from the
  new tip, or from a terminal block that replaces one of the terminal chain (`AddBlockHeights`); each is shown to be on a
  chain after the step.

Only model-checked, for a reason each: `HandlersReturn` is liveness. `HeightsAgreeAtTip` (with `SyncedTxsConfirmed`) and
`LockedSyncBlocksOnChain` hold in the instances and not for all constants, because the code promises less.
Heights are wrong when work differs between blocks (section 4), and when a transaction is in two blocks, since a known
terminal block that arrives again sets the heights of its transactions whatever branch the sync chain is on. A locked
block is off the sync chain in the two cases of `LocksHoldSyncChain`. What holds for all constants is, of heights,
`ReorgsConfirm` and `HeightsComeFromChains`, and of locks `LockedBlocksStay`.

## 6. DSAccount

### State

| Variable | Code |
|---|---|
| `allTx` | the dictionary of known transactions; the value is the height of the object kept for the hash |
| `transactions` | the ordered set of the account, the latest first |
| `blockHeight` | the height of the objects in that set |
| `twins` | listed transactions for which `allTx` holds another object: a transaction that left `allTx` when it was confirmed, stayed in the list, and was relayed again |
| `cache` | what the last `updateBalance` left: invalid, pending and locked transactions, spent and unspent outputs, balance and its history |
| `lastSyncBlockHeight`, `bestBlockHeight` | the heights the chain reports; the second never falls, except by a wipe |
| `mined` | the block of each transaction on the chain, as the network has it |
| `calls` | the calls the running handler still has to make |
| `pass` | the local variables of a running `updateBalance`: where it is in the list, and its results so far |
| `removed` | history variable: has `removeTransaction` removed anything since the last wipe? |

An output is a coin; `CreatedBy`, `Spends`, `Mine` and `Value` say which transaction creates it, which
spend it, whether it pays the account, and what a set of coins is worth.

### Actions

`RegisterTransaction` is `registerTransaction:saveImmediately:` as the transaction manager calls it,
`RemoveTransaction` is `removeUnrelayedTransactionsFromPeer` with `removeTransaction` and all it
removes, `Wipe` is `wipeBlockchainInfo`, `SetTimestamp` a relay count that is reached or lost.
`ExtendSyncChain`, `ReplaceSyncBlock` and `Reorganize` are the places of `addBlock` that call the
chain's `setBlockHeight`; they queue the calls in the order of the code: a reorganisation first
unconfirms, then confirms from the new tip down to the join, then moves `lastSyncBlock`.
`SetBlockHeightCall`, `ChainUpdatedBlockHeight` and `NewTip` execute a call. Whoever needs the
balance updated puts `updateBalance` in front: `UpdateBalanceStep` is one turn of its loop (`Process`),
`FinishUpdateBalance` writes the cache. While `calls` is not empty only its head can be executed.

### What is abstracted

* The reasons for which an unconfirmed transaction is pending other than a lock height (replaceable,
  oversize, dust, a lock time in the future) are one set, `NotFinal`.
* The sort may return any arrangement in which no neighbours are in the wrong order for
  `IsAscending`. That comparator is no order, so more is not known. What it does for address
  positions, its last criterion, is left open.
* `setBlockHeight` skips a transaction whose height and timestamp are unchanged; nothing is known of
  timestamps, so any known transaction may be touched.
* Unrelayed transactions are removed one at a time; the guards on relays and requests are in
  `DSPublish`.
* Addresses, saving, loading at start, notifications and the totals sent and received are left out.
  A coin's address is the account's or not, for good.
* A handler is not interrupted. A payment is registered on the main thread (DSTransactionManager.m:687)
  while relayed transactions are handled on the network queue, without a lock; that race is listed as a
  hazard and not modelled.
* `registerTransaction` of a transaction that the account cannot contain is left out: its callers look
  for an account that can contain it first.

### Runs

Deadlock is checked in every run.

| Run | Transactions | Shows |
|---|---|---|
| `pay` | `t1` and `t2` spend the same coin, `r` spends `t1`'s output, pays nothing to the account and can be replaced, `b` is the coinbase of block 1; heights up to 2; 843,019 states | `TypeOK`, `OneOfDoubleSpend`, `BalanceIsUtxos`, `HistoryFollowsList`, `ConflictsResolved`, `CacheIsCurrent`, `DependentsRemoved` |

Bounds. Four transactions are the least with a double spend, a child of one of the two, a pending one
and a coinbase. Two heights let the conflict be resolved one way, reorganised away, and resolved the
other way. `Maturity` is 1 in place of 100, so that a coinbase of block 1 is locked for one block.
Registration, removal, reorganisation and wipes may happen any number of times. No fairness is assumed
and no liveness claimed: every handler step is a turn of a bounded loop.

`CacheIsCurrent` compares the cache with `Recomputed`, what the turns of `Process` yield for the list as it is now:
`setBlockHeight` skips the update when nothing was pending or invalid, and the property says when that
is right. The sets of invalid transactions and of spent outputs are as if computed now; the rest is so
when the pending and locked sets are (a lock height that has been reached, or a coinbase that has
matured, waits for the next update). It and `ConflictsResolved` are claimed as long as nothing was
removed: a removal can take away the transaction that made another one invalid (see `DSAccountClash.cfg` below).
`DependentsRemoved` is claimed while no listed transaction is confirmed (see `DSAccountDependents.cfg`).

### Disagreements found

Each is kept as a configuration of `DSAccountMC`, to be run by hand, with the property that TLC finds
violated.

* `DSAccountDependents.cfg` (`DependentsGoToo`). `removeTransaction` "removes a transaction from the wallet along with any transactions
  that depend on its outputs" (1159), and stops at the first lower transaction "because transactions are
  sorted we can break" (1174). New transactions are put in front, and confirming one does not sort unless
  it was pending or invalid, so a confirmed transaction can stand above the dependent.
* `DSAccountClash.cfg` (`ConfirmedSpendsPrevail`; `u` spends two coins, `t` and `w` one of them each).
  `u` is invalid because of `w`. `t`, registered after `u` and valid since `u` is invalid, is
  confirmed; nothing is sorted. `w` is removed. Now `u` is dealt with before `t`, and counts, although it
  spends what a confirmed transaction has spent. `transactionIsValid` says "true if no previous wallet
  transactions spend any of the given transaction's inputs" (1396).
* `DSAccountCoinbase.cfg` (`MatureCoinbasesUnlocked`). `chainUpdatedBlockHeight`, which unlocks a coinbase at exactly one height, is called only
  for blocks without transaction hashes (DSChain.m:2758-2768). "balance/UTXOs will then need to be
  recalculated when last block changes" (694) does not happen at that block if it has any.

Not claimed, for no comment that says it: that a pending transaction's inputs leave the unspent outputs
at once when it is dealt with last (`UtxosAreUnspent`, a part of `BalanceIsUtxos`, allows just that), that a child registered before
its invalid parent is invalid, and that a confirmed replaceable transaction is pending again after a
reorganisation.

### Proofs

`DSAccountProofs` proves, for every set of transactions, all their dependences and conflicts, and all
heights that `AccountAssumption` allows (coinbases spend nothing, the value of disjoint sets of coins
adds up, unconfirmed is above every height):

* `TypeCorrect`: `Spec => []TypeOK`. By itself not inductive: `CallsInv` adds that only the running call
  can be `updateBalance`, that `newTip` carries the height of a block, and that `pass.at` is within the
  list. One lemma for each action (`…Shape`).
* `DoubleSpends`: `Spec => []OneOfDoubleSpend`; `BalanceOfUtxos`: `Spec => []BalanceIsUtxos`;
  `UnspentUtxos`: `Spec => []UtxosAreUnspent`. All three rest on `Sound(results, done)`, a loop invariant
  of `updateBalance`: each transaction dealt with and not invalid has its inputs among the spent outputs;
  the unspent ones are outputs of transactions dealt with; those that are also spent are spent by pending
  transactions; the balance is what they are worth. `ProcessSound` is the turn of the loop. It needs
  `ListInv`: the list has no transaction twice (else its outputs would be counted twice), and every listed
  transaction that pays the account is known (else the amount looked up for a spent output would be 0).
  `OtherStepShape` says that every other step leaves `updateBalance` at its start, or not running.

* `HistoryOfList`: `Spec => []HistoryFollowsList`, from `HistoryInv`: an `updateBalance` that is running
  has recorded one balance for each transaction it has dealt with, and when none is running the history is
  about the list as it stands (`ProcessRecords` for the turn, `OtherStepList` for the steps that change the list).
* `DependentsGo`: `Spec => DependentsRemoved`, an action property. `LostHaveHeights` is why the loop over
  the dependents is not broken off while nothing is confirmed: a listed transaction that `allTx` has lost, or for which
  `allTx` has another object, keeps the height it was given, so it counts as confirmed. With
  nothing confirmed all that is listed is known, and `RemovalCloses` shows what is removed closed under
  dependence.

`DSAccountListProofs` proves the two properties about the list as a whole, as long as nothing was
removed. `updateBalance` is a recursive function over the list (`AfterTurns`), and the lemmas about it
are proved by induction on the number of turns, in the form of the least counterexample (`CountUp`, from
`WFMin` of the library).

* `DoubleSpendsResolved`: `Spec => []ConflictsResolved`, and `CacheCurrent`: `Spec => []CacheIsCurrent`.
  The inductive invariant is `ListsInv`:
  * `NothingLost`: list and `allTx` agree on the transactions, their objects and heights;
  * `MinedInv`: confirmed listed transactions have the heights at which the chain has them, unless the
    running reorganisation is about to unconfirm them; so while `updateBalance` runs no two confirmed ones
    conflict (`ConfirmedDoNotConflict`). What the pending calls carry is part of it (`CallsOnChain`);
  * `TurnsInv`: a running `updateBalance` has the results of its turns so far;
  * `Settled`: what is invalid is exactly what is `Spoiled`, that is, spends what an earlier valid
    transaction of the list spends, or an output of an earlier invalid one; all of it is unconfirmed. While
    `updateBalance` runs, either the list has just been sorted by height, or this holds of an older part of
    the list, with unconfirmed ones in front of it. `OnlyUnconfirmedSpoiled` follows from each
    (`SortedSpoils`, `ResolvedAgain`), and by it the run that ends settles the list (`RecomputedResolves`);
  * `CacheReplays`: the cache is what the loop yields if it finds invalid, pending and locked what the
    cache says. So equal sets make equal caches (`ReplaysUnique`), whatever has happened to heights and to
    the chain since.

  Of the sort the proofs use one thing: it returns the list from the highest to the lowest
  (`SortedByHeight`), although its comparator, defined by recursion through ancestors, is no order.

## 7. DSPublish

### State and threads

`DSTransactionManager` is used from two threads without a lock: the main thread (`publishTransaction`,
the blocks dispatched to the main queue, `txTimeout`) and the networking queue (the callbacks of peers).

| Variable | Code |
|---|---|
| `publishedTx`, `publishedCallback`, `txRelays`, `txRequests` | the dictionaries of that name |
| `publishing` | the local variables of a `publishTransaction` that is between 202 and 203 |
| `timer` | transactions with a `txTimeout` that is still to fire |
| `mainQueue` | blocks dispatched to the main thread: one that sends a transaction and starts its timer, one that cancels the timers and calls a completion |
| `pings` | pong handlers that wait behind a published transaction |
| `handler` | the local variables of the callback of a peer that is running |
| `listed`, `confirmed`, `invalid` | transactions in an account, with a block height, for which `transactionIsValid` fails |
| `connectedPeers`, `synced`, `localRequests` | the connections, their `synced` flags, the count of mempools that were relayed |
| `asked`, `told` | what a request is about and what its completion was called with |
| `metPeers`, `relayedMempool` | history: peers that have been connected; those whose mempool came since they connected |
| `late` | history: a peer, and the transaction it was counted for after its end |
| `crossed` | history: transactions whose completion was set while a callback dealt with them, or that left the publish list between 202 and 203 |

Main thread: `Refuse`, `Publish` (the transaction goes on the list, 199-202), `DispatchSend` (its completion is
set and the block that sends it dispatched, 203-229), `RunSend`, `RunAnswer`, `TxTimeout`, `ChainWasWiped`. A callback that
looks at `publishedCallback` reads it (`Receive`), and then takes two or three more steps. One that brings or
announces a transaction registers it, counts the peer and forgets the completion (`Relayed`), or finds nothing to
tell and ends (`RelayedAgain`). One that asks for it counts the peer and forgets the completion (`Requested`, 1042-1048),
then looks whether the transaction is valid, and takes it off the list or registers it (`Validated`, 1050-1070).
`DispatchAnswer` ends both. The main thread may come between any two of these steps, and a callback between
`Publish` and `DispatchSend`. The other callbacks touch each
dictionary once: `Pong`, `NotFoundOrRejected`, `MempoolRelayed` (with the removal of unrelayed transactions),
`Connect`, `Disconnect`, `Confirm`, `Unconfirm`, `Conflict`.

A peer whose connection another thread ends (DSPeer.m:303-328) may be reading a message. What it read is handed on
after the block that ends it, without a look at its status: a relayed transaction (1380), a request, a "not found", a
rejection; only an announcement is dropped (1259). `Lingering` are the peers to which that may happen, and
`Receive` and `NotFoundOrRejected` take them when they are gone.

### What is abstracted

* Every transaction pays or spends an account of the wallet; one that does not is ignored by the callbacks.
* Messages to and from peers carry no content: a peer may announce, relay, ask for or reject a known
  transaction at any time. Bloom filters and instant send locks are left out.
* `setTimestamp`, which marks a transaction as verified by its relays, is in `DSAccount` (`SetTimestamp`).
* Two objects with one hash are not told apart.
* A step of one thread changes both tables at once where the code writes them one after the other with nothing
  between but the writes: `TxTimeout` (406-407), `Confirm` (996-997), `ChainWasWiped` (1004-1005). For the moment
  between them a transaction that is off the list still has its completion; nothing is claimed of that moment.

### The abstract specification

`Completion` is what an application may rely on: a request is refused, or waits until it is told an outcome
or that time ran out, and once told an outcome is never told anything again; a late outcome may follow a
timeout; a request may be forgotten. `CompletionIsKept` is `INSTANCE Completion` with the outcome of each
request computed from `told` and from where it can still be answered (`Held`): the table, the running
callback, the main queue. An outcome `Completion` does not know is "broken", so that the refinement fails
for a second answer and for a timeout after an answer.

### Runs

| Run | Instance | Shows |
|---|---|---|
| `publish` | one transaction, two requests for it, one peer, at most two blocks in the main queue; 650,000 states | `TimeoutPending`, `WaitedForIsPublished`, `CompletionSpec` (the refinement), `ForgottenForAReason`, `EveryRequestEnds` |
| `relay` | a transaction and the one it spends, no request, two peers that answer mempools, one of which may be ended while it reads, one block in the main queue; 3.9 million states | `TypeOK`, `OnlyLatePeersStayCounted` |
| `mempools` | one transaction, two peers, no request | `RemovalWaitsForMempools` is violated |

Deadlock is not checked: when all requests were made, nothing need happen.

Bounds. Two requests for one transaction are what it takes for one completion to take the place of
another in the table, in a callback that is running, and in the queue. A parent and a child are the least in which
the removal of an unrelayed transaction takes another with it. Two peers are one that lingers and one that ends at
rest. `MaxQueue` bounds only what is dispatched:
two blocks are a send and an answer in either order.

Fairness. Weak fairness of `Main`, `Callback` and `TxTimeout`: the main thread runs the blocks it is given,
a callback that has begun goes on, and a timer fires. Nothing is assumed of peers.

`crossed` is the limit of what the code promises. A callback reads that nobody waits or that some request does; the
transaction is published again; the callback then forgets the completion of the new request, cancels its timer, or,
if it finds a double spend, takes the transaction off the publish list under the one who waits (between 1048 and
1058). The other way round, a confirmation or a double spend takes the transaction off the list after
`publishTransaction` found it there (202), and before it leaves its completion (203).
`EveryRequestEnds`, `TimeoutPending`, `WaitedForIsPublished` and `ForgottenForAReason` are claimed of every other
case, and `CompletionSpec` of these too.

`OnlyLatePeersStayCounted` is what clearing the relays of a peer that disconnects (`clearTransactionRelaysForPeer`)
achieves: of those that are gone, only peers that were still reading at their end are counted for a transaction.

### Disagreement found

`mempools`. `removeUnrelayedTransactionsFromPeer` says "don't remove tx until all peers have finished
relaying their mempools" (DSTransactionManager.m:254) and asks each peer for its `synced` flag, which is set
when the peer answers a mempool message (863) and never reset. A peer that connects again is synced from the
start.

`DSPublishLate.cfg`, to be run by hand, shows what `OnlyLatePeersStayCounted` leaves out.
`relayCountForTransaction` is the "number of connected peers that have relayed the transaction"
(DSTransactionManager.h:71). `RelaysOfConnectedPeers` fails in five states: a peer connects, is ended while it reads,
its relays are cleared, and the transaction it had read counts it again (DSPeer.m:1380).

### Proofs

`DSPublishProofs`, for every set of transactions, dependences, peers, requests and `MaxQueue`:

* `TypeCorrect`: `Spec => []TypeOK`.
* `RelaysEndWithConnection`: `Spec => []OnlyLatePeersStayCounted`, which is inductive with the types.
* `TimeoutIsPending`: `Spec => []TimeoutPending`. `TimerInv` is about order: while somebody waits, a
  block that would cancel the timer has one behind it that starts it; and a running callback knows the
  completion that waits, and one that has counted its peer has left none, unless the transaction crossed.
* `WaitedForStaysPublished`: `Spec => []WaitedForIsPublished`. `PublishedInv` adds that the transaction of a
  publication under way is on the list unless it crossed, which gives `DispatchSend` what it needs; that
  `Validated` takes no transaction off under a waiter is what `TimerInv` says of a callback that has counted its peer.
* `PublishImplementsCompletion`: `Spec => CompletionSpec`. `RequestInv` says that a request is answered from
  one place at most, that what answers it is about its transaction, and that what it was told leaves room for
  it (`RequestOK`); the request of a publication under way is not asked yet (`Asking`). Then each action maps to a
  step of `Completion` or a stutter; `DispatchSend` is the step that asks.

* `ForgottenWithReason`: `Spec => ForgottenForAReason`, an action property, from `RequestInv` and `TimerInv`
  together. A callback hands a request on to the queue (`CallbackHandsOn`) and the queue keeps it until it
  is answered (`QueueKeeps`), so only the table can lose one. A callback clears a completion other than the
  one it read only if the transaction crossed (`CallbackKnown`); every other loss is one of the
  reasons (`TableLoses`).

They assume of the constants that nobody is not a request, nothing is not a transaction, and that the value
for "nothing runs" is neither a callback nor a publication (`PublishAssumption`, `IdleAssumption`).

Only model-checked: `EveryRequestEnds`, which is liveness.

## 8. DSPeers

### State and threads

A peer's own thread moves its status and leaves blocks in the networking queue; the networking queue runs
them one after the other and changes the manager; the main queue runs what tries to connect again. What a block
is about may have changed when it runs.

| Variable | Code |
|---|---|
| `status` | `DSPeer.status` of the object last connected for each address |
| `connectedPeers`, `peers`, `misbehavingPeers`, `misbehavingCount`, `connectFailures`, `downloadPeer`, `connected`, `masternodeList` | the manager's properties |
| `used`, `downloadOld`, and `old` of a block | which objects are the ones last connected: peers that are found again are new objects, equal to the old ones (`isEqual:`, `hash`) and not the same |
| `desired` | `desiredState` is Connected |
| `queue`, `reconnects` | the blocks of the networking queue and of the main queue |
| `told`, `wanted` | whether the user was told of the failure; what the application asked for last |
| `faults`, `calls` | the two bounds |

Peers' threads: `DidConnect`, `Drop`, `Misbehave`. Calls from elsewhere: `Connect`, `Disconnect`,
`DropDownloadPeer`, `UseMasternodeList`, `Reconnect`, `RelayedPeers`. Blocks: `RunConnect`, `RunDisconnect`,
`RunRemoveDownload`, `RunMisbehaving`, `RunPeerConnected` (one disjunct for each way through it: `Gone`,
`Unsuitable`, `AlreadyConnected`, `TooFew`, `Choose`) and `RunDisconnected` (`BookAfter`, `FailuresAfter`, then
`GiveUp` or `TryAgain`). `[self connect]` and `[peer disconnect]` in a handler append blocks, in the order
of the code.

### What is abstracted

* Which peers `connect` tries, which connected peer is the best, and whether a peer is behind or lacks services
  are free choices; heights, ping times and timestamps are left out.
* Discovery finds all of `Peers`, at once.
* Errors are of three kinds: none, of the network, of the protocol; the code distinguishes no more.
* Saving of peers, backgrounding and progress timers are left out.

### Runs

| Run | Instance | Shows |
|---|---|---|
| `peers` | three addresses for two connections, one failure is the limit, one misbehaviour the threshold, one fault and two calls; 620,000 states | `TypeOK`, `ConnectionsAreHeld`, `DownloadPeerStands`, `ChosenOnceAllConnected`, `NotStranded`, `Settles` |
| `stop` | two addresses, two faults, two calls, addresses symmetric | `StaysDisconnected` is violated |

Deadlock is not checked: when the bounds are used up and the queues empty, the system rests.

Bounds. With three addresses for two connections a peer can be replaced, and a choice of whom to try remains.
One fault and two calls give a connection that ends (or a peer that misbehaves, or that is unsuitable, or a
sync that times out) before, during and after a connect, a disconnect or the use of the masternode list. Limits of 1 are
reached by one fault, so that giving up and forgetting everything happen; `stop` has a threshold of 2,
where noting and forgetting both happen.

Fairness. Weak fairness of `Run` and `Reconnect` (dispatch queues run their blocks) and of `DidConnect` (a
connection that is not dropped is made; the connect timeout is a `Drop`). Peers may end connections as they like
within the bound.

`ChosenOnceAllConnected` is claimed where there are as many addresses as `MaxConnectCount`. With fewer,
`DSPeersFew.cfg` (to be run by hand) shows that no download peer is ever chosen: `peerConnected:` returns
as long as fewer than `maxConnectCount` peers are connected (DSPeerManager.m:897-900), and nothing
looks again.

`NotStranded` is the safety half of `Settles`: when the queues are empty, whoever wants a connection, has none
and was not told of a failure is below the limit of failures (`ToldAtLimit`) and has one being made. A loss that is answered neither with another attempt nor with a word to
the user would violate it at once, where `Settles` needs a run that goes on forever.

### Disagreement found

`stop`. `disconnect` sets `connectFailures` to the limit to "prevent futher automatic reconnect attempts"
(DSPeerManager.m:759). A misbehaviour that waits in the queue ends with an unconditional `[self connect]` (400),
which sets the desired state again and takes the failures for those of a manual retry.

### Proofs

`DSPeersProofs`, for every finite set of addresses and every limit:

* `TypeCorrect`: `Spec => []TypeOK`.
* `ConnectionsHeld`: `Spec => []ConnectionsAreHeld`, with facts about cardinalities: what the purge leaves and
  what is picked are disjoint.
* `DownloadPeerIsReal`: `Spec => []DownloadPeerStands`. Every step that
  ends the connection of the download peer leaves the end in the queue, in the order in which the code does so; the
  step that purges dead connections and the one that connects the same address anew are where this needs
  `ConnectionsAreHeld`, and the three are proved as one invariant, `Inv`.

`DSPeersChoiceProofs` proves what rests on the order of the blocks in the queue, with lemmas about a queue in which
every block of one set is followed by one of another (`Followed`), which survives taking the head and appending:

* `UserIsTold`: `Spec => []ToldAtLimit`. `LimitInv` strengthens it: whoever wants a connection asked for it after
  every disconnect that still waits; at the limit the user was told or a connect block, which clears the failures,
  is in the queue. Both are needed: the block of `disconnect` raises the failures to the limit without telling.
* `DownloadPeerIsChosen`: `Spec => []ChosenOnceAllConnected`, under the assumption `Cardinality(Peers) >= MaxConnectCount`
  that `DSPeersFew.cfg` shows to be needed. `ChoiceInv` strengthens it: the manager holds no connection or as many as it
  may; once they all are connected, every end of a connection in the queue is followed by the news of a connected
  peer, whose `peerConnected:` will find enough of them; and as long as no choice was made, one such news waits.

* `NobodyIsStranded`: `Spec => []NotStranded`, under the same assumption. `StrandInv` strengthens it: such a
  caller waits for a connect block, for a reconnection on the main queue, or for peers the manager holds, each of
  them alive or with its end in the queue. The end of a connection needs `LimitInv`: where the failures are past
  the limit `disconnectedWithError:` neither tries again nor tells, but then a connect block waits or the user
  was told before. That all held peers are connected and none is chosen is excluded by `ChosenOnceAllConnected`.

Only model-checked: `Settles`, which is liveness; `NotStranded`, its safety half, is proved.

## 9. DSMasternodes

### State

The managers' state is one record, `mn`, because their handlers call each other and return into each other:
each handler is a function of the record and of the chain that gives the record it leaves, and an action
applies one.

| Part | Code |
|---|---|
| `queue`, `inRetrieval`, `known`, `current`, `lastQueried`, `queried`, `processing`, `faulty` | `masternodeListRetrievalQueue`, `masternodeListsInRetrieval`, `masternodeListsByBlockHash`, `currentMasternodeList`, `lastQueriedBlockHash`, `masternodeListQueriesNeedingQuorumsValidated`, `processingMasternodeListDiffHash`, the number of faulty peers |
| `busy` | the answer that a peer's thread is handling, and whether its peer is still connected |
| `observer` | what `startTimeOutObserver` compares with when it fires |
| `pending` | blocks that wait: start the sync, dequeue again, get the current list |
| `saving`, `removing` | Core Data work that runs later |
| `phase` | `syncPhase` |
| `usesList`, `wanted`, `connected`, `download` | the peer manager |
| `wire`, `late` | requests the download peer is to answer; an answer of a peer that is gone |
| `neglected` | auxiliary: set where something that drives the queue is given up, see below |
| `chain` | the two tips, the best height peers know, the blocks that are in memory or in the store (`has`) and those of the terminal blocks in memory (`terminal`) |

`Dequeued` is `dequeueMasternodeListRequest`, `GotRecent` `getRecentMasternodeList:`, `Cared` the two calls of
it, `Started` and `Finished` the chain manager's `chainShouldStartSyncingBlockchain` and
`chainFinishedSyncingMasternodeListsAndQuorums`, `Issue` `issueWithMasternodeListFromPeer:`, `Handled` and `Valid` the
two halves of `relayedMasternodeDiffMessage`. An answer is handled in two steps, `Relayed` and `Processed`,
because its middle is asynchronous; `ObserverFires`, losses of peers and answers, wipes, errors of the store
and calls of the application come between.

### What is abstracted

* A block is its height, and there is no reorganisation. A list is its block. The lists that verify the quorums
  of a list are a constant, and validity is a choice.
* Lists that are known are in memory: stubs and what is loaded at start are not modelled, except that the
  program starts with no list or with the tip's.
* The best height that peers know only grows; the code can also take a peer's estimate back (DSChain.m:2852-2863).
* The height of a block is known while the block is in memory or in the store; the manager's own cache of heights,
  which outlives both, is left out.
* Lengths of time are left out: the observer fires at any moment. When it fires although the answer is under
  way, that is one of the troubles.
* The peer manager is what section 8 shows from outside: a download peer appears when one is wanted, and is lost
  at any time.

### Runs

| Run | Instance | Shows |
|---|---|---|
| `masternodes` | a tip at 2 and one more block, the recent list one below the tip, lists older than 1 removed, the quorums of lists 2 and 3 in list 1, one faulty peer is too many, one trouble; 485,857 states | `TypeOK`, `Driven`, `SyncHasNext`, `Emptied`, `SyncGoesOn` |
| `current_list` | the same, and no trouble | `CurrentIsHighestQueried` is violated |

Deadlock is not checked: a synced client with nothing left to fetch may rest.

Bounds. Three heights give a base list, a recent list and the tip's list, and a new block that moves both.
With one faulty peer as the limit, the second invalid answer starts from scratch. A trouble is a bad, late or
lost answer, a lost download peer, a forgotten block, an error of the store, or a call of the application other than
`startSync`; the safety properties also hold with two (8.0 million states, by setting `MaxTroubles` to 2 without
the liveness properties), and with `FileLists = {1}`, a list in the bundle.

Fairness. The blocks of the queue run and timers fire (`RunStart`, `RunDequeue`, `RunCurrent`,
`ObserverFires`), a download peer that is wanted is found again (`PeerConnects`; section 8 says when), it
answers and answers are handled (`Relayed`, `Processed`), and headers arrive (`HeadersArrive`). That answers may be lost
is one of the troubles, of which there are finitely many.

`SyncHasNext` is the safety half of `SyncGoesOn`: while headers and lists are fetched from a connected download peer,
the sync has something to wait for, namely wanted lists, more headers, a start or a dequeue that is to run, or the tip's list
that is to be asked for and is not known. It is not claimed of a chain with a missing block, nor while there is only the
genesis block, whose list is always taken to be there.

### Where the retrieval may stop

`Driven`, `Emptied` and `SyncGoesOn` hold up to these cases, which the code does not recover from by itself
and which the properties name (`Stalled`, and the blocks that are missing). So `SyncHasNext` and
`SyncGoesOn` say nothing of a sync with a missing block. No comment or document says
otherwise, so they are not claimed as disagreements:

* A dequeue without a download peer while offline is given up (DSMasternodeManager.m:515-522), and a later
  `getRecentMasternodeList` dequeues only if its queue was empty (599-603): `neglected`.
* The observer ends when it finds the queue empty (483), also while lists are in retrieval; while some are, a
  dequeue asks for nothing (511): `neglected`.
* A list that is requested and known never leaves the queue: its answer returns early (1037-1046).
* An answer that cannot be read leaves `processingMasternodeListDiffHash` set (769), and the observer then
  never finds that nothing has changed (489-490). The second half returns early as well when data was wiped
  (1095-1100).
* A list whose block is in the store, and no longer among the terminal blocks in memory, is asked for (531-536), but
  its answer is refused as if the peer were faulty (1060, 1083-1087), and the list is asked for again, until too many peers
  are taken for faulty and everything starts from scratch.
* If the blocks of all queued lists are missing they leave the queue (572-575) and nobody is told that it
  is empty: the phase remains the one of the headers.

Also seen, and modelled as it is: a difference whose base was wiped makes an innocent peer a faulty one
(1053-1058); `removeOldMasternodeLists` without a current list subtracts 50 from height 0 and removes all
lists that no quorum needs (1318); a list read from a file does not go on to the next request (679-696).

### Disagreement found

`current_list`. `lastQueriedBlockHash` is "last by height, not by time queried" (DSMasternodeManager.m:80).
`getRecentMasternodeList` sets it to whatever it is about to query (596), or returns before that. At the
end of a sync the list some blocks back is asked for, then the tip's; if the tip's is known or queued the older list
becomes the current one when it arrives (1154-1157).

### Proofs

`DSMasternodesProofs`, for every chain, all assignments of quorums and lists in files, and all distances:

* `TypeCorrect`: `Spec => []TypeOK`. One lemma for each handler, then for each action. That `Highest`
  and `First` choose members of their sets rests on the least element of a set of naturals, and on the heights being bounded.
* `QueueIsDriven`: `Spec => []Driven`. Not inductive: a handler that finds lists in retrieval does nothing, and
  relies on the observer. The invariant `IInv` adds `Watches`: while lists are in retrieval and the
  queue is not empty there is an observer, or the queue is `neglected`.

* `SyncIsNotStuck`: `Spec => []SyncHasNext`. `SyncInv` strengthens it: no list above the tip is known or queued, and the
  tip is not above the best height, so that the list of a new tip is one to be asked for. The argument is about
  the handlers: after a dequeue (`DequeuedHasNext`) something is to come, because an empty queue ends the phase or
  drops the peer, and the queue loses lists by being asked for only where their blocks are missing; after
  `getRecentMasternodeList` (`GotRecentHasNext`) the tip's list is queued unless it is known. That the list queued at a start is the
  tip's rests on `Highest` being maximal among the heights of the chain.

Only model-checked: `Emptied` and `SyncGoesOn`, which are liveness; `SyncHasNext`, a safety half of the second, is proved.

## 10. Not modelled

* Hashing (`crypto/x11`, `blake2`), which is most of the C code of the repository: third-party pure functions
  from bytes to bytes, without state. TLC could only compare them with themselves.
* Keys, mnemonics, derivation paths, scripts, serialisation of transactions and messages, and the contents of masternode
  lists, quorums and their verification: data conversion and cryptography.
* Persistence. The managed object contexts and merge policies of Core Data decide what is in the
  store when the process ends; the code under `src/` only says what is handed to them. `DSMasternodes` has the part
  of it that comes back as an event (a list was saved, saving failed, old lists are removed).
* The votes of peers on the best height (`setEstimatedBlockHeight`): an arbitrary input of `DSChain`. Chain and
  instant send locks that wait for a block or a quorum: sets that nothing else reads.
* Governance and sporks: requests by ranges of hashes, off by default, and a table of signed values.
* The operation queue (a library kept in the tree), identities, DAPI, documents, prices, payment
  requests, the example application: remote services and user interface.
