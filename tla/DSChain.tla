------------------------------- MODULE DSChain -------------------------------
(***************************************************************************)
(* The block chain that DSChain keeps in memory: the terminal chain (the   *)
(* headers up to the tip) and the sync chain (the merkle blocks the wallet *)
(* has been matched against), fed by addBlock:receivedAsHeader:fromPeer:   *)
(* and by addChainLock:.                                                   *)
(*                                                                         *)
(* A block is a member of Blocks; what its header fixes (previous hash,    *)
(* height, aggregate work, transactions) is given by constants.  What may  *)
(* differ between two DSBlock objects of one hash is kept per object.      *)
(*                                                                         *)
(* addBlock calls itself for an orphan it adopts and addChainLock calls it *)
(* for every fork block it relinks.  All of that runs on one queue, so     *)
(* calls holds the calls still to be made by the handler that is running:  *)
(* while it is not empty nothing else can happen.                          *)
(***************************************************************************)
EXTENDS Integers, FiniteSets, Sequences

CONSTANTS
  Blocks,        \* every block a peer can relay, with the checkpoints
  Genesis,       \* the oldest of them
  NoBlock,       \* nil
  Parent,        \* prevBlock of every block but Genesis
  Height,        \* height, as addBlock computes it from the previous block
  Work,          \* aggregate chainWork
  Anc,           \* the ancestors of a block, itself included
  Checkpoints,   \* the blocks the checkpoint table lists
  SyncStart,     \* the checkpoint the sync chain starts from
  BadTarget,     \* blocks whose target differs from the dark gravity wave
  BadHash,       \* blocks whose hash is above their target
  Lockable,      \* blocks that the quorums can sign a chain lock for
  Txs,           \* the wallet's transactions
  TxsOf,         \* the wallet transactions of each block
  Unconfirmed,   \* TX_UNCONFIRMED, above every height
  DGW,           \* DGW_PAST_BLOCKS_MAX
  KeepSync, SyncTrim,                  \* KEEP_RECENT_SYNC_BLOCKS, 1000
  KeepTerminal, TerminalTrim, TipTrim, \* KEEP_RECENT_TERMINAL_BLOCKS, 10000, 100
  Estimates      \* the heights the peers together may settle on

Phases == {"Offline", "InitialTerminalBlocks", "ChainSync", "Synced"}

\* Blocks form a tree: hash links cannot be cyclic, work adds up along it.
TreeAssumption ==
  /\ Genesis \in Blocks /\ NoBlock \notin Blocks
  /\ Parent \in [Blocks \ {Genesis} -> Blocks]
  /\ Height \in [Blocks -> Nat \ {0}]
  /\ Work \in [Blocks -> Nat]
  /\ Anc \in [Blocks -> SUBSET Blocks]
  /\ Anc[Genesis] = {Genesis}
  /\ \A b \in Blocks \ {Genesis} :
       /\ Height[b] = Height[Parent[b]] + 1
       /\ Work[b] > Work[Parent[b]]
       /\ Anc[b] = {b} \cup Anc[Parent[b]]

\* Checkpoints lie on one branch, at most one for each height; one is the last.
CheckpointAssumption ==
  /\ SyncStart \in Checkpoints /\ Genesis \in Checkpoints
  /\ Checkpoints \subseteq Blocks
  /\ \A c, d \in Checkpoints : Height[c] <= Height[d] => c \in Anc[d]
  /\ \A c, d \in Checkpoints : Height[c] = Height[d] => c = d
  /\ \E c \in Checkpoints : \A d \in Checkpoints : Height[d] <= Height[c]

\* A quorum never signs two conflicting blocks (DIP 8).
LockAssumption ==
  /\ Lockable \subseteq Blocks \ Checkpoints
  /\ \A a, b \in Lockable : a \in Anc[b] \/ b \in Anc[a]

DataAssumption ==
  /\ BadTarget \subseteq Blocks /\ BadHash \subseteq Blocks
  /\ TxsOf \in [Blocks -> SUBSET Txs]
  /\ Unconfirmed \in Nat /\ \A b \in Blocks : Height[b] < Unconfirmed
  /\ {DGW, SyncTrim, TerminalTrim, TipTrim} \subseteq Nat \ {0}
  /\ {KeepSync, KeepTerminal} \subseteq Nat \ {0, 1}  \* a block's parent is never trimmed
  /\ Estimates \subseteq Nat

ASSUME TreeAssumption
ASSUME CheckpointAssumption
ASSUME LockAssumption
ASSUME DataAssumption

VARIABLES
  syncPhase,                 \* DSChainManager.syncPhase
  mTerminalBlocks,           \* hash -> block object, headers up to the tip
  mSyncBlocks,               \* hash -> block object, the blocks synced
  lastTerminalBlock,         \* tip of the terminal chain
  lastSyncBlock,             \* tip of the sync chain
  staleTip,                  \* lock flag of the tip object when mTerminalBlocks holds another one
  mOrphans,                  \* previous hash -> the last orphan relayed that extends it
  lastChainLockHeight,       \* height of lastChainLock, 0 for none
  bestEstimatedBlockHeight,  \* what the peers say the height is
  blockHeight,               \* height of each wallet transaction
  calls                      \* calls still to be made by the running handler

vars == <<syncPhase, mTerminalBlocks, mSyncBlocks, lastTerminalBlock, lastSyncBlock, staleTip,
          mOrphans, lastChainLockHeight, bestEstimatedBlockHeight, blockHeight, calls>>

-----------------------------------------------------------------------------
(* Block objects and dictionaries of them *)

Objects == [chainLocked : BOOLEAN,  \* verified chain lock
            full : BOOLEAN,         \* a merkle block, with its transaction hashes
            linked : BOOLEAN]       \* has a previous hash; a checkpoint's own object has none

CheckpointObject == [chainLocked |-> FALSE, full |-> FALSE, linked |-> FALSE]
Received(full) == [chainLocked |-> FALSE, full |-> full, linked |-> TRUE]

Put(m, b, o) == [x \in DOMAIN m \cup {b} |-> IF x = b THEN o ELSE m[x]]
Remove(m, S) == [x \in DOMAIN m \ S |-> m[x]]

LastCheckpoint == CHOOSE c \in Checkpoints : \A d \in Checkpoints : Height[d] <= Height[c]
CheckpointBlocks == [c \in Checkpoints |-> CheckpointObject]

\* Where the loop b = m[b.prevBlock] gets from a block with a previous hash.
Below(m, b) ==
  {x \in (Anc[b] \ {b}) \cap DOMAIN m :
     \A y \in Anc[b] \ {b} : Height[y] > Height[x] => y \in DOMAIN m /\ m[y].linked}

ChainOf(m, tip) == {tip} \cup (IF tip \in DOMAIN m /\ ~m[tip].linked THEN {} ELSE Below(m, tip))

TerminalChain == ChainOf(mTerminalBlocks, lastTerminalBlock)
SyncChain == ChainOf(mSyncBlocks, lastSyncBlock)

Locked(m) == {b \in DOMAIN m : m[b].chainLocked}

\* The locks a walk down the terminal chain sees: the tip is its own object.
TerminalLocks ==
  CASE staleTip = "inMap" -> Locked(mTerminalBlocks)
    [] staleTip = "locked" -> Locked(mTerminalBlocks) \cup {lastTerminalBlock}
    [] staleTip = "unlocked" -> Locked(mTerminalBlocks) \ {lastTerminalBlock}

HeightOf(b) == IF b = NoBlock THEN 0 ELSE Height[b]  \* nil.height

At(chain, h) == IF \E x \in chain : Height[x] = h
                THEN CHOOSE x \in chain : Height[x] = h ELSE NoBlock

(***************************************************************************)
(* The walk back to where a fork joins the main chain.  b goes one block   *)
(* down in each turn, b2 goes down when b has fallen below it, and the     *)
(* loop ends when they meet, when one of them is nil, or when b2 is locked.*)
(* In closed form: where both are after k turns, and the first k to stop.  *)
(***************************************************************************)
WalkBack(fork, b, main, b2, locks) ==
  LET lead == IF Height[b] > Height[b2] THEN Height[b] - Height[b2] ELSE 0
      Fork(k) == IF k = 0 THEN b ELSE At(fork, Height[b] - k)
      Turns(k) == IF k > lead THEN k - lead ELSE 0
      Steps(k) == IF Fork(k) = NoBlock THEN Turns(k - 1) + 1 ELSE Turns(k)
      Main(k) == At(main, Height[b2] - Steps(k))
      Stops(k) == \/ Fork(k) = NoBlock \/ Main(k) = NoBlock
                  \/ Fork(k) = Main(k) \/ Main(k) \in locks
      last == CHOOSE k \in 0 .. Height[b] :
                Stops(k) /\ \A j \in 0 .. Height[b] : Stops(j) => k <= j
  IN [b |-> Fork(last), b2 |-> Main(last)]

\* Mutant: asks whether the fork is locked where it joins, not the main chain.
LockedOutOnFork(join, locks) == join.b # join.b2 /\ join.b \in locks

LockedOut(join, locks) == join.b # join.b2 /\ join.b2 \in locks

-----------------------------------------------------------------------------
(* Transaction heights *)

SetBlockHeight(heights, txs, h) == [t \in Txs |-> IF t \in txs THEN h ELSE heights[t]]

Hashes(b, o) == IF o.full THEN TxsOf[b] ELSE {}
HashesIn(m, b) == Hashes(b, m[b])

(***************************************************************************)
(* The loop over allTransactions stops at the first one at or below the    *)
(* join, and allTransactions is the content of an NSSet, in no order: it   *)
(* visits any of the transactions above the join, and all of them only     *)
(* when no transaction stops it.                                           *)
(***************************************************************************)
Visited(join) ==
  LET above == {t \in Txs : blockHeight[t] > HeightOf(join.b)}
  IN IF above = Txs THEN {Txs} ELSE SUBSET above

\* Mutant: starts one block too high on the new branch.
ReorgHeightsAboveJoin(m, branch, join, visited) ==
  LET new == {x \in branch : Height[x] > HeightOf(join.b2) + 1}
  IN [t \in Txs |->
        IF \E x \in new : t \in HashesIn(m, x)
        THEN Height[CHOOSE x \in new : t \in HashesIn(m, x)]
        ELSE IF t \in visited THEN Unconfirmed ELSE blockHeight[t]]

\* Mutant: sets only transactions that were unconfirmed before.
ReorgHeightsOfVisited(m, branch, join, visited) ==
  LET new == {x \in branch : Height[x] > HeightOf(join.b2)}
  IN [t \in Txs |->
        IF t \in visited \/ blockHeight[t] = Unconfirmed
        THEN IF \E x \in new : t \in HashesIn(m, x)
             THEN Height[CHOOSE x \in new : t \in HashesIn(m, x)]
             ELSE Unconfirmed
        ELSE blockHeight[t]]

\* Unconfirms the visited transactions, then sets those of the new branch.
ReorgHeights(m, branch, join, visited) ==
  LET new == {x \in branch : Height[x] > HeightOf(join.b2)}
  IN [t \in Txs |->
        IF \E x \in new : t \in HashesIn(m, x)
        THEN Height[CHOOSE x \in new : t \in HashesIn(m, x)]
        ELSE IF t \in visited THEN Unconfirmed ELSE blockHeight[t]]


-----------------------------------------------------------------------------
(* addBlock: what it works out before it decides where the block belongs *)

Syncing == syncPhase \in {"ChainSync", "Synced"}

\* The two bits of DSBlockPosition; a block with neither is an orphan.
TerminalPosition(b) ==
  /\ Parent[b] \in DOMAIN mTerminalBlocks
  /\ \/ syncPhase = "InitialTerminalBlocks"
     \/ Parent[b] \notin DOMAIN mSyncBlocks
     \/ b \notin DOMAIN mTerminalBlocks

SyncPosition(b) ==
  syncPhase # "InitialTerminalBlocks" /\ Parent[b] \in DOMAIN mSyncBlocks

IsOrphan(b) == ~TerminalPosition(b) /\ ~SyncPosition(b)

\* Mutant: sheds every ancestor instead of those deeper than what is to be kept.
DeepAll(m, b, keep) == {x \in Below(m, b) : Height[x] < Height[b]}

\* Both dictionaries shed the ancestors that are too deep, from time to time.
Deep(m, b, keep) == {x \in Below(m, b) : Height[x] <= Height[b] - keep}

TrimmedTerminal(b) ==
  IF /\ TerminalPosition(b)
     /\ \/ Height[b] % TerminalTrim = 0
        \/ Height[b] = bestEstimatedBlockHeight /\ Height[b] % TipTrim = 0
  THEN Remove(mTerminalBlocks, Deep(mTerminalBlocks, b, KeepTerminal))
  ELSE mTerminalBlocks

TrimmedSync(b) ==
  IF SyncPosition(b) /\ Height[b] % SyncTrim = 0
  THEN Remove(mSyncBlocks, Deep(mSyncBlocks, b, KeepSync))
  ELSE mSyncBlocks

\* equivalentTerminalBlock is only looked for near the last checkpoint and above.
HasEquivalent(b) ==
  /\ SyncPosition(b)
  /\ Height[lastSyncBlock] + 1 >= Height[LastCheckpoint]
  /\ b \in DOMAIN mTerminalBlocks

CanCalculateDifficulty(b) ==
  /\ Parent[b] \in DOMAIN TrimmedSync(b)
  /\ \/ Height[Parent[b]] < DGW
     \/ \E x \in Below(TrimmedSync(b), b) : Height[x] = Height[Parent[b]] - DGW

BadDifficulty(b) == Height[b] > Height[LastCheckpoint] + DGW /\ b \in BadTarget

DiffersFromCheckpoint(b) == \E c \in Checkpoints : Height[c] = Height[b] /\ c # b

\* Mutant: does not compare with the checkpoints.
IsInvalidByTarget(b) ==
  /\ ~HasEquivalent(b)
  /\ TerminalPosition(b) \/ CanCalculateDifficulty(b)
  /\ BadDifficulty(b) \/ b \in BadHash

IsInvalid(b) ==
  /\ ~HasEquivalent(b)
  /\ \/ /\ TerminalPosition(b) \/ CanCalculateDifficulty(b)
        /\ BadDifficulty(b) \/ b \in BadHash
     \/ DiffersFromCheckpoint(b)

\* setChainLockedWithEquivalentBlock
WithLock(b, o) ==
  IF HasEquivalent(b) /\ mTerminalBlocks[b].chainLocked
  THEN [o EXCEPT !.chainLocked = TRUE] ELSE o

\* An object put in mTerminalBlocks for the tip leaves the tip the old object.
TipAfterPut(b, reassigned) ==
  CASE reassigned -> "inMap"
    [] ~reassigned /\ b = lastTerminalBlock ->
         IF b \in TerminalLocks THEN "locked" ELSE "unlocked"
    [] OTHER -> staleTip

-----------------------------------------------------------------------------
(* addBlock: how it ends *)

AddCall(b, o, peer) == [call |-> "addBlock", block |-> b, object |-> o, peer |-> peer]

\* Returns with the tips, the estimate and the orphans as they are.
ReturnEarly(rest) ==
  /\ calls' = rest
  /\ UNCHANGED <<syncPhase, mOrphans, bestEstimatedBlockHeight>>

\* Mutant: looks for orphans only while the sync chain grows.
AdoptsWhileSyncing(b, becameTip) == becameTip /\ Syncing /\ b \in DOMAIN mOrphans

\* An orphan waits for the block that has become the tip.
Adopts(b, becameTip) == becameTip /\ b \in DOMAIN mOrphans

\* The end of the function.  The primed tips are the ones its branch has set.
Finish(b, peer, rest, syncDone, becameTip) ==
  LET adopts == Adopts(b, becameTip)
  IN /\ syncPhase' = IF syncDone /\ peer /\ SyncPosition(b) /\ Syncing THEN "Synced" ELSE syncPhase
     /\ bestEstimatedBlockHeight' =
          IF \/ TerminalPosition(b) /\ Height[b] > bestEstimatedBlockHeight
             \/ SyncPosition(b) /\ Height[b] >= Height[lastTerminalBlock']
          THEN Height[b] ELSE bestEstimatedBlockHeight
     /\ mOrphans' = IF adopts THEN Remove(mOrphans, {b}) ELSE mOrphans
     /\ calls' = IF adopts
                 THEN <<AddCall(mOrphans[b].block, Received(mOrphans[b].full), peer)>> \o rest
                 ELSE rest

AtEstimate(b) == Height[b] = bestEstimatedBlockHeight

-----------------------------------------------------------------------------
(* addBlock: its branches, in the order the code tries them *)

StoreOrphan(b, o, rest) ==
  /\ IsOrphan(b)
  /\ mOrphans' = [x \in DOMAIN mOrphans \cup {Parent[b]} |->
                    IF x = Parent[b] THEN [block |-> b, full |-> o.full] ELSE mOrphans[x]]
  /\ calls' = rest
  /\ UNCHANGED <<syncPhase, mTerminalBlocks, mSyncBlocks, lastTerminalBlock, lastSyncBlock,
                 staleTip, bestEstimatedBlockHeight, blockHeight>>

RejectBlock(b, rest) ==
  /\ ~IsOrphan(b) /\ IsInvalid(b)
  /\ mTerminalBlocks' = TrimmedTerminal(b) /\ mSyncBlocks' = TrimmedSync(b)
  /\ ReturnEarly(rest)
  /\ UNCHANGED <<lastTerminalBlock, lastSyncBlock, staleTip, blockHeight>>

ExtendsSync(b) == Syncing /\ Parent[b] = lastSyncBlock
ExtendsTerminal(b) == ~ExtendsSync(b) /\ Parent[b] = lastTerminalBlock
KnownSync(b) ==
  ~ExtendsSync(b) /\ ~ExtendsTerminal(b) /\ Syncing /\ b \in DOMAIN mSyncBlocks
KnownTerminal(b) ==
  /\ ~ExtendsSync(b) /\ ~ExtendsTerminal(b) /\ ~KnownSync(b)
  /\ b \in DOMAIN mTerminalBlocks /\ TerminalPosition(b)
OnFork(b) == ~ExtendsSync(b) /\ ~ExtendsTerminal(b) /\ ~KnownSync(b) /\ ~KnownTerminal(b)

ExtendSyncChain(b, o, peer, rest) ==
  LET extendsBoth == ~HasEquivalent(b) /\ Parent[b] = lastTerminalBlock
      added == WithLock(b, o)
  IN /\ ExtendsSync(b)
     /\ mSyncBlocks' = Put(TrimmedSync(b), b, added)
     /\ lastSyncBlock' = b
     /\ mTerminalBlocks' = IF extendsBoth THEN Put(TrimmedTerminal(b), b, added) ELSE TrimmedTerminal(b)
     /\ lastTerminalBlock' = IF extendsBoth THEN b ELSE lastTerminalBlock
     /\ staleTip' = IF extendsBoth THEN "inMap" ELSE staleTip
     /\ blockHeight' = SetBlockHeight(blockHeight, Hashes(b, o), Height[b])
     /\ Finish(b, peer, rest, AtEstimate(b), extendsBoth)

ExtendTerminalChain(b, o, peer, rest) ==
  /\ ExtendsTerminal(b)
  /\ mTerminalBlocks' = Put(TrimmedTerminal(b), b, o)
  /\ mSyncBlocks' = TrimmedSync(b)
  /\ lastTerminalBlock' = b /\ staleTip' = "inMap"
  /\ Finish(b, peer, rest, AtEstimate(b), TRUE)
  /\ UNCHANGED <<lastSyncBlock, blockHeight>>

ReplaceSyncBlock(b, o, peer, rest) ==
  LET onMainChain == b \in ChainOf(mSyncBlocks', lastSyncBlock)
  IN /\ KnownSync(b)
     /\ mSyncBlocks' = Put(TrimmedSync(b), b, WithLock(b, o))
     /\ mTerminalBlocks' = TrimmedTerminal(b)
     /\ blockHeight' = IF onMainChain
                       THEN SetBlockHeight(blockHeight, Hashes(b, o), Height[b]) ELSE blockHeight
     /\ UNCHANGED <<lastTerminalBlock, lastSyncBlock, staleTip>>
     /\ Finish(b, peer, rest, FALSE, FALSE)

\* Mutant: sets the heights for a block of any branch.
ReplaceTerminalBlockOffChain(b, o, peer, rest) ==
  /\ KnownTerminal(b)
  /\ mTerminalBlocks' = Put(TrimmedTerminal(b), b, o)
  /\ mSyncBlocks' = TrimmedSync(b)
  /\ staleTip' = TipAfterPut(b, b = lastTerminalBlock)
  /\ blockHeight' = SetBlockHeight(blockHeight, Hashes(b, o), Height[b])
  /\ UNCHANGED <<lastTerminalBlock, lastSyncBlock>>
  /\ Finish(b, peer, rest, FALSE, b = lastTerminalBlock)

ReplaceTerminalBlock(b, o, peer, rest) ==
  LET onMainChain == b \in ChainOf(mTerminalBlocks', lastTerminalBlock)
  IN /\ KnownTerminal(b)
     /\ mTerminalBlocks' = Put(TrimmedTerminal(b), b, o)
     /\ mSyncBlocks' = TrimmedSync(b)
     /\ staleTip' = TipAfterPut(b, b = lastTerminalBlock)
     /\ blockHeight' = IF onMainChain
                       THEN SetBlockHeight(blockHeight, Hashes(b, o), Height[b]) ELSE blockHeight
     /\ UNCHANGED <<lastTerminalBlock, lastSyncBlock>>
     /\ Finish(b, peer, rest, FALSE, b = lastTerminalBlock)

IgnoreFork(b, rest) ==
  /\ OnFork(b)
  /\ Height[b] <= Height[LastCheckpoint] \/ Height[b] <= lastChainLockHeight
  /\ mTerminalBlocks' = TrimmedTerminal(b) /\ mSyncBlocks' = TrimmedSync(b)
  /\ ReturnEarly(rest)
  /\ UNCHANGED <<lastTerminalBlock, lastSyncBlock, staleTip, blockHeight>>

Considered(b) ==
  OnFork(b) /\ Height[b] > Height[LastCheckpoint] /\ Height[b] > lastChainLockHeight

\* Where the fork of b, in m, joins the terminal chain.
TerminalJoin(m, b) ==
  WalkBack({b} \cup Below(m, b), b, ChainOf(m, lastTerminalBlock), lastTerminalBlock, TerminalLocks)

\* Mutant: any fork of the terminal chain replaces it.
ReorgsTerminalAlways(m, b) == ~LockedOut(TerminalJoin(m, b), TerminalLocks)

ReorgsTerminal(m, b) ==
  Work[b] > Work[lastTerminalBlock] /\ ~LockedOut(TerminalJoin(m, b), TerminalLocks)

\* The same for the sync chain.
SyncJoin(m, b) ==
  WalkBack({b} \cup Below(m, b), b, ChainOf(m, lastSyncBlock), lastSyncBlock, Locked(m))

\* Mutant: compares the work with that of the other chain.
ReorgsSyncOverTerminal(m, b) ==
  Work[b] > Work[lastTerminalBlock] /\ ~LockedOut(SyncJoin(m, b), Locked(m))

ReorgsSync(m, b) == Work[b] > Work[lastSyncBlock] /\ ~LockedOut(SyncJoin(m, b), Locked(m))

TerminalFork(b, o, peer, rest) ==
  /\ Considered(b) /\ ~SyncPosition(b)
  /\ mTerminalBlocks' = Put(TrimmedTerminal(b), b, o)
  /\ mSyncBlocks' = TrimmedSync(b)
  /\ IF ReorgsTerminal(mTerminalBlocks', b)
     THEN lastTerminalBlock' = b /\ Finish(b, peer, rest, AtEstimate(b), TRUE)
     ELSE UNCHANGED lastTerminalBlock /\ ReturnEarly(rest)
  /\ staleTip' = TipAfterPut(b, lastTerminalBlock' # lastTerminalBlock)
  /\ UNCHANGED <<lastSyncBlock, blockHeight>>

SyncFork(b, o, peer, rest) ==
  LET added == WithLock(b, o)
      sync == Put(TrimmedSync(b), b, added)
      terminal == IF Syncing THEN Put(TrimmedTerminal(b), b, added) ELSE TrimmedTerminal(b)
      join == SyncJoin(sync, b)
      terminalReorg == Work[b] > Work[lastSyncBlock] /\ Syncing /\ ReorgsTerminal(terminal, b)
  IN /\ Considered(b) /\ SyncPosition(b)
     /\ mTerminalBlocks' = terminal /\ mSyncBlocks' = sync
     /\ lastTerminalBlock' = IF terminalReorg THEN b ELSE lastTerminalBlock
     /\ staleTip' = IF Syncing THEN TipAfterPut(b, terminalReorg) ELSE staleTip
     /\ IF ReorgsSync(sync, b)
        THEN /\ \E visited \in Visited(join) :
                  blockHeight' = ReorgHeights(sync, {b} \cup Below(sync, b), join, visited)
             /\ lastSyncBlock' = b
             /\ Finish(b, peer, rest, AtEstimate(b), terminalReorg)
        ELSE ReturnEarly(rest) /\ UNCHANGED <<lastSyncBlock, blockHeight>>

AddBlock(b, o, peer, rest) ==
  /\ UNCHANGED lastChainLockHeight
  /\ \/ StoreOrphan(b, o, rest)
     \/ RejectBlock(b, rest)
     \/ /\ ~IsOrphan(b) /\ ~IsInvalid(b)
        /\ \/ ExtendSyncChain(b, o, peer, rest)
           \/ ExtendTerminalChain(b, o, peer, rest)
           \/ ReplaceSyncBlock(b, o, peer, rest)
           \/ ReplaceTerminalBlock(b, o, peer, rest)
           \/ IgnoreFork(b, rest)
           \/ TerminalFork(b, o, peer, rest)
           \/ SyncFork(b, o, peer, rest)

-----------------------------------------------------------------------------
(* addChainLock *)

Relink(chain, fork, added) == [call |-> chain, fork |-> fork, added |-> added]
LockSyncCall(b, verified) == [call |-> "lockSync", block |-> b, verified |-> verified]

\* Mutant: takes a lock that was not verified for one that was.
SetLockAnyway(m, b, verified) ==
  IF b \in DOMAIN m THEN [m EXCEPT ![b].chainLocked = TRUE] ELSE m

SetLock(m, b, verified) ==
  IF b \in DOMAIN m THEN [m EXCEPT ![b].chainLocked = verified] ELSE m

\* verifySignature and the terminal half of addChainLock, for a block that is known.
RelayChainLock(b, verified) ==
  LET locked == SetLock(mTerminalBlocks, b, verified)
      reorgs == b \in DOMAIN mTerminalBlocks /\ verified /\ b \notin TerminalChain
      fork == DOMAIN locked \ Below(locked, b)
  IN /\ calls = <<>>
     /\ b \in Lockable \cap (DOMAIN mTerminalBlocks \cup DOMAIN mSyncBlocks)
     /\ lastChainLockHeight' = IF verified /\ Height[b] > lastChainLockHeight
                               THEN Height[b] ELSE lastChainLockHeight
     /\ mTerminalBlocks' = locked
     /\ lastTerminalBlock' = IF reorgs THEN b ELSE lastTerminalBlock
     /\ staleTip' = IF reorgs THEN "inMap" ELSE staleTip
     /\ calls' = IF reorgs THEN <<Relink("relinkTerminal", fork, {}), LockSyncCall(b, verified)>>
                 ELSE <<LockSyncCall(b, verified)>>
     /\ UNCHANGED <<syncPhase, mSyncBlocks, lastSyncBlock, mOrphans, bestEstimatedBlockHeight,
                    blockHeight>>

\* A lock verified for a block that is not known yet leaves only lastChainLock.
RelayEarlyChainLock(b) ==
  /\ calls = <<>>
  /\ b \in Lockable \ (DOMAIN mTerminalBlocks \cup DOMAIN mSyncBlocks)
  /\ Height[b] > lastChainLockHeight
  /\ lastChainLockHeight' = Height[b]
  /\ UNCHANGED <<syncPhase, mTerminalBlocks, mSyncBlocks, lastTerminalBlock, lastSyncBlock,
                 staleTip, mOrphans, bestEstimatedBlockHeight, blockHeight, calls>>

\* The sync half of addChainLock.
LockSync ==
  LET b == Head(calls).block
      locked == SetLock(mSyncBlocks, b, Head(calls).verified)
      reorgs == b \in DOMAIN mSyncBlocks /\ Head(calls).verified /\ b \notin SyncChain
      branch == {b} \cup Below(locked, b)
      join == WalkBack(branch, b, ChainOf(locked, lastSyncBlock), lastSyncBlock, {})
      fork == DOMAIN locked \ Below(locked, b)
  IN /\ calls # <<>> /\ Head(calls).call = "lockSync"
     /\ mSyncBlocks' = locked
     /\ IF reorgs
        THEN /\ lastSyncBlock' = b
             /\ \E visited \in Visited(join) :
                  blockHeight' = ReorgHeights(locked, branch, join, visited)
             /\ calls' = <<Relink("relinkSync", fork, {})>> \o Tail(calls)
        ELSE calls' = Tail(calls) /\ UNCHANGED <<lastSyncBlock, blockHeight>>
     /\ UNCHANGED <<syncPhase, mTerminalBlocks, lastTerminalBlock, staleTip, mOrphans,
                    lastChainLockHeight, bestEstimatedBlockHeight>>

\* Mutant: does not take the block it has added out of the fork.
NextLinksAgain(m, tip, frame) ==
  {c \in frame.fork : c \in DOMAIN m /\ m[c].linked /\ c # Genesis /\ Parent[c] = tip}

\* The blocks of a fork that extend the tip and have not been added again.
NextLinks(m, tip, frame) ==
  {c \in frame.fork \ frame.added :
     c \in DOMAIN m /\ m[c].linked /\ c # Genesis /\ Parent[c] = tip}

\* One turn of the loop that adds the rest of the fork on top of the locked block.
RelinkOne(chain, m, tip) ==
  LET frame == Head(calls)
      next == NextLinks(m, tip, frame)
  IN /\ calls # <<>> /\ frame.call = chain
     /\ IF next = {}
        THEN /\ calls' = Tail(calls)
             /\ UNCHANGED <<syncPhase, mTerminalBlocks, mSyncBlocks, lastTerminalBlock,
                            lastSyncBlock, staleTip, mOrphans, lastChainLockHeight,
                            bestEstimatedBlockHeight, blockHeight>>
        ELSE \E c \in next :
               AddBlock(c, m[c], FALSE,
                        <<Relink(chain, frame.fork, frame.added \cup {c})>> \o Tail(calls))

RelinkTerminal == RelinkOne("relinkTerminal", mTerminalBlocks, lastTerminalBlock)
RelinkSync == RelinkOne("relinkSync", mSyncBlocks, lastSyncBlock)

-----------------------------------------------------------------------------
(* Blocks from peers *)

\* getheaders is what the client sends before ChainSync, getblocks in it.
RelayBlock(b) ==
  /\ calls = <<>> /\ b # Genesis /\ syncPhase # "Offline"
  /\ AddBlock(b, Received(syncPhase # "InitialTerminalBlocks"), TRUE, <<>>)

\* addBlock calling itself for the orphan it has just taken out of mOrphans.
AddAdoptedOrphan ==
  /\ calls # <<>> /\ Head(calls).call = "addBlock"
  /\ AddBlock(Head(calls).block, Head(calls).object, Head(calls).peer, Tail(calls))

-----------------------------------------------------------------------------
(* The sync phase, the estimate, and wiping *)

SetPhase(phase) ==
  /\ syncPhase' = phase
  /\ UNCHANGED <<mTerminalBlocks, mSyncBlocks, lastTerminalBlock, lastSyncBlock, staleTip,
                 mOrphans, lastChainLockHeight, bestEstimatedBlockHeight, blockHeight, calls>>

\* chainShouldStartSyncingBlockchain: listsOld is the masternode manager's answer.
StartSyncingBlockchain(listsOld) ==
  /\ calls = <<>>
  /\ SetPhase(IF \/ ~Syncing /\ bestEstimatedBlockHeight # Height[lastTerminalBlock]
                 \/ listsOld
              THEN "InitialTerminalBlocks" ELSE "ChainSync")

FinishedSyncingMasternodeLists ==
  /\ calls = <<>> /\ syncPhase = "InitialTerminalBlocks"
  /\ SetPhase("ChainSync")

\* peerConnected, when the best peer is not above the tips.
AlreadySynced ==
  /\ calls = <<>> /\ Height[lastSyncBlock] = Height[lastTerminalBlock]
  /\ SetPhase("Synced")

StopSync == calls = <<>> /\ SetPhase("Offline")

ChangeEstimate(h) ==
  /\ calls = <<>>
  /\ bestEstimatedBlockHeight' = h
  /\ UNCHANGED <<syncPhase, mTerminalBlocks, mSyncBlocks, lastTerminalBlock, lastSyncBlock,
                 staleTip, mOrphans, lastChainLockHeight, blockHeight, calls>>

\* DashSync.wipeBlockchainDataForChain; lastChainLock, orphans and estimate stay.
WipeBlockchain ==
  /\ calls = <<>>
  /\ syncPhase' = "InitialTerminalBlocks"
  /\ mTerminalBlocks' = CheckpointBlocks /\ mSyncBlocks' = CheckpointBlocks
  /\ lastTerminalBlock' = LastCheckpoint /\ lastSyncBlock' = SyncStart
  /\ staleTip' = "inMap"
  /\ blockHeight' = [t \in Txs |-> Unconfirmed]
  /\ UNCHANGED <<mOrphans, lastChainLockHeight, bestEstimatedBlockHeight, calls>>

\* Mutant: leaves the sync chain without a tip.
WipeBlockchainNoTip ==
  /\ calls = <<>>
  /\ syncPhase' = "Offline"
  /\ mSyncBlocks' = CheckpointBlocks /\ lastSyncBlock' = NoBlock
  /\ blockHeight' = [t \in Txs |-> Unconfirmed]
  /\ UNCHANGED <<mTerminalBlocks, lastTerminalBlock, staleTip, mOrphans, lastChainLockHeight,
                 bestEstimatedBlockHeight, calls>>

\* DashSync.wipeBlockchainNonTerminalDataForChain: a rescan keeps the headers.
WipeBlockchainNonTerminal ==
  /\ calls = <<>>
  /\ syncPhase' = "Offline"
  /\ mSyncBlocks' = CheckpointBlocks /\ lastSyncBlock' = SyncStart
  /\ blockHeight' = [t \in Txs |-> Unconfirmed]
  /\ UNCHANGED <<mTerminalBlocks, lastTerminalBlock, staleTip, mOrphans, lastChainLockHeight,
                 bestEstimatedBlockHeight, calls>>

-----------------------------------------------------------------------------
Init ==
  /\ syncPhase = "Offline"
  /\ mTerminalBlocks = CheckpointBlocks /\ mSyncBlocks = CheckpointBlocks
  /\ lastTerminalBlock = LastCheckpoint /\ lastSyncBlock = SyncStart
  /\ staleTip = "inMap"
  /\ mOrphans = << >>
  /\ lastChainLockHeight = 0
  /\ bestEstimatedBlockHeight \in Estimates
  /\ blockHeight = [t \in Txs |-> Unconfirmed]
  /\ calls = <<>>

Next ==
  \/ \E b \in Blocks : RelayBlock(b)
  \/ AddAdoptedOrphan
  \/ \E b \in Lockable, verified \in BOOLEAN : RelayChainLock(b, verified)
  \/ \E b \in Lockable : RelayEarlyChainLock(b)
  \/ LockSync \/ RelinkTerminal \/ RelinkSync
  \/ \E listsOld \in BOOLEAN : StartSyncingBlockchain(listsOld)
  \/ FinishedSyncingMasternodeLists \/ AlreadySynced \/ StopSync
  \/ \E h \in Estimates : ChangeEstimate(h)
  \/ WipeBlockchain \/ WipeBlockchainNonTerminal

Spec == Init /\ [][Next]_vars

\* What a handler has started it goes on with: the loops run on the queue's own thread.
HandlerStep == AddAdoptedOrphan \/ LockSync \/ RelinkTerminal \/ RelinkSync
FairSpec == Spec /\ WF_vars(HandlerStep)

-----------------------------------------------------------------------------
(* Properties *)

Idle == calls = <<>>

IsDictionary(m) == DOMAIN m \subseteq Blocks /\ m \in [DOMAIN m -> Objects]

Calls ==
  [call : {"addBlock"}, block : Blocks \ {Genesis}, object : Objects, peer : BOOLEAN]
    \cup [call : {"lockSync"}, block : Lockable, verified : BOOLEAN]
    \cup [call : {"relinkTerminal", "relinkSync"}, fork : SUBSET Blocks, added : SUBSET Blocks]

\* The variables hold what the Objective-C types and dictionaries hold.
TypeOK ==
  /\ syncPhase \in Phases
  /\ IsDictionary(mTerminalBlocks) /\ IsDictionary(mSyncBlocks)
  /\ lastTerminalBlock \in Blocks /\ lastSyncBlock \in Blocks
  /\ staleTip \in {"inMap", "locked", "unlocked"}
  /\ DOMAIN mOrphans \subseteq Blocks
  /\ mOrphans \in [DOMAIN mOrphans -> [block : Blocks \ {Genesis}, full : BOOLEAN]]
  /\ lastChainLockHeight \in Nat /\ bestEstimatedBlockHeight \in Nat
  /\ blockHeight \in [Txs -> Nat]
  /\ calls \in Seq(Calls)

\* A block that m keeps stands at least keep blocks high on the given one, itself counted.
Buried(m, b, keep) ==
  \E y \in DOMAIN m : m[y].linked /\ b \in Anc[y] /\ Height[y] >= Height[b] + keep - 1

\* A tip is a block its dictionary holds: neither a reorganisation nor a chain
\* lock makes a tip of a block that is not kept, and trimming takes the ground
\* from under a tip only when as many blocks as are kept, the tip counted, stand
\* on it although it has not given way to them.  Until a chain lock is verified
\* that does not happen to the sync chain, unless two checkpoints are neighbours.
TipsHeld ==
  /\ \/ lastTerminalBlock \in DOMAIN mTerminalBlocks
     \/ Buried(mTerminalBlocks, lastTerminalBlock, KeepTerminal)
  /\ \/ lastSyncBlock \in DOMAIN mSyncBlocks
     \/ /\ Buried(mSyncBlocks, lastSyncBlock, KeepSync)
        /\ \/ lastChainLockHeight > 0
           \/ \E c \in Checkpoints \ {Genesis} : Parent[c] = lastSyncBlock

\* No block is kept at the height of a checkpoint but the checkpoint, although
\* addBlock does not look at the checkpoint when it has an equivalent terminal block.
CheckpointsRespected ==
  \A b \in DOMAIN mTerminalBlocks \cup DOMAIN mSyncBlocks : ~DiffersFromCheckpoint(b)

\* A block marked as chain locked is not above lastChainLock, so that a fork
\* which could replace it is one that addBlock ignores for its height.
LocksCovered ==
  \A b \in Locked(mTerminalBlocks) \cup Locked(mSyncBlocks) : Height[b] <= lastChainLockHeight

\* Until a chain lock is verified the sync chain is the one with the most work
\* of all the branches that were synced.  The checkpoints, which are kept from
\* the start, do not count.
SyncTipHasMostWork ==
  lastChainLockHeight = 0 =>
    \A b \in DOMAIN mSyncBlocks \ Checkpoints : Work[b] <= Work[lastSyncBlock]

\* The sync chain is connected down to a checkpoint, or as far down as trimming
\* goes: a reorganisation, a relink or a trim leaves a gap in it only under as
\* many blocks as are kept.
SyncChainUnbroken ==
  \/ SyncChain \cap Checkpoints # {}
  \/ \E x \in SyncChain \ {Genesis} : Buried(mSyncBlocks, Parent[x], KeepSync)

\* After a chain lock has been dealt with, every chain locked block of the sync
\* blocks is on the sync chain, whatever the work of the other branches.
LockedSyncBlocksOnChain == Idle => Locked(mSyncBlocks) \subseteq SyncChain

\* The transactions of the blocks on the sync chain are confirmed: what a
\* reorganisation marks as unconfirmed, it confirms again on the new branch.
SyncedTxsConfirmed ==
  Idle => \A b \in SyncChain : \A t \in HashesIn(mSyncBlocks, b) : blockHeight[t] # Unconfirmed

\* The transactions of the sync chain are confirmed, and once both chains have the
\* same tip each of them has the height of its block.
HeightsAgreeAtTip ==
  /\ SyncedTxsConfirmed
  /\ Idle /\ lastSyncBlock = lastTerminalBlock =>
       \A b \in SyncChain : \A t \in HashesIn(mSyncBlocks, b) : blockHeight[t] = Height[b]

\* Until a chain lock is verified no orphan is left waiting for the terminal tip,
\* unless the tip has been trimmed away under it or a wipe has brought it back.
NoOrphanWaitsForTip ==
  lastChainLockHeight = 0 =>
    \/ lastTerminalBlock \notin DOMAIN mOrphans
    \/ lastTerminalBlock = LastCheckpoint
    \/ Buried(mTerminalBlocks, lastTerminalBlock, KeepTerminal)

\* What a step may do to the work of the tips.
WorkKept ==
  /\ \/ Work[lastTerminalBlock'] >= Work[lastTerminalBlock]
     \/ lastTerminalBlock' \in Locked(mTerminalBlocks')
     \/ WipeBlockchain
  /\ \/ Work[lastSyncBlock'] >= Work[lastSyncBlock]
     \/ lastSyncBlock' \in Locked(mSyncBlocks')
     \/ WipeBlockchain \/ WipeBlockchainNonTerminal

\* A tip gives way to one with less work only to a chain locked block or to a wipe.
WorkNeverDrops == [][WorkKept]_vars

\* The new tip of the sync chain has more work than the old one and is lower, and
\* no lock speaks for it.
PassesLocks ==
  /\ Work[lastSyncBlock'] > Work[lastSyncBlock] /\ Height[lastSyncBlock'] < Height[lastSyncBlock]
  /\ lastSyncBlock' \notin Locked(mSyncBlocks')

\* What a step may do to the chain locked blocks of the sync chain.
SyncLocksKept ==
  \A a \in Locked(mSyncBlocks) \cap SyncChain \cap Locked(mSyncBlocks') :
    \/ a \in SyncChain'
    \/ SyncChain \cap SyncChain' = {}
    \/ PassesLocks

\* A block that is kept and stays marked as chain locked leaves the sync chain only
\* for a branch that, as far as it is kept, joins that chain nowhere, or for one
\* that has more work and is lower: the walk back to the join looks for a lock.
LocksHoldSyncChain == [][SyncLocksKept]_vars

\* The sync chain gets a new tip, no lower than the old one, and keeps a part.
SyncTipMoves ==
  /\ lastSyncBlock' # lastSyncBlock /\ Height[lastSyncBlock'] >= Height[lastSyncBlock]
  /\ SyncChain \cap SyncChain' # {}

\* What such a step may do to the height of a transaction.
NewBlocksConfirm ==
  SyncTipMoves => \A t \in Txs :
    LET mining == {b \in SyncChain' \ SyncChain : t \in HashesIn(mSyncBlocks', b)}
    IN \/ \E b \in mining : blockHeight'[t] = Height[b]
       \/ mining = {} /\ blockHeight'[t] = blockHeight[t]
       \/ /\ mining = {} /\ blockHeight'[t] = Unconfirmed
          /\ \A x \in SyncChain \cap SyncChain' : blockHeight[t] > Height[x]

\* However long the branch that the sync chain changes to, each transaction of the
\* blocks that are new on the chain gets the height of one of them, no other gets
\* a height, and none that stands at or below the join loses the one it has.
ReorgConfirms == [][NewBlocksConfirm]_vars

\* What any step may do to the height of a transaction.
HeightsFollowBlocks ==
  \A t \in Txs : blockHeight'[t] # blockHeight[t] =>
    \/ \E b \in SyncChain' \cup TerminalChain' : t \in TxsOf[b] /\ blockHeight'[t] = Height[b]
    \/ /\ blockHeight'[t] = Unconfirmed
       /\ lastSyncBlock' # lastSyncBlock \/ mSyncBlocks' = CheckpointBlocks

\* A transaction is confirmed only at the height of a block that mines it and is
\* then on one of the chains, and it is unconfirmed only by a new tip or a wipe.
HeightsFollowChains == [][HeightsFollowBlocks]_vars

\* The calls of a handler that are still to be made, the stage of addChainLock they
\* are of, and the blocks of a fork that its loops have not added again.
Waiting(stack) == {stack[i] : i \in DOMAIN stack}
Kinds(stack) == {c.call : c \in Waiting(stack)}
Stage(stack) ==
  CASE "relinkTerminal" \in Kinds(stack) -> 3
    [] "relinkTerminal" \notin Kinds(stack) /\ "lockSync" \in Kinds(stack) -> 2
    [] Kinds(stack) \ {"addBlock"} = {"relinkSync"} -> 1
    [] OTHER -> 0
Left(stack) ==
  {b \in Blocks : \E c \in Waiting(stack) :
     c.call \in {"relinkTerminal", "relinkSync"} /\ b \in c.fork \ c.added}

Adding == calls # <<>> /\ Head(calls).call = "addBlock"

\* What a step of a handler must do: go on to a later stage, add a block of the fork
\* for the last time, or, while it adopts orphans, take one out or adopt no more.
LessLeft ==
  \/ Stage(calls') < Stage(calls)
  \/ Stage(calls') = Stage(calls) /\ Left(calls') \subseteq Left(calls) /\ Left(calls') # Left(calls)
  \/ /\ Stage(calls') = Stage(calls) /\ Left(calls') = Left(calls) /\ Adding
     /\ Adding' => DOMAIN mOrphans' \subseteq DOMAIN mOrphans /\ DOMAIN mOrphans' # DOMAIN mOrphans

\* No handler goes round in a circle: with each step it has less left to do, of a
\* fork and of orphans that are finite.
HandlersUseUp == [][HandlerStep => LessLeft]_vars

\* A handler always comes to its end: neither the loop that adds the rest of a
\* fork nor the recursion for orphans goes on for ever.
HandlersReturn == []<>Idle

-----------------------------------------------------------------------------
(* What the code says of itself and does not do *)

\* addBlock: "no reorganizing chain to height %d because of chainlock at height
\* %d".  A chain locked block stays on the terminal chain.
LockedTerminalBlocksOnChain == Idle => Locked(mTerminalBlocks) \subseteq TerminalChain

\* addBlock: "mark transactions after the join point as unconfirmed".  Once both
\* chains have the same tip, a confirmed transaction is in a block of that chain.
ConfirmedTxsOnChain ==
  Idle /\ lastSyncBlock = lastTerminalBlock =>
    \A t \in Txs : blockHeight[t] # Unconfirmed =>
      \E b \in SyncChain : Height[b] = blockHeight[t] /\ t \in TxsOf[b]

\* clearOrphans: "clear out orphans that may have been received on an old
\* filter".  A block synced from an orphan was received as a merkle block.
SyncedBlocksMatched ==
  Idle => \A b \in SyncChain \ Checkpoints : mSyncBlocks[b].full
=============================================================================
