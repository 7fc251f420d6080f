---------------------------- MODULE DSChainProofs ----------------------------
(***************************************************************************)
(* Theorems about DSChain, for every tree of blocks, every checkpoint      *)
(* table and every set of lockable blocks the assumptions allow.           *)
(***************************************************************************)
EXTENDS DSChain, SequenceTheorems, TLAPS

-----------------------------------------------------------------------------
(* Dictionaries of block objects *)

\* Setting an object for a hash leaves a dictionary.
LEMMA PutDictionary ==
  ASSUME NEW m, IsDictionary(m), NEW b \in Blocks, NEW o \in Objects
  PROVE  IsDictionary(Put(m, b, o)) /\ DOMAIN Put(m, b, o) = DOMAIN m \cup {b}
BY DEF IsDictionary, Put

\* Removing hashes leaves a dictionary.
LEMMA RemoveDictionary ==
  ASSUME NEW m, IsDictionary(m), NEW S
  PROVE  IsDictionary(Remove(m, S)) /\ DOMAIN Remove(m, S) = DOMAIN m \ S
BY DEF IsDictionary, Remove

\* A checkpoint's own object is an object.
LEMMA CheckpointDictionary == IsDictionary(CheckpointBlocks) /\ DOMAIN CheckpointBlocks = Checkpoints
BY CheckpointAssumption DEF CheckpointAssumption, IsDictionary, CheckpointBlocks, CheckpointObject, Objects

\* Marking an object as chain locked leaves a dictionary with the same hashes.
LEMMA SetLockDictionary ==
  ASSUME NEW m, IsDictionary(m), NEW b \in Blocks, NEW verified \in BOOLEAN
  PROVE  IsDictionary(SetLock(m, b, verified)) /\ DOMAIN SetLock(m, b, verified) = DOMAIN m
BY DEF IsDictionary, SetLock, Objects

\* A walk down a dictionary only meets blocks.
LEMMA BelowBlocks ==
  ASSUME NEW m, IsDictionary(m), NEW b \in Blocks
  PROVE  Below(m, b) \subseteq Blocks
BY DEF Below, IsDictionary

\* Trimming removes hashes and does nothing else.
LEMMA TrimmedDictionaries ==
  ASSUME TypeOK, NEW b \in Blocks
  PROVE  /\ IsDictionary(TrimmedTerminal(b)) /\ DOMAIN TrimmedTerminal(b) \subseteq DOMAIN mTerminalBlocks
         /\ IsDictionary(TrimmedSync(b)) /\ DOMAIN TrimmedSync(b) \subseteq DOMAIN mSyncBlocks
<1>1. IsDictionary(mTerminalBlocks) /\ IsDictionary(mSyncBlocks)
  BY DEF TypeOK
<1>2. IsDictionary(TrimmedTerminal(b)) /\ DOMAIN TrimmedTerminal(b) \subseteq DOMAIN mTerminalBlocks
  <2> DEFINE kept == Remove(mTerminalBlocks, Deep(mTerminalBlocks, b, KeepTerminal))
  <2>1. IsDictionary(kept) /\ DOMAIN kept \subseteq DOMAIN mTerminalBlocks
    BY <1>1, RemoveDictionary
  <2>2. TrimmedTerminal(b) \in {kept, mTerminalBlocks}
    BY DEF TrimmedTerminal
  <2> HIDE DEF kept
  <2>3. QED
    BY <1>1, <2>1, <2>2
<1>3. IsDictionary(TrimmedSync(b)) /\ DOMAIN TrimmedSync(b) \subseteq DOMAIN mSyncBlocks
  <2> DEFINE kept == Remove(mSyncBlocks, Deep(mSyncBlocks, b, KeepSync))
  <2>1. IsDictionary(kept) /\ DOMAIN kept \subseteq DOMAIN mSyncBlocks
    BY <1>1, RemoveDictionary
  <2>2. TrimmedSync(b) \in {kept, mSyncBlocks}
    BY DEF TrimmedSync
  <2> HIDE DEF kept
  <2>3. QED
    BY <1>1, <2>1, <2>2
<1>4. QED
  BY <1>2, <1>3

\* The objects that stay are the ones that were there.
LEMMA TrimmedObjects ==
  ASSUME NEW b \in Blocks
  PROVE  /\ \A x \in DOMAIN TrimmedTerminal(b) : TrimmedTerminal(b)[x] = mTerminalBlocks[x]
         /\ \A x \in DOMAIN TrimmedSync(b) : TrimmedSync(b)[x] = mSyncBlocks[x]
BY DEF TrimmedTerminal, TrimmedSync, Remove

\* The object that inherits the lock of the terminal block is an object.
LEMMA WithLockObject ==
  ASSUME NEW b \in Blocks, NEW o \in Objects
  PROVE  WithLock(b, o) \in Objects
BY DEF WithLock, Objects

-----------------------------------------------------------------------------
(* Transaction heights *)

\* Setting the height of some transactions leaves a height for each.
LEMMA SetBlockHeightType ==
  ASSUME NEW heights \in [Txs -> Nat], NEW txs, NEW h \in Nat
  PROVE  SetBlockHeight(heights, txs, h) \in [Txs -> Nat]
BY DEF SetBlockHeight

\* So does a reorganisation, whatever transactions its loop visits.
LEMMA ReorgHeightsType ==
  ASSUME TypeOK, NEW m, NEW branch \in SUBSET Blocks, NEW join, NEW visited
  PROVE  ReorgHeights(m, branch, join, visited) \in [Txs -> Nat]
<1> DEFINE new == {x \in branch : Height[x] > HeightOf(join.b2)}
<1>1. ASSUME NEW t \in Txs, \E x \in new : t \in HashesIn(m, x)
      PROVE  Height[CHOOSE x \in new : t \in HashesIn(m, x)] \in Nat
  <2>1. (CHOOSE x \in new : t \in HashesIn(m, x)) \in new
    BY <1>1
  <2>2. QED
    BY <2>1, TreeAssumption DEF TreeAssumption
<1>2. Unconfirmed \in Nat
  BY DataAssumption DEF DataAssumption
<1>3. \A t \in Txs : blockHeight[t] \in Nat
  BY DEF TypeOK
<1>4. QED
  BY <1>1, <1>2, <1>3 DEF ReorgHeights

-----------------------------------------------------------------------------
(* What addBlock leaves behind *)

\* The end of addBlock: the phase stays a phase, the call for the adopted orphan
\* is a call.
LEMMA FinishType ==
  ASSUME TypeOK, NEW b \in Blocks, NEW peer \in BOOLEAN, NEW rest \in Seq(Calls),
         NEW syncDone, NEW becameTip, Finish(b, peer, rest, syncDone, becameTip)
  PROVE  /\ syncPhase' \in Phases /\ bestEstimatedBlockHeight' \in Nat
         /\ DOMAIN mOrphans' \subseteq Blocks
         /\ mOrphans' \in [DOMAIN mOrphans' -> [block : Blocks \ {Genesis}, full : BOOLEAN]]
         /\ calls' \in Seq(Calls)
<1>1. syncPhase' \in Phases
  BY DEF Finish, TypeOK, Phases
<1>2. bestEstimatedBlockHeight' \in Nat
  BY TreeAssumption DEF Finish, TypeOK, TreeAssumption
<1>3. /\ DOMAIN mOrphans' \subseteq Blocks
      /\ mOrphans' \in [DOMAIN mOrphans' -> [block : Blocks \ {Genesis}, full : BOOLEAN]]
  BY DEF Finish, TypeOK, Remove
<1>4. calls' \in Seq(Calls)
  <2>1. CASE Adopts(b, becameTip)
    <3> DEFINE call == AddCall(mOrphans[b].block, Received(mOrphans[b].full), peer)
    <3>1. mOrphans[b] \in [block : Blocks \ {Genesis}, full : BOOLEAN]
      BY <2>1 DEF Adopts, TypeOK
    <3>2. call \in Calls
      BY <3>1 DEF AddCall, Received, Objects, Calls
    <3>3. <<call>> \in Seq(Calls)
      BY <3>2
    <3>4. calls' = <<call>> \o rest
      BY <2>1 DEF Finish
    <3>5. QED
      BY <3>3, <3>4, ConcatProperties
  <2>2. CASE ~Adopts(b, becameTip)
    BY <2>2 DEF Finish
  <2>3. QED
    BY <2>1, <2>2
<1>5. QED
  BY <1>1, <1>2, <1>3, <1>4

\* addBlock keeps every type.
LEMMA AddBlockType ==
  ASSUME TypeOK, NEW b \in Blocks \ {Genesis}, NEW o \in Objects, NEW peer \in BOOLEAN,
         NEW rest \in Seq(Calls), AddBlock(b, o, peer, rest)
  PROVE  TypeOK'
<1> DEFINE sync == TrimmedSync(b)  terminal == TrimmedTerminal(b)
<1>1. /\ IsDictionary(terminal) /\ IsDictionary(sync)
      /\ IsDictionary(Put(terminal, b, o)) /\ IsDictionary(Put(sync, b, WithLock(b, o)))
      /\ IsDictionary(Put(terminal, b, WithLock(b, o)))
  BY TrimmedDictionaries, PutDictionary, WithLockObject
<1>2. Height[b] \in Nat /\ Parent[b] \in Blocks
  BY TreeAssumption DEF TreeAssumption
<1>3. \A txs : SetBlockHeight(blockHeight, txs, Height[b]) \in [Txs -> Nat]
  BY <1>2, SetBlockHeightType DEF TypeOK
<1>4. lastChainLockHeight' = lastChainLockHeight
  BY DEF AddBlock
<1>5. CASE StoreOrphan(b, o, rest)
  <2>1. o.full \in BOOLEAN
    BY DEF Objects
  <2>2. /\ DOMAIN mOrphans' \subseteq Blocks
        /\ mOrphans' \in [DOMAIN mOrphans' -> [block : Blocks \ {Genesis}, full : BOOLEAN]]
    BY <1>2, <1>5, <2>1 DEF StoreOrphan, TypeOK
  <2>3. QED
    BY <1>4, <1>5, <2>2 DEF StoreOrphan, TypeOK, IsDictionary
<1>6. CASE RejectBlock(b, rest)
  BY <1>1, <1>4, <1>6 DEF RejectBlock, ReturnEarly, TypeOK, IsDictionary
<1>7. CASE ExtendSyncChain(b, o, peer, rest)
  <2>1. PICK syncDone, becameTip : Finish(b, peer, rest, syncDone, becameTip)
    BY <1>7 DEF ExtendSyncChain
  <2>2. IsDictionary(mTerminalBlocks') /\ IsDictionary(mSyncBlocks')
    BY <1>1, <1>7 DEF ExtendSyncChain
  <2>3. /\ lastTerminalBlock' \in Blocks /\ lastSyncBlock' \in Blocks
        /\ staleTip' \in {"inMap", "locked", "unlocked"}
        /\ blockHeight' \in [Txs -> Nat]
    BY <1>3, <1>7 DEF ExtendSyncChain, TypeOK
  <2>4. QED
    BY <1>4, <2>1, <2>2, <2>3, FinishType DEF TypeOK, IsDictionary
<1>8. CASE ExtendTerminalChain(b, o, peer, rest)
  <2>1. PICK syncDone, becameTip : Finish(b, peer, rest, syncDone, becameTip)
    BY <1>8 DEF ExtendTerminalChain
  <2>2. IsDictionary(mTerminalBlocks') /\ IsDictionary(mSyncBlocks')
    BY <1>1, <1>8 DEF ExtendTerminalChain
  <2>3. /\ lastTerminalBlock' \in Blocks /\ lastSyncBlock' \in Blocks
        /\ staleTip' \in {"inMap", "locked", "unlocked"}
        /\ blockHeight' \in [Txs -> Nat]
    BY <1>8 DEF ExtendTerminalChain, TypeOK
  <2>4. QED
    BY <1>4, <2>1, <2>2, <2>3, FinishType DEF TypeOK, IsDictionary
<1>9. CASE ReplaceSyncBlock(b, o, peer, rest)
  <2>1. PICK syncDone, becameTip : Finish(b, peer, rest, syncDone, becameTip)
    BY <1>9 DEF ReplaceSyncBlock
  <2>2. IsDictionary(mTerminalBlocks') /\ IsDictionary(mSyncBlocks')
    BY <1>1, <1>9 DEF ReplaceSyncBlock
  <2>3. /\ lastTerminalBlock' \in Blocks /\ lastSyncBlock' \in Blocks
        /\ staleTip' \in {"inMap", "locked", "unlocked"}
        /\ blockHeight' \in [Txs -> Nat]
    BY <1>3, <1>9 DEF ReplaceSyncBlock, TypeOK
  <2>4. QED
    BY <1>4, <2>1, <2>2, <2>3, FinishType DEF TypeOK, IsDictionary
<1>10. CASE ReplaceTerminalBlock(b, o, peer, rest)
  <2>1. PICK syncDone, becameTip : Finish(b, peer, rest, syncDone, becameTip)
    BY <1>10 DEF ReplaceTerminalBlock
  <2>2. IsDictionary(mTerminalBlocks') /\ IsDictionary(mSyncBlocks')
    BY <1>1, <1>10 DEF ReplaceTerminalBlock
  <2>3. /\ lastTerminalBlock' \in Blocks /\ lastSyncBlock' \in Blocks
        /\ staleTip' \in {"inMap", "locked", "unlocked"}
        /\ blockHeight' \in [Txs -> Nat]
    BY <1>3, <1>10 DEF ReplaceTerminalBlock, TipAfterPut, TypeOK
  <2>4. QED
    BY <1>4, <2>1, <2>2, <2>3, FinishType DEF TypeOK, IsDictionary
<1>11. CASE IgnoreFork(b, rest)
  BY <1>1, <1>4, <1>11 DEF IgnoreFork, ReturnEarly, TypeOK, IsDictionary
<1>12. CASE TerminalFork(b, o, peer, rest)
  <2>1. IsDictionary(mTerminalBlocks') /\ IsDictionary(mSyncBlocks')
    BY <1>1, <1>12 DEF TerminalFork
  <2>2. /\ lastTerminalBlock' \in Blocks /\ lastSyncBlock' \in Blocks
        /\ staleTip' \in {"inMap", "locked", "unlocked"}
        /\ blockHeight' \in [Txs -> Nat]
    BY <1>12 DEF TerminalFork, TipAfterPut, TypeOK
  <2>3. CASE ReturnEarly(rest)
    BY <1>4, <2>1, <2>2, <2>3 DEF ReturnEarly, TypeOK, IsDictionary
  <2>4. CASE \E syncDone, becameTip : Finish(b, peer, rest, syncDone, becameTip)
    <3>1. PICK syncDone, becameTip : Finish(b, peer, rest, syncDone, becameTip)
      BY <2>4
    <3>2. QED
      BY <1>4, <2>1, <2>2, <3>1, FinishType DEF TypeOK, IsDictionary
  <2>5. QED
    BY <1>12, <2>3, <2>4 DEF TerminalFork
<1>13. CASE SyncFork(b, o, peer, rest)
  <2> DEFINE forked == Put(sync, b, WithLock(b, o))
  <2>1. IsDictionary(mTerminalBlocks') /\ IsDictionary(mSyncBlocks')
    BY <1>1, <1>13 DEF SyncFork
  <2>2. /\ lastTerminalBlock' \in Blocks
        /\ staleTip' \in {"inMap", "locked", "unlocked"}
    BY <1>13 DEF SyncFork, TipAfterPut, TypeOK
  <2>3. CASE ReorgsSync(forked, b)
    <3>1. PICK visited : blockHeight' = ReorgHeights(forked, {b} \cup Below(forked, b),
                                                     SyncJoin(forked, b), visited)
      BY <1>13, <2>3 DEF SyncFork
    <3>2. {b} \cup Below(forked, b) \in SUBSET Blocks
      BY <1>1, BelowBlocks
    <3>3. blockHeight' \in [Txs -> Nat]
      BY <3>1, <3>2, ReorgHeightsType
    <3>4. lastSyncBlock' \in Blocks
      BY <1>13, <2>3 DEF SyncFork
    <3>5. PICK syncDone, becameTip : Finish(b, peer, rest, syncDone, becameTip)
      BY <1>13, <2>3 DEF SyncFork
    <3>6. QED
      BY <1>4, <2>1, <2>2, <3>3, <3>4, <3>5, FinishType DEF TypeOK, IsDictionary
  <2>4. CASE ~ReorgsSync(forked, b)
    <3>1. ReturnEarly(rest) /\ UNCHANGED <<lastSyncBlock, blockHeight>>
      BY <1>13, <2>4 DEF SyncFork
    <3>2. QED
      BY <1>4, <2>1, <2>2, <3>1 DEF ReturnEarly, TypeOK, IsDictionary
  <2>5. QED
    BY <2>3, <2>4
<1>14. QED
  BY <1>5, <1>6, <1>7, <1>8, <1>9, <1>10, <1>11, <1>12, <1>13 DEF AddBlock

-----------------------------------------------------------------------------
(* The other steps *)

\* The call that runs is a call, and so are those that wait.
LEMMA CallsType ==
  ASSUME TypeOK, calls # <<>>
  PROVE  Head(calls) \in Calls /\ Tail(calls) \in Seq(Calls)
BY HeadTailProperties DEF TypeOK

\* What an orphan call carries.
LEMMA AddCallType ==
  ASSUME NEW c \in Calls, c.call = "addBlock"
  PROVE  c.block \in Blocks \ {Genesis} /\ c.object \in Objects /\ c.peer \in BOOLEAN
BY DEF Calls

\* What the sync half of addChainLock is called with.
LEMMA LockSyncCallType ==
  ASSUME NEW c \in Calls, c.call = "lockSync"
  PROVE  c.block \in Lockable /\ c.verified \in BOOLEAN
BY DEF Calls

\* What the loop that relinks a fork works on.
LEMMA RelinkCallType ==
  ASSUME NEW c \in Calls, c.call \in {"relinkTerminal", "relinkSync"}
  PROVE  c.fork \in SUBSET Blocks /\ c.added \in SUBSET Blocks
BY DEF Calls

\* A call can be put in front of those that wait.
LEMMA PushCall ==
  ASSUME NEW S, NEW c \in S, NEW rest \in Seq(S)
  PROVE  <<c>> \o rest \in Seq(S)
<1>1. <<c>> \in Seq(S)
  OBVIOUS
<1>2. QED
  BY <1>1, ConcatProperties

\* Every turn of a relinking loop either returns or is addBlock for a kept block
\* of the fork, with the object that is kept.
LEMMA RelinkStep ==
  ASSUME TypeOK, NEW chain \in {"relinkTerminal", "relinkSync"}, NEW m, IsDictionary(m),
         NEW tip, RelinkOne(chain, m, tip)
  PROVE  \/ /\ calls # <<>> /\ calls' = Tail(calls)
            /\ UNCHANGED <<syncPhase, mTerminalBlocks, mSyncBlocks, lastTerminalBlock, lastSyncBlock,
                           staleTip, mOrphans, lastChainLockHeight, bestEstimatedBlockHeight,
                           blockHeight>>
         \/ \E c \in (Blocks \ {Genesis}) \cap DOMAIN m, fork, added \in SUBSET Blocks :
              /\ calls # <<>>
              /\ m[c] \in Objects
              /\ AddBlock(c, m[c], FALSE, <<Relink(chain, fork, added)>> \o Tail(calls))
<1>1. calls # <<>> /\ Head(calls).call = chain
  BY DEF RelinkOne
<1>2. Head(calls).fork \in SUBSET Blocks /\ Head(calls).added \in SUBSET Blocks
  BY <1>1, CallsType, RelinkCallType
<1>3. CASE NextLinks(m, tip, Head(calls)) = {}
  BY <1>1, <1>3 DEF RelinkOne
<1>4. CASE NextLinks(m, tip, Head(calls)) # {}
  <2>1. PICK c \in NextLinks(m, tip, Head(calls)) :
          AddBlock(c, m[c], FALSE,
                   <<Relink(chain, Head(calls).fork, Head(calls).added \cup {c})>> \o Tail(calls))
    BY <1>4 DEF RelinkOne
  <2>2. c \in (Blocks \ {Genesis}) \cap DOMAIN m
    BY <1>2, <2>1 DEF NextLinks
  <2>3. m[c] \in Objects
    BY <2>2 DEF IsDictionary
  <2>4. Head(calls).added \cup {c} \in SUBSET Blocks
    BY <1>2, <2>2
  <2>5. QED
    BY <1>1, <1>2, <2>1, <2>2, <2>3, <2>4
<1>5. QED
  BY <1>3, <1>4

\* Relinking keeps every type.
LEMMA RelinkType ==
  ASSUME TypeOK, NEW chain \in {"relinkTerminal", "relinkSync"}, NEW m, IsDictionary(m),
         NEW tip, RelinkOne(chain, m, tip)
  PROVE  TypeOK'
<1>1. CASE /\ calls # <<>> /\ calls' = Tail(calls)
           /\ UNCHANGED <<syncPhase, mTerminalBlocks, mSyncBlocks, lastTerminalBlock, lastSyncBlock,
                          staleTip, mOrphans, lastChainLockHeight, bestEstimatedBlockHeight,
                          blockHeight>>
  <2>1. calls' \in Seq(Calls)
    BY <1>1, CallsType
  <2>2. QED
    BY <1>1, <2>1 DEF TypeOK, IsDictionary
<1>2. ASSUME NEW c \in (Blocks \ {Genesis}) \cap DOMAIN m, NEW fork \in SUBSET Blocks,
             NEW added \in SUBSET Blocks, calls # <<>>, m[c] \in Objects,
             AddBlock(c, m[c], FALSE, <<Relink(chain, fork, added)>> \o Tail(calls))
      PROVE  TypeOK'
  <2>1. Relink(chain, fork, added) \in Calls
    BY DEF Relink, Calls
  <2>2. <<Relink(chain, fork, added)>> \o Tail(calls) \in Seq(Calls)
    BY <1>2, <2>1, CallsType, PushCall
  <2>3. QED
    BY <1>2, <2>2, AddBlockType
<1>3. QED
  BY <1>1, <1>2, RelinkStep

\* The terminal half of addChainLock keeps every type.
LEMMA RelayChainLockType ==
  ASSUME TypeOK, NEW b \in Lockable, NEW verified \in BOOLEAN, RelayChainLock(b, verified)
  PROVE  TypeOK'
<1> DEFINE locked == SetLock(mTerminalBlocks, b, verified)
           fork == DOMAIN locked \ Below(locked, b)
<1>1. b \in Blocks /\ Height[b] \in Nat
  BY LockAssumption, CheckpointAssumption, TreeAssumption
  DEF LockAssumption, CheckpointAssumption, TreeAssumption
<1>2. IsDictionary(locked)
  BY <1>1, SetLockDictionary DEF TypeOK
<1>3. LockSyncCall(b, verified) \in Calls
  BY DEF LockSyncCall, Calls
<1>4. Relink("relinkTerminal", fork, {}) \in Calls
  BY <1>2 DEF Relink, Calls, IsDictionary
<1>5. calls' \in Seq(Calls)
  <2>1. /\ <<LockSyncCall(b, verified)>> \in Seq(Calls)
        /\ <<Relink("relinkTerminal", fork, {}), LockSyncCall(b, verified)>> \in Seq(Calls)
    BY <1>3, <1>4
  <2>2. \/ calls' = <<LockSyncCall(b, verified)>>
        \/ calls' = <<Relink("relinkTerminal", fork, {}), LockSyncCall(b, verified)>>
    BY DEF RelayChainLock
  <2> HIDE DEF fork
  <2>3. QED
    BY <2>1, <2>2
<1>6. lastChainLockHeight' \in Nat
  BY <1>1 DEF RelayChainLock, TypeOK
<1>7. lastTerminalBlock' \in Blocks /\ staleTip' \in {"inMap", "locked", "unlocked"}
  BY <1>1 DEF RelayChainLock, TypeOK
<1>8. QED
  BY <1>2, <1>5, <1>6, <1>7 DEF RelayChainLock, TypeOK, IsDictionary

\* The sync half of addChainLock keeps every type.
LEMMA LockSyncType ==
  ASSUME TypeOK, LockSync
  PROVE  TypeOK'
<1> DEFINE b == Head(calls).block
           verified == Head(calls).verified
           locked == SetLock(mSyncBlocks, b, verified)
           fork == DOMAIN locked \ Below(locked, b)
           branch == {b} \cup Below(locked, b)
<1>1. calls # <<>> /\ Head(calls).call = "lockSync"
  BY DEF LockSync
<1>2. b \in Lockable /\ verified \in BOOLEAN /\ Tail(calls) \in Seq(Calls)
  BY <1>1, CallsType, LockSyncCallType
<1>3. b \in Blocks
  BY <1>2, LockAssumption DEF LockAssumption
<1>4. IsDictionary(locked)
  BY <1>2, <1>3, SetLockDictionary DEF TypeOK
<1>5. CASE UNCHANGED <<lastSyncBlock, blockHeight>> /\ calls' = Tail(calls)
  BY <1>2, <1>4, <1>5 DEF LockSync, TypeOK, IsDictionary
<1>6. CASE /\ lastSyncBlock' = b
           /\ \E join, visited : blockHeight' = ReorgHeights(locked, branch, join, visited)
           /\ calls' = <<Relink("relinkSync", fork, {})>> \o Tail(calls)
  <2>1. branch \in SUBSET Blocks
    BY <1>3, <1>4, BelowBlocks
  <2>2. blockHeight' \in [Txs -> Nat]
    BY <1>6, <2>1, ReorgHeightsType
  <2>3. Relink("relinkSync", fork, {}) \in Calls
    BY <1>4 DEF Relink, Calls, IsDictionary
  <2>4. calls' \in Seq(Calls)
    BY <1>2, <1>6, <2>3, PushCall
  <2>5. QED
    BY <1>3, <1>4, <1>6, <2>2, <2>4 DEF LockSync, TypeOK, IsDictionary
<1>7. QED
  BY <1>5, <1>6 DEF LockSync

\* The initial states are typed.
LEMMA InitType == Init => TypeOK
<1> SUFFICES ASSUME Init PROVE TypeOK
  OBVIOUS
<1>1. LastCheckpoint \in Blocks /\ SyncStart \in Blocks
  BY CheckpointAssumption DEF CheckpointAssumption, LastCheckpoint
<1>2. Estimates \subseteq Nat /\ Unconfirmed \in Nat
  BY DataAssumption DEF DataAssumption
<1>3. IsDictionary(mTerminalBlocks) /\ IsDictionary(mSyncBlocks)
  BY CheckpointDictionary DEF Init
<1>4. /\ DOMAIN mOrphans \subseteq Blocks
      /\ mOrphans \in [DOMAIN mOrphans -> [block : Blocks \ {Genesis}, full : BOOLEAN]]
  BY DEF Init
<1>5. calls \in Seq(Calls)
  BY EmptySeq DEF Init
<1>6. QED
  BY <1>1, <1>2, <1>3, <1>4, <1>5 DEF Init, TypeOK, Phases

\* Every step keeps every type.
LEMMA NextType == TypeOK /\ [Next]_vars => TypeOK'
<1> SUFFICES ASSUME TypeOK, [Next]_vars PROVE TypeOK'
  OBVIOUS
<1>1. LastCheckpoint \in Blocks /\ SyncStart \in Blocks /\ Unconfirmed \in Nat /\ Estimates \subseteq Nat
  BY CheckpointAssumption, DataAssumption DEF CheckpointAssumption, DataAssumption, LastCheckpoint
<1>2. ASSUME NEW b \in Blocks, RelayBlock(b)
      PROVE  TypeOK'
  <2>1. Received(syncPhase # "InitialTerminalBlocks") \in Objects
    BY DEF Received, Objects
  <2>2. <<>> \in Seq(Calls) /\ b \in Blocks \ {Genesis}
    BY <1>2, EmptySeq DEF RelayBlock
  <2>3. AddBlock(b, Received(syncPhase # "InitialTerminalBlocks"), TRUE, <<>>)
    BY <1>2 DEF RelayBlock
  <2>4. QED
    BY <2>1, <2>2, <2>3, AddBlockType
<1>3. CASE AddAdoptedOrphan
  <2>1. calls # <<>> /\ Head(calls).call = "addBlock"
    BY <1>3 DEF AddAdoptedOrphan
  <2>2. /\ Head(calls).block \in Blocks \ {Genesis} /\ Head(calls).object \in Objects
        /\ Head(calls).peer \in BOOLEAN /\ Tail(calls) \in Seq(Calls)
    BY <2>1, CallsType, AddCallType
  <2>3. QED
    BY <1>3, <2>2, AddBlockType DEF AddAdoptedOrphan
<1>4. ASSUME NEW b \in Lockable, NEW verified \in BOOLEAN, RelayChainLock(b, verified)
      PROVE  TypeOK'
  BY <1>4, RelayChainLockType
<1>5. ASSUME NEW b \in Lockable, RelayEarlyChainLock(b)
      PROVE  TypeOK'
  <2>1. Height[b] \in Nat
    BY LockAssumption, TreeAssumption DEF LockAssumption, TreeAssumption
  <2>2. QED
    BY <1>5, <2>1 DEF RelayEarlyChainLock, TypeOK, IsDictionary
<1>6. CASE LockSync
  BY <1>6, LockSyncType
<1>7. CASE RelinkTerminal
  BY <1>7, RelinkType DEF RelinkTerminal, TypeOK
<1>8. CASE RelinkSync
  BY <1>8, RelinkType DEF RelinkSync, TypeOK
<1>9. ASSUME NEW phase \in Phases, SetPhase(phase)
      PROVE  TypeOK'
  BY <1>9 DEF SetPhase, TypeOK, IsDictionary
<1>10. CASE \/ \E listsOld \in BOOLEAN : StartSyncingBlockchain(listsOld)
            \/ FinishedSyncingMasternodeLists \/ AlreadySynced \/ StopSync
  BY <1>9, <1>10 DEF StartSyncingBlockchain, FinishedSyncingMasternodeLists, AlreadySynced, StopSync, Phases
<1>11. ASSUME NEW h \in Estimates, ChangeEstimate(h)
       PROVE  TypeOK'
  BY <1>1, <1>11 DEF ChangeEstimate, TypeOK, IsDictionary
<1>12. CASE WipeBlockchain
  <2>1. IsDictionary(mTerminalBlocks') /\ IsDictionary(mSyncBlocks')
    BY <1>12, CheckpointDictionary DEF WipeBlockchain
  <2>2. QED
    BY <1>1, <1>12, <2>1 DEF WipeBlockchain, TypeOK, Phases, IsDictionary
<1>13. CASE WipeBlockchainNonTerminal
  <2>1. IsDictionary(mSyncBlocks')
    BY <1>13, CheckpointDictionary DEF WipeBlockchainNonTerminal
  <2>2. QED
    BY <1>1, <1>13, <2>1 DEF WipeBlockchainNonTerminal, TypeOK, Phases, IsDictionary
<1>14. CASE UNCHANGED vars
  BY <1>14 DEF vars, TypeOK, IsDictionary
<1>15. QED
  BY <1>2, <1>3, <1>4, <1>5, <1>6, <1>7, <1>8, <1>10, <1>11, <1>12, <1>13, <1>14 DEF Next

\* The variables hold what the Objective-C types and dictionaries hold, in every
\* reachable state.
THEOREM TypeCorrect == Spec => []TypeOK
<1>1. QED
  BY InitType, NextType, PTL DEF Spec

-----------------------------------------------------------------------------
(* Checkpoints *)

\* What addBlock may do to the two dictionaries: trim them, and put the block it
\* was called for, if it is valid.
LEMMA AddBlockMaps ==
  ASSUME NEW b, NEW o, NEW peer, NEW rest, AddBlock(b, o, peer, rest)
  PROVE  \/ /\ mTerminalBlocks' \in {mTerminalBlocks, TrimmedTerminal(b)}
            /\ mSyncBlocks' \in {mSyncBlocks, TrimmedSync(b)}
         \/ /\ ~IsInvalid(b)
            /\ mTerminalBlocks' \in {TrimmedTerminal(b), Put(TrimmedTerminal(b), b, o),
                                     Put(TrimmedTerminal(b), b, WithLock(b, o))}
            /\ mSyncBlocks' \in {TrimmedSync(b), Put(TrimmedSync(b), b, WithLock(b, o))}
<1>1. CASE StoreOrphan(b, o, rest)
  BY <1>1 DEF StoreOrphan
<1>2. CASE RejectBlock(b, rest)
  BY <1>2 DEF RejectBlock
<1>3. CASE ~IsInvalid(b) /\ ExtendSyncChain(b, o, peer, rest)
  BY <1>3 DEF ExtendSyncChain
<1>4. CASE ~IsInvalid(b) /\ ExtendTerminalChain(b, o, peer, rest)
  BY <1>4 DEF ExtendTerminalChain
<1>5. CASE ~IsInvalid(b) /\ ReplaceSyncBlock(b, o, peer, rest)
  BY <1>5 DEF ReplaceSyncBlock
<1>6. CASE ~IsInvalid(b) /\ ReplaceTerminalBlock(b, o, peer, rest)
  BY <1>6 DEF ReplaceTerminalBlock
<1>7. CASE ~IsInvalid(b) /\ IgnoreFork(b, rest)
  BY <1>7 DEF IgnoreFork
<1>8. CASE ~IsInvalid(b) /\ TerminalFork(b, o, peer, rest)
  BY <1>8 DEF TerminalFork
<1>9. CASE ~IsInvalid(b) /\ SyncFork(b, o, peer, rest)
  BY <1>9 DEF SyncFork
<1>10. QED
  BY <1>1, <1>2, <1>3, <1>4, <1>5, <1>6, <1>7, <1>8, <1>9 DEF AddBlock

\* A valid block, put in either dictionary, is no rival of a checkpoint: it was
\* compared with the table, or it is in mTerminalBlocks already.
LEMMA AddBlockCheckpoints ==
  ASSUME TypeOK, CheckpointsRespected, NEW b \in Blocks, NEW o \in Objects, NEW peer, NEW rest,
         AddBlock(b, o, peer, rest)
  PROVE  CheckpointsRespected'
<1>1. /\ DOMAIN TrimmedTerminal(b) \subseteq DOMAIN mTerminalBlocks
      /\ DOMAIN TrimmedSync(b) \subseteq DOMAIN mSyncBlocks
  BY TrimmedDictionaries
<1>2. CASE /\ mTerminalBlocks' \in {mTerminalBlocks, TrimmedTerminal(b)}
           /\ mSyncBlocks' \in {mSyncBlocks, TrimmedSync(b)}
  BY <1>1, <1>2 DEF CheckpointsRespected
<1>3. CASE /\ ~IsInvalid(b)
           /\ mTerminalBlocks' \in {TrimmedTerminal(b), Put(TrimmedTerminal(b), b, o),
                                    Put(TrimmedTerminal(b), b, WithLock(b, o))}
           /\ mSyncBlocks' \in {TrimmedSync(b), Put(TrimmedSync(b), b, WithLock(b, o))}
  <2>1. ~DiffersFromCheckpoint(b)
    BY <1>3 DEF IsInvalid, HasEquivalent, CheckpointsRespected
  <2>2. \A m, x : DOMAIN Put(m, b, x) = DOMAIN m \cup {b}
    BY DEF Put
  <2>3. DOMAIN mTerminalBlocks' \cup DOMAIN mSyncBlocks'
          \subseteq DOMAIN mTerminalBlocks \cup DOMAIN mSyncBlocks \cup {b}
    BY <1>1, <1>3, <2>2
  <2>4. QED
    BY <2>1, <2>3 DEF CheckpointsRespected
<1>4. QED
  BY <1>2, <1>3, AddBlockMaps

\* The checkpoints themselves agree with the table: there is one for a height.
LEMMA CheckpointsAgree == \A c \in Checkpoints : ~DiffersFromCheckpoint(c)
BY CheckpointAssumption DEF CheckpointAssumption, DiffersFromCheckpoint

\* No block is kept at the height of a checkpoint but the checkpoint, in every
\* reachable state.
THEOREM CheckpointsKept == Spec => []CheckpointsRespected
<1>1. Init => CheckpointsRespected
  BY CheckpointDictionary, CheckpointsAgree DEF Init, CheckpointsRespected
<1>2. TypeOK /\ CheckpointsRespected /\ [Next]_vars => CheckpointsRespected'
  <2> SUFFICES ASSUME TypeOK, CheckpointsRespected, [Next]_vars
               PROVE  CheckpointsRespected'
    OBVIOUS
  <2>1. ASSUME NEW b \in Blocks, RelayBlock(b)
        PROVE  CheckpointsRespected'
    <3>1. Received(syncPhase # "InitialTerminalBlocks") \in Objects
      BY DEF Received, Objects
    <3>2. QED
      BY <2>1, <3>1, AddBlockCheckpoints DEF RelayBlock
  <2>2. CASE AddAdoptedOrphan
    <3>1. calls # <<>> /\ Head(calls).call = "addBlock"
      BY <2>2 DEF AddAdoptedOrphan
    <3>2. Head(calls).block \in Blocks /\ Head(calls).object \in Objects
      BY <3>1, CallsType, AddCallType
    <3>3. QED
      BY <2>2, <3>2, AddBlockCheckpoints DEF AddAdoptedOrphan
  <2>3. ASSUME NEW b \in Lockable, NEW verified \in BOOLEAN, RelayChainLock(b, verified)
        PROVE  CheckpointsRespected'
    <3>1. DOMAIN mTerminalBlocks' = DOMAIN mTerminalBlocks /\ mSyncBlocks' = mSyncBlocks
      BY <2>3, SetLockDictionary, LockAssumption DEF RelayChainLock, LockAssumption, TypeOK
    <3>2. QED
      BY <3>1 DEF CheckpointsRespected
  <2>4. CASE LockSync
    <3>1. Head(calls).block \in Blocks /\ Head(calls).verified \in BOOLEAN
      BY <2>4, CallsType, LockSyncCallType, LockAssumption DEF LockSync, LockAssumption
    <3>2. DOMAIN mSyncBlocks' = DOMAIN mSyncBlocks /\ mTerminalBlocks' = mTerminalBlocks
      BY <2>4, <3>1, SetLockDictionary DEF LockSync, TypeOK
    <3>3. QED
      BY <3>2 DEF CheckpointsRespected
  <2>5. ASSUME NEW chain \in {"relinkTerminal", "relinkSync"}, NEW m, IsDictionary(m), NEW tip,
               RelinkOne(chain, m, tip)
        PROVE  CheckpointsRespected'
    <3>1. CASE UNCHANGED <<mTerminalBlocks, mSyncBlocks>>
      BY <3>1 DEF CheckpointsRespected
    <3>2. ASSUME NEW c \in Blocks, m[c] \in Objects, NEW rest, AddBlock(c, m[c], FALSE, rest)
          PROVE  CheckpointsRespected'
      BY <3>2, AddBlockCheckpoints
    <3>3. QED
      BY <2>5, <3>1, <3>2, RelinkStep
  <2>6. CASE RelinkTerminal \/ RelinkSync
    BY <2>5, <2>6 DEF RelinkTerminal, RelinkSync, TypeOK
  <2>7. CASE UNCHANGED <<mTerminalBlocks, mSyncBlocks>>
    BY <2>7 DEF CheckpointsRespected
  <2>8. CASE WipeBlockchain \/ WipeBlockchainNonTerminal
    BY <2>8, CheckpointDictionary, CheckpointsAgree
    DEF WipeBlockchain, WipeBlockchainNonTerminal, CheckpointsRespected
  <2>9. QED
    BY <2>1, <2>2, <2>3, <2>4, <2>6, <2>7, <2>8
    DEF Next, RelayEarlyChainLock, StartSyncingBlockchain, FinishedSyncingMasternodeLists,
        AlreadySynced, StopSync, SetPhase, ChangeEstimate, vars
<1>3. QED
  BY <1>1, <1>2, TypeCorrect, PTL DEF Spec

-----------------------------------------------------------------------------
(* Chain locks *)

\* The calls that are covered by lastChainLock: an orphan's object is not locked,
\* and the sync half of addChainLock marks nothing above lastChainLock.
CoveredCalls ==
  {c \in Calls :
     /\ c.call = "addBlock" => ~c.object.chainLocked
     /\ c.call = "lockSync" /\ c.verified => Height[c.block] <= lastChainLockHeight}

\* LocksCovered made inductive: a lock also lives in the calls that wait.
LocksInv == LocksCovered /\ calls \in Seq(CoveredCalls)

\* addBlock marks no block but by the lock of the object it is given or of the
\* block's own terminal object.
LEMMA AddBlockLocks ==
  ASSUME TypeOK, LocksCovered, NEW b \in Blocks, NEW o \in Objects, NEW peer, NEW rest,
         o.chainLocked => Height[b] <= lastChainLockHeight, AddBlock(b, o, peer, rest)
  PROVE  LocksCovered'
<1>1. lastChainLockHeight' = lastChainLockHeight
  BY DEF AddBlock
<1>2. Locked(TrimmedTerminal(b)) \subseteq Locked(mTerminalBlocks)
  BY TrimmedDictionaries, TrimmedObjects DEF Locked
<1>3. Locked(TrimmedSync(b)) \subseteq Locked(mSyncBlocks)
  BY TrimmedDictionaries, TrimmedObjects DEF Locked
<1>4. WithLock(b, o).chainLocked => Height[b] <= lastChainLockHeight
  BY DEF WithLock, HasEquivalent, LocksCovered, Locked
<1>5. ASSUME NEW m, NEW x, x.chainLocked => Height[b] <= lastChainLockHeight,
             \A y \in Locked(m) : Height[y] <= lastChainLockHeight
      PROVE  \A y \in Locked(Put(m, b, x)) : Height[y] <= lastChainLockHeight
  BY <1>5 DEF Locked, Put
<1>6. \A y \in Locked(mTerminalBlocks') : Height[y] <= lastChainLockHeight
  <2>1. mTerminalBlocks' \in {mTerminalBlocks, TrimmedTerminal(b), Put(TrimmedTerminal(b), b, o),
                              Put(TrimmedTerminal(b), b, WithLock(b, o))}
    BY AddBlockMaps
  <2>2. \A y \in Locked(TrimmedTerminal(b)) : Height[y] <= lastChainLockHeight
    BY <1>2 DEF LocksCovered
  <2>3. /\ \A y \in Locked(Put(TrimmedTerminal(b), b, o)) : Height[y] <= lastChainLockHeight
        /\ \A y \in Locked(Put(TrimmedTerminal(b), b, WithLock(b, o))) :
             Height[y] <= lastChainLockHeight
    BY <1>4, <1>5, <2>2
  <2>4. QED
    BY <2>1, <2>2, <2>3 DEF LocksCovered
<1>7. \A y \in Locked(mSyncBlocks') : Height[y] <= lastChainLockHeight
  <2>1. mSyncBlocks' \in {mSyncBlocks, TrimmedSync(b), Put(TrimmedSync(b), b, WithLock(b, o))}
    BY AddBlockMaps
  <2>2. \A y \in Locked(TrimmedSync(b)) : Height[y] <= lastChainLockHeight
    BY <1>3 DEF LocksCovered
  <2>3. \A y \in Locked(Put(TrimmedSync(b), b, WithLock(b, o))) : Height[y] <= lastChainLockHeight
    BY <1>4, <1>5, <2>2
  <2>4. QED
    BY <2>1, <2>2, <2>3 DEF LocksCovered
<1>8. QED
  BY <1>1, <1>6, <1>7 DEF LocksCovered

\* The call for an orphan is covered: the object of an orphan is not locked.
LEMMA AddBlockCalls ==
  ASSUME TypeOK, NEW b \in Blocks, NEW o, NEW peer \in BOOLEAN, NEW rest \in Seq(CoveredCalls),
         AddBlock(b, o, peer, rest)
  PROVE  calls' \in Seq(CoveredCalls)
<1>1. \/ calls' = rest
      \/ \E syncDone, becameTip : Finish(b, peer, rest, syncDone, becameTip)
  BY DEF AddBlock, StoreOrphan, RejectBlock, IgnoreFork, TerminalFork, SyncFork, ReturnEarly,
         ExtendSyncChain, ExtendTerminalChain, ReplaceSyncBlock, ReplaceTerminalBlock
<1>2. ASSUME NEW syncDone, NEW becameTip, Finish(b, peer, rest, syncDone, becameTip)
      PROVE  calls' \in Seq(CoveredCalls)
  <2>1. CASE Adopts(b, becameTip)
    <3> DEFINE call == AddCall(mOrphans[b].block, Received(mOrphans[b].full), peer)
    <3>1. mOrphans[b] \in [block : Blocks \ {Genesis}, full : BOOLEAN]
      BY <2>1 DEF Adopts, TypeOK
    <3>2. call \in CoveredCalls
      BY <3>1 DEF AddCall, Received, Objects, Calls, CoveredCalls
    <3>3. calls' = <<call>> \o rest
      BY <1>2, <2>1 DEF Finish
    <3> HIDE DEF call
    <3>4. QED
      BY <3>2, <3>3, PushCall
  <2>2. CASE ~Adopts(b, becameTip)
    BY <1>2, <2>2 DEF Finish
  <2>3. QED
    BY <2>1, <2>2
<1>3. QED
  BY <1>1, <1>2

\* addBlock keeps the locks covered, those of the calls that wait included.
LEMMA AddBlockLocksInv ==
  ASSUME TypeOK, LocksInv, NEW b \in Blocks, NEW o \in Objects, NEW peer \in BOOLEAN,
         NEW rest \in Seq(CoveredCalls), o.chainLocked => Height[b] <= lastChainLockHeight,
         AddBlock(b, o, peer, rest)
  PROVE  LocksInv'
<1>1. LocksCovered'
  BY AddBlockLocks DEF LocksInv
<1>2. CoveredCalls' = CoveredCalls
  BY DEF AddBlock, CoveredCalls
<1>3. QED
  BY <1>1, <1>2, AddBlockCalls DEF LocksInv

\* The call that runs is covered, and so are those that wait.
LEMMA CoveredCallsNext ==
  ASSUME LocksInv, calls # <<>>
  PROVE  Head(calls) \in CoveredCalls /\ Tail(calls) \in Seq(CoveredCalls)
BY HeadTailProperties DEF LocksInv

\* Setting a lock that is covered leaves the locks of a dictionary covered.
LEMMA SetLockCovered ==
  ASSUME NEW m, IsDictionary(m), NEW b \in Blocks, NEW verified \in BOOLEAN, NEW h,
         verified => Height[b] <= h, \A y \in Locked(m) : Height[y] <= h
  PROVE  \A y \in Locked(SetLock(m, b, verified)) : Height[y] <= h
<1> SUFFICES ASSUME NEW y \in Locked(SetLock(m, b, verified))
             PROVE  Height[y] <= h
  OBVIOUS
<1>1. y \in DOMAIN m /\ SetLock(m, b, verified)[y].chainLocked
  BY SetLockDictionary DEF Locked
<1>2. CASE y = b
  <2>1. SetLock(m, b, verified)[y].chainLocked = verified
    BY <1>1, <1>2 DEF SetLock, IsDictionary, Objects
  <2>2. QED
    BY <1>1, <1>2, <2>1
<1>3. CASE y # b
  BY <1>1, <1>3 DEF SetLock, Locked
<1>4. QED
  BY <1>2, <1>3

\* The terminal half of addChainLock raises lastChainLock to what it marks.
LEMMA RelayChainLockLocks ==
  ASSUME TypeOK, LocksInv, NEW b \in Lockable, NEW verified \in BOOLEAN,
         RelayChainLock(b, verified)
  PROVE  LocksInv'
<1>1. b \in Blocks /\ Height[b] \in Nat
  BY LockAssumption, TreeAssumption DEF LockAssumption, TreeAssumption
<1>2. /\ lastChainLockHeight \in Nat /\ lastChainLockHeight' >= lastChainLockHeight
      /\ lastChainLockHeight' \in Nat
      /\ verified => Height[b] <= lastChainLockHeight'
  BY <1>1 DEF RelayChainLock, TypeOK
<1>3. \A y \in Blocks : Height[y] <= lastChainLockHeight => Height[y] <= lastChainLockHeight'
  BY <1>2, TreeAssumption DEF TreeAssumption
<1>4. \A y \in Locked(mTerminalBlocks) \cup Locked(mSyncBlocks) : Height[y] <= lastChainLockHeight'
  BY <1>3 DEF LocksInv, LocksCovered, Locked, TypeOK, IsDictionary
<1>5. \A y \in Locked(mTerminalBlocks') : Height[y] <= lastChainLockHeight'
  <2>1. mTerminalBlocks' = SetLock(mTerminalBlocks, b, verified)
    BY DEF RelayChainLock
  <2>2. \A y \in Locked(SetLock(mTerminalBlocks, b, verified)) : Height[y] <= lastChainLockHeight'
    BY <1>1, <1>2, <1>4, SetLockCovered DEF TypeOK
  <2>3. QED
    BY <2>1, <2>2
<1>6. LocksCovered'
  BY <1>4, <1>5 DEF LocksCovered, RelayChainLock, Locked
<1>7. calls' \in Seq(CoveredCalls')
  <2> DEFINE fork == DOMAIN SetLock(mTerminalBlocks, b, verified)
                       \ Below(SetLock(mTerminalBlocks, b, verified), b)
  <2>1. fork \in SUBSET Blocks
    BY <1>1, SetLockDictionary DEF TypeOK, IsDictionary
  <2>2. LockSyncCall(b, verified) \in CoveredCalls'
    BY <1>2 DEF LockSyncCall, Calls, CoveredCalls
  <2>3. Relink("relinkTerminal", fork, {}) \in CoveredCalls'
    BY <2>1 DEF Relink, Calls, CoveredCalls
  <2>4. \/ calls' = <<LockSyncCall(b, verified)>>
        \/ calls' = <<Relink("relinkTerminal", fork, {}), LockSyncCall(b, verified)>>
    BY DEF RelayChainLock
  <2>5. ASSUME NEW S, NEW c \in S, NEW d \in S
        PROVE  <<c>> \in Seq(S) /\ <<d, c>> \in Seq(S)
    OBVIOUS
  <2>6. /\ <<LockSyncCall(b, verified)>> \in Seq(CoveredCalls')
        /\ <<Relink("relinkTerminal", fork, {}), LockSyncCall(b, verified)>> \in Seq(CoveredCalls')
    BY <2>2, <2>3, <2>5
  <2> HIDE DEF fork
  <2>7. QED
    BY <2>4, <2>6
<1>8. QED
  BY <1>6, <1>7 DEF LocksInv

\* The sync half marks what the terminal half has covered.
LEMMA LockSyncLocks ==
  ASSUME TypeOK, LocksInv, LockSync
  PROVE  LocksInv'
<1> DEFINE b == Head(calls).block
           verified == Head(calls).verified
           locked == SetLock(mSyncBlocks, b, verified)
           fork == DOMAIN locked \ Below(locked, b)
<1>1. calls # <<>> /\ Head(calls).call = "lockSync"
  BY DEF LockSync
<1>2. b \in Blocks /\ verified \in BOOLEAN
  BY <1>1, CallsType, LockSyncCallType, LockAssumption DEF LockAssumption
<1>3. verified => Height[b] <= lastChainLockHeight
  BY <1>1, CoveredCallsNext DEF CoveredCalls
<1>4. /\ mSyncBlocks' = locked
      /\ UNCHANGED <<mTerminalBlocks, lastChainLockHeight>>
  BY DEF LockSync
<1>5. \A y \in Locked(locked) : Height[y] <= lastChainLockHeight
  BY <1>2, <1>3, SetLockCovered DEF LocksInv, LocksCovered, TypeOK
<1>6. LocksCovered'
  BY <1>4, <1>5 DEF LocksCovered, LocksInv, Locked
<1>7. CoveredCalls' = CoveredCalls
  BY <1>4 DEF CoveredCalls
<1>8. calls' \in Seq(CoveredCalls)
  <2>1. Tail(calls) \in Seq(CoveredCalls)
    BY <1>1, CoveredCallsNext
  <2>2. fork \in SUBSET Blocks
    BY <1>2, SetLockDictionary DEF TypeOK, IsDictionary
  <2>3. Relink("relinkSync", fork, {}) \in CoveredCalls
    BY <2>2 DEF Relink, Calls, CoveredCalls
  <2>4. <<Relink("relinkSync", fork, {})>> \o Tail(calls) \in Seq(CoveredCalls)
    BY <2>1, <2>3, PushCall
  <2>5. calls' \in {Tail(calls), <<Relink("relinkSync", fork, {})>> \o Tail(calls)}
    BY DEF LockSync
  <2> HIDE DEF fork
  <2>6. QED
    BY <2>1, <2>4, <2>5
<1>9. QED
  BY <1>6, <1>7, <1>8 DEF LocksInv

\* A relinked block keeps the lock it has, which is covered.
LEMMA RelinkLocks ==
  ASSUME TypeOK, LocksInv, NEW chain \in {"relinkTerminal", "relinkSync"},
         NEW m \in {mTerminalBlocks, mSyncBlocks}, NEW tip, RelinkOne(chain, m, tip)
  PROVE  LocksInv'
<1>1. IsDictionary(m)
  BY DEF TypeOK
<1>2. CASE /\ calls # <<>> /\ calls' = Tail(calls)
           /\ UNCHANGED <<mTerminalBlocks, mSyncBlocks, lastChainLockHeight>>
  <2>1. CoveredCalls' = CoveredCalls
    BY <1>2 DEF CoveredCalls
  <2>2. QED
    BY <1>2, <2>1, CoveredCallsNext DEF LocksInv, LocksCovered, Locked
<1>3. ASSUME NEW c \in (Blocks \ {Genesis}) \cap DOMAIN m, NEW fork \in SUBSET Blocks,
             NEW added \in SUBSET Blocks, calls # <<>>, m[c] \in Objects,
             AddBlock(c, m[c], FALSE, <<Relink(chain, fork, added)>> \o Tail(calls))
      PROVE  LocksInv'
  <2>1. Relink(chain, fork, added) \in CoveredCalls
    BY DEF Relink, Calls, CoveredCalls
  <2>2. <<Relink(chain, fork, added)>> \o Tail(calls) \in Seq(CoveredCalls)
    BY <1>3, <2>1, CoveredCallsNext, PushCall
  <2>3. m[c].chainLocked => Height[c] <= lastChainLockHeight
    BY DEF LocksInv, LocksCovered, Locked
  <2>4. QED
    BY <1>3, <2>2, <2>3, AddBlockLocksInv
<1>4. QED
  BY <1>1, <1>2, <1>3, RelinkStep

\* The strengthened invariant holds in every reachable state.
LEMMA LocksInvariant == Spec => []LocksInv
<1>1. Init => LocksInv
  <2> SUFFICES ASSUME Init PROVE LocksInv
    OBVIOUS
  <2>1. \A c \in Checkpoints : ~CheckpointBlocks[c].chainLocked
    BY DEF CheckpointBlocks, CheckpointObject
  <2>2. QED
    BY <2>1, CheckpointDictionary, EmptySeq DEF Init, LocksInv, LocksCovered, Locked
<1>2. TypeOK /\ LocksInv /\ [Next]_vars => LocksInv'
  <2> SUFFICES ASSUME TypeOK, LocksInv, [Next]_vars PROVE LocksInv'
    OBVIOUS
  <2>1. ASSUME NEW b \in Blocks, RelayBlock(b)
        PROVE  LocksInv'
    <3> DEFINE o == Received(syncPhase # "InitialTerminalBlocks")
    <3>1. o \in Objects /\ ~o.chainLocked
      BY DEF Received, Objects
    <3>2. <<>> \in Seq(CoveredCalls) /\ AddBlock(b, o, TRUE, <<>>)
      BY <2>1, EmptySeq DEF RelayBlock
    <3> HIDE DEF o
    <3>3. QED
      BY <3>1, <3>2, AddBlockLocksInv
  <2>2. CASE AddAdoptedOrphan
    <3>1. calls # <<>> /\ Head(calls).call = "addBlock"
      BY <2>2 DEF AddAdoptedOrphan
    <3>2. /\ Head(calls).block \in Blocks /\ Head(calls).object \in Objects
          /\ Head(calls).peer \in BOOLEAN
      BY <3>1, CallsType, AddCallType
    <3>3. ~Head(calls).object.chainLocked /\ Tail(calls) \in Seq(CoveredCalls)
      BY <3>1, CoveredCallsNext DEF CoveredCalls
    <3>4. QED
      BY <2>2, <3>2, <3>3, AddBlockLocksInv DEF AddAdoptedOrphan
  <2>3. ASSUME NEW b \in Lockable, NEW verified \in BOOLEAN, RelayChainLock(b, verified)
        PROVE  LocksInv'
    BY <2>3, RelayChainLockLocks
  <2>4. ASSUME NEW b \in Lockable, RelayEarlyChainLock(b)
        PROVE  LocksInv'
    <3>1. /\ calls = <<>> /\ calls' = <<>>
          /\ UNCHANGED <<mTerminalBlocks, mSyncBlocks>>
          /\ lastChainLockHeight' > lastChainLockHeight /\ lastChainLockHeight' \in Nat
      BY <2>4, LockAssumption, TreeAssumption
      DEF RelayEarlyChainLock, TypeOK, LockAssumption, TreeAssumption
    <3>2. \A y \in Blocks : Height[y] <= lastChainLockHeight => Height[y] <= lastChainLockHeight'
      BY <3>1, TreeAssumption DEF TreeAssumption, TypeOK
    <3>3. LocksCovered'
      BY <3>1, <3>2 DEF LocksInv, LocksCovered, Locked, TypeOK, IsDictionary
    <3>4. QED
      BY <3>1, <3>3, EmptySeq DEF LocksInv
  <2>5. CASE LockSync
    BY <2>5, LockSyncLocks
  <2>6. CASE RelinkTerminal \/ RelinkSync
    BY <2>6, RelinkLocks DEF RelinkTerminal, RelinkSync
  <2>7. CASE UNCHANGED <<mTerminalBlocks, mSyncBlocks, lastChainLockHeight, calls>>
    BY <2>7 DEF LocksInv, LocksCovered, Locked, CoveredCalls
  <2>8. CASE WipeBlockchain \/ WipeBlockchainNonTerminal
    <3>1. \A c \in Checkpoints : ~CheckpointBlocks[c].chainLocked
      BY DEF CheckpointBlocks, CheckpointObject
    <3>2. UNCHANGED <<lastChainLockHeight, calls>>
      BY <2>8 DEF WipeBlockchain, WipeBlockchainNonTerminal
    <3>3. LocksCovered'
      BY <2>8, <3>1, <3>2, CheckpointDictionary
      DEF WipeBlockchain, WipeBlockchainNonTerminal, LocksInv, LocksCovered, Locked
    <3>4. QED
      BY <3>2, <3>3 DEF LocksInv, CoveredCalls
  <2>9. QED
    BY <2>1, <2>2, <2>3, <2>4, <2>5, <2>6, <2>7, <2>8
    DEF Next, StartSyncingBlockchain, FinishedSyncingMasternodeLists, AlreadySynced, StopSync, SetPhase,
        ChangeEstimate, vars
<1>3. QED
  BY <1>1, <1>2, TypeCorrect, PTL DEF Spec

\* No block marked as chain locked is above lastChainLock, in every reachable
\* state: the height that addBlock compares a fork with covers every lock.
THEOREM LocksAreCovered == Spec => []LocksCovered
<1>1. LocksInv => LocksCovered
  BY DEF LocksInv
<1>2. QED
  BY <1>1, LocksInvariant, PTL

-----------------------------------------------------------------------------
(* Work *)

\* addBlock gives up a tip only for the block it was called for, which has more work.
LEMMA AddBlockTips ==
  ASSUME TypeOK, NEW b \in Blocks \ {Genesis}, NEW o, NEW peer, NEW rest,
         AddBlock(b, o, peer, rest)
  PROVE  /\ \/ lastTerminalBlock' = lastTerminalBlock
            \/ lastTerminalBlock' = b /\ Work[b] > Work[lastTerminalBlock]
         /\ \/ lastSyncBlock' = lastSyncBlock
            \/ lastSyncBlock' = b /\ Work[b] > Work[lastSyncBlock]
<1>1. Work[b] > Work[Parent[b]]
  BY TreeAssumption DEF TreeAssumption
<1>2. CASE StoreOrphan(b, o, rest) \/ RejectBlock(b, rest) \/ IgnoreFork(b, rest)
  BY <1>2 DEF StoreOrphan, RejectBlock, IgnoreFork
<1>3. CASE ExtendSyncChain(b, o, peer, rest)
  BY <1>1, <1>3 DEF ExtendSyncChain, ExtendsSync
<1>4. CASE ExtendTerminalChain(b, o, peer, rest)
  BY <1>1, <1>4 DEF ExtendTerminalChain, ExtendsTerminal
<1>5. CASE ReplaceSyncBlock(b, o, peer, rest) \/ ReplaceTerminalBlock(b, o, peer, rest)
  BY <1>5 DEF ReplaceSyncBlock, ReplaceTerminalBlock
<1>6. CASE TerminalFork(b, o, peer, rest)
  BY <1>6 DEF TerminalFork, ReorgsTerminal
<1>7. CASE SyncFork(b, o, peer, rest)
  BY <1>7 DEF SyncFork, ReorgsSync, ReorgsTerminal
<1>8. QED
  BY <1>2, <1>3, <1>4, <1>5, <1>6, <1>7 DEF AddBlock

\* While nothing is locked addBlock leaves the sync tip with the most work.
LEMMA AddBlockMostWork ==
  ASSUME TypeOK, LocksInv, SyncTipHasMostWork, NEW b \in Blocks \ {Genesis}, NEW o \in Objects,
         NEW peer \in BOOLEAN, NEW rest \in Seq(CoveredCalls),
         o.chainLocked => Height[b] <= lastChainLockHeight, AddBlock(b, o, peer, rest)
  PROVE  SyncTipHasMostWork'
<1> SUFFICES ASSUME lastChainLockHeight' = 0, NEW x \in DOMAIN mSyncBlocks' \ Checkpoints
             PROVE  Work[x] <= Work[lastSyncBlock']
  BY DEF SyncTipHasMostWork
<1>1. lastChainLockHeight = 0
  BY DEF AddBlock
<1>2. rest \in Seq(Calls)
  BY SeqMonotonic DEF CoveredCalls
<1>3. TypeOK' /\ LocksInv'
  BY <1>2, AddBlockType, AddBlockLocksInv
<1>4. /\ lastSyncBlock \in Blocks /\ lastSyncBlock' \in Blocks /\ x \in Blocks
      /\ Work \in [Blocks -> Nat]
  BY <1>3, TreeAssumption DEF TreeAssumption, TypeOK, IsDictionary
<1>5. x \in DOMAIN mSyncBlocks => Work[x] <= Work[lastSyncBlock]
  BY <1>1 DEF SyncTipHasMostWork
<1>6. Work[lastSyncBlock] <= Work[lastSyncBlock']
  BY <1>4, AddBlockTips
<1>7. x \in DOMAIN mSyncBlocks => Work[x] <= Work[lastSyncBlock']
  BY <1>4, <1>5, <1>6
<1>8. x \in DOMAIN mSyncBlocks \cup {b}
  <2>1. mSyncBlocks' \in {mSyncBlocks, TrimmedSync(b), Put(TrimmedSync(b), b, WithLock(b, o))}
    BY AddBlockMaps
  <2>2. DOMAIN TrimmedSync(b) \subseteq DOMAIN mSyncBlocks
    BY TrimmedDictionaries
  <2>3. DOMAIN Put(TrimmedSync(b), b, WithLock(b, o)) = DOMAIN TrimmedSync(b) \cup {b}
    BY DEF Put
  <2>4. QED
    BY <2>1, <2>2, <2>3
<1>9. Locked(mSyncBlocks') = {}
  <2>1. \A y \in Locked(mSyncBlocks') : y \in Blocks /\ Height[y] <= 0
    BY <1>3 DEF LocksInv, LocksCovered, Locked, TypeOK, IsDictionary
  <2>2. \A y \in Blocks : Height[y] \in Nat \ {0}
    BY TreeAssumption DEF TreeAssumption
  <2>3. QED
    BY <2>1, <2>2
<1>10. ASSUME x = b, b \notin DOMAIN mSyncBlocks
       PROVE  Work[b] <= Work[lastSyncBlock']
  <2>1. b \notin DOMAIN TrimmedSync(b)
    BY <1>10, TrimmedDictionaries
  <2>2. \/ ExtendSyncChain(b, o, peer, rest) \/ ReplaceSyncBlock(b, o, peer, rest)
        \/ SyncFork(b, o, peer, rest)
    BY <1>10, <2>1 DEF AddBlock, StoreOrphan, RejectBlock, ExtendTerminalChain,
                       ReplaceTerminalBlock, IgnoreFork, TerminalFork
  <2>3. CASE ExtendSyncChain(b, o, peer, rest)
    BY <1>4, <2>3 DEF ExtendSyncChain
  <2>4. CASE ReplaceSyncBlock(b, o, peer, rest)
    BY <1>10, <2>4 DEF ReplaceSyncBlock, KnownSync
  <2>5. CASE SyncFork(b, o, peer, rest)
    <3>1. CASE ReorgsSync(mSyncBlocks', b)
      BY <1>4, <2>5, <3>1 DEF SyncFork
    <3>2. CASE ~ReorgsSync(mSyncBlocks', b)
      <4>1. ~(Work[b] > Work[lastSyncBlock])
        BY <1>9, <3>2 DEF ReorgsSync, LockedOut
      <4>2. QED
        BY <1>4, <1>6, <4>1
    <3>3. QED
      BY <3>1, <3>2
  <2>6. QED
    BY <2>2, <2>3, <2>4, <2>5
<1>11. QED
  BY <1>7, <1>8, <1>10

\* Until a chain lock is verified the sync tip has the most work of all that was
\* synced, in every reachable state.
THEOREM MostWork == Spec => []SyncTipHasMostWork
<1>1. Init => SyncTipHasMostWork
  BY CheckpointDictionary DEF Init, SyncTipHasMostWork
<1>2. TypeOK /\ LocksInv /\ SyncTipHasMostWork /\ [Next]_vars => SyncTipHasMostWork'
  <2> SUFFICES ASSUME TypeOK, LocksInv, SyncTipHasMostWork, [Next]_vars
               PROVE  SyncTipHasMostWork'
    OBVIOUS
  <2>1. ASSUME NEW b \in Blocks, RelayBlock(b)
        PROVE  SyncTipHasMostWork'
    <3> DEFINE o == Received(syncPhase # "InitialTerminalBlocks")
    <3>1. o \in Objects /\ ~o.chainLocked
      BY DEF Received, Objects
    <3>2. /\ b \in Blocks \ {Genesis} /\ <<>> \in Seq(CoveredCalls)
          /\ AddBlock(b, o, TRUE, <<>>)
      BY <2>1, EmptySeq DEF RelayBlock
    <3> HIDE DEF o
    <3>3. QED
      BY <3>1, <3>2, AddBlockMostWork
  <2>2. CASE AddAdoptedOrphan
    <3>1. calls # <<>> /\ Head(calls).call = "addBlock"
      BY <2>2 DEF AddAdoptedOrphan
    <3>2. /\ Head(calls).block \in Blocks \ {Genesis} /\ Head(calls).object \in Objects
          /\ Head(calls).peer \in BOOLEAN
      BY <3>1, CallsType, AddCallType
    <3>3. ~Head(calls).object.chainLocked /\ Tail(calls) \in Seq(CoveredCalls)
      BY <3>1, CoveredCallsNext DEF CoveredCalls
    <3>4. QED
      BY <2>2, <3>2, <3>3, AddBlockMostWork DEF AddAdoptedOrphan
  <2>3. ASSUME NEW b \in Lockable, NEW verified \in BOOLEAN, RelayChainLock(b, verified)
        PROVE  SyncTipHasMostWork'
    <3>1. UNCHANGED <<mSyncBlocks, lastSyncBlock>>
      BY <2>3 DEF RelayChainLock
    <3>2. lastChainLockHeight' = 0 => lastChainLockHeight = 0
      <4>1. Height[b] \in Nat \ {0} /\ lastChainLockHeight \in Nat
        BY LockAssumption, TreeAssumption DEF LockAssumption, TreeAssumption, TypeOK
      <4>2. QED
        BY <2>3, <4>1 DEF RelayChainLock
    <3>3. QED
      BY <3>1, <3>2 DEF SyncTipHasMostWork
  <2>4. ASSUME NEW b \in Lockable, RelayEarlyChainLock(b)
        PROVE  SyncTipHasMostWork'
    <3>1. lastChainLockHeight' # 0
      BY <2>4, LockAssumption, TreeAssumption
      DEF RelayEarlyChainLock, LockAssumption, TreeAssumption
    <3>2. QED
      BY <3>1 DEF SyncTipHasMostWork
  <2>5. CASE LockSync
    <3> DEFINE b == Head(calls).block
    <3>1. calls # <<>> /\ Head(calls).call = "lockSync"
      BY <2>5 DEF LockSync
    <3>2. /\ b \in Blocks /\ Head(calls).verified \in BOOLEAN
          /\ Head(calls).verified => Height[b] <= lastChainLockHeight
      BY <3>1, CallsType, LockSyncCallType, CoveredCallsNext, LockAssumption
      DEF LockAssumption, CoveredCalls
    <3>3. Height[b] \in Nat \ {0}
      BY <3>2, TreeAssumption DEF TreeAssumption
    <3>4. /\ UNCHANGED lastChainLockHeight
          /\ DOMAIN mSyncBlocks' = DOMAIN mSyncBlocks
      BY <2>5, <3>2, SetLockDictionary DEF LockSync, TypeOK
    <3>5. lastChainLockHeight = 0 => UNCHANGED lastSyncBlock
      BY <2>5, <3>2, <3>3 DEF LockSync
    <3>6. QED
      BY <3>4, <3>5 DEF SyncTipHasMostWork
  <2>6. ASSUME NEW chain \in {"relinkTerminal", "relinkSync"},
               NEW m \in {mTerminalBlocks, mSyncBlocks}, NEW tip, RelinkOne(chain, m, tip)
        PROVE  SyncTipHasMostWork'
    <3>1. CASE UNCHANGED <<mSyncBlocks, lastSyncBlock, lastChainLockHeight>>
      BY <3>1 DEF SyncTipHasMostWork
    <3>2. ASSUME NEW c \in (Blocks \ {Genesis}) \cap DOMAIN m, NEW fork \in SUBSET Blocks,
                 NEW added \in SUBSET Blocks, calls # <<>>, m[c] \in Objects,
                 AddBlock(c, m[c], FALSE, <<Relink(chain, fork, added)>> \o Tail(calls))
          PROVE  SyncTipHasMostWork'
      <4>1. Relink(chain, fork, added) \in CoveredCalls
        BY DEF Relink, Calls, CoveredCalls
      <4>2. <<Relink(chain, fork, added)>> \o Tail(calls) \in Seq(CoveredCalls)
        BY <3>2, <4>1, CoveredCallsNext, PushCall
      <4>3. m[c].chainLocked => Height[c] <= lastChainLockHeight
        BY DEF LocksInv, LocksCovered, Locked
      <4>4. QED
        BY <3>2, <4>2, <4>3, AddBlockMostWork
    <3>3. IsDictionary(m)
      BY DEF TypeOK
    <3>4. QED
      BY <2>6, <3>1, <3>2, <3>3, RelinkStep
  <2>7. CASE RelinkTerminal \/ RelinkSync
    BY <2>6, <2>7 DEF RelinkTerminal, RelinkSync
  <2>8. CASE UNCHANGED <<mSyncBlocks, lastSyncBlock, lastChainLockHeight>>
    BY <2>8 DEF SyncTipHasMostWork
  <2>9. CASE WipeBlockchain \/ WipeBlockchainNonTerminal
    BY <2>9, CheckpointDictionary
    DEF WipeBlockchain, WipeBlockchainNonTerminal, SyncTipHasMostWork
  <2>10. QED
    BY <2>1, <2>2, <2>3, <2>4, <2>5, <2>7, <2>8, <2>9
    DEF Next, StartSyncingBlockchain, FinishedSyncingMasternodeLists, AlreadySynced, StopSync, SetPhase,
        ChangeEstimate, vars
<1>3. QED
  BY <1>1, <1>2, TypeCorrect, LocksInvariant, PTL DEF Spec

\* A tip gives way to one with less work only to a chain locked block or to a
\* wipe, in every step.
THEOREM TipsGainWork == Spec => WorkNeverDrops
<1>1. TypeOK /\ [Next]_vars => [WorkKept]_vars
  <2> SUFFICES ASSUME TypeOK, Next PROVE WorkKept
    OBVIOUS
  <2>1. Work[lastTerminalBlock] \in Nat /\ Work[lastSyncBlock] \in Nat
    BY TreeAssumption DEF TreeAssumption, TypeOK
  <2>2. ASSUME NEW b \in Blocks \ {Genesis}, NEW o, NEW peer, NEW rest, AddBlock(b, o, peer, rest)
        PROVE  WorkKept
    <3>1. Work[b] \in Nat
      BY TreeAssumption DEF TreeAssumption
    <3>2. QED
      BY <2>1, <2>2, <3>1, AddBlockTips DEF WorkKept
  <2>3. CASE UNCHANGED <<lastTerminalBlock, lastSyncBlock>>
    BY <2>1, <2>3 DEF WorkKept
  <2>4. ASSUME NEW b \in Blocks, RelayBlock(b)
        PROVE  WorkKept
    BY <2>2, <2>4 DEF RelayBlock
  <2>5. CASE AddAdoptedOrphan
    <3>1. Head(calls).block \in Blocks \ {Genesis}
      BY <2>5, CallsType, AddCallType DEF AddAdoptedOrphan
    <3>2. QED
      BY <2>2, <2>5, <3>1 DEF AddAdoptedOrphan
  <2>6. ASSUME NEW b \in Lockable, NEW verified \in BOOLEAN, RelayChainLock(b, verified)
        PROVE  WorkKept
    <3>1. \/ lastTerminalBlock' = lastTerminalBlock
          \/ /\ lastTerminalBlock' = b /\ b \in DOMAIN mTerminalBlocks /\ verified
             /\ mTerminalBlocks' = SetLock(mTerminalBlocks, b, verified)
      BY <2>6 DEF RelayChainLock
    <3>2. lastTerminalBlock' = lastTerminalBlock \/ lastTerminalBlock' \in Locked(mTerminalBlocks')
      BY <3>1 DEF SetLock, Locked, TypeOK, IsDictionary, Objects
    <3>3. lastSyncBlock' = lastSyncBlock
      BY <2>6 DEF RelayChainLock
    <3>4. QED
      BY <2>1, <3>2, <3>3 DEF WorkKept
  <2>7. CASE LockSync
    <3> DEFINE b == Head(calls).block
    <3>1. \/ lastSyncBlock' = lastSyncBlock
          \/ /\ lastSyncBlock' = b /\ b \in DOMAIN mSyncBlocks /\ Head(calls).verified
             /\ mSyncBlocks' = SetLock(mSyncBlocks, b, Head(calls).verified)
      BY <2>7 DEF LockSync
    <3>2. Head(calls).verified \in BOOLEAN
      BY <2>7, CallsType, LockSyncCallType DEF LockSync
    <3>3. lastSyncBlock' = lastSyncBlock \/ lastSyncBlock' \in Locked(mSyncBlocks')
      BY <3>1, <3>2 DEF SetLock, Locked, TypeOK, IsDictionary, Objects
    <3>4. lastTerminalBlock' = lastTerminalBlock
      BY <2>7 DEF LockSync
    <3>5. QED
      BY <2>1, <3>3, <3>4 DEF WorkKept
  <2>8. ASSUME NEW chain \in {"relinkTerminal", "relinkSync"}, NEW m, IsDictionary(m), NEW tip,
               RelinkOne(chain, m, tip)
        PROVE  WorkKept
    BY <2>2, <2>3, <2>8, RelinkStep
  <2>9. CASE RelinkTerminal \/ RelinkSync
    BY <2>8, <2>9 DEF RelinkTerminal, RelinkSync, TypeOK
  <2>10. CASE WipeBlockchain
    BY <2>10 DEF WorkKept
  <2>11. CASE WipeBlockchainNonTerminal
    <3>1. lastTerminalBlock' = lastTerminalBlock
      BY <2>11 DEF WipeBlockchainNonTerminal
    <3>2. QED
      BY <2>1, <2>11, <3>1 DEF WorkKept
  <2>12. QED
    BY <2>3, <2>4, <2>5, <2>6, <2>7, <2>9, <2>10, <2>11
    DEF Next, RelayEarlyChainLock, StartSyncingBlockchain, FinishedSyncingMasternodeLists,
        AlreadySynced, StopSync, SetPhase, ChangeEstimate
<1>2. QED
  BY <1>1, TypeCorrect, PTL DEF Spec, WorkNeverDrops

-----------------------------------------------------------------------------
(* The ends of handlers *)

\* What may wait below a call of addBlock, or with none: the two halves of addChainLock.
Loops(stack) ==
  \/ stack = <<>>
  \/ Len(stack) = 1 /\ stack[1].call \in {"lockSync", "relinkSync"}
  \/ Len(stack) = 2 /\ stack[1].call = "relinkTerminal" /\ stack[2].call = "lockSync"

\* At most one call of addBlock waits, on top of the loop that made it.
Nested == Loops(calls) \/ (Adding /\ Loops(Tail(calls)))

\* A call put in front waits with the others.
LEMMA WaitingPushed ==
  ASSUME NEW c, NEW S, c \in S, NEW rest \in Seq(S)
  PROVE  /\ Waiting(<<c>> \o rest) = {c} \cup Waiting(rest)
         /\ Head(<<c>> \o rest) = c /\ Tail(<<c>> \o rest) = rest /\ <<c>> \o rest # <<>>
<1> DEFINE s == <<c>> \o rest
<1>1. /\ Len(s) = Len(rest) + 1 /\ s[1] = c /\ s \in Seq(S)
      /\ \A i \in 1 .. Len(rest) : s[i + 1] = rest[i]
  OBVIOUS
<1>2. Waiting(s) = {c} \cup Waiting(rest)
  <2>1. DOMAIN s = 1 .. Len(rest) + 1 /\ DOMAIN rest = 1 .. Len(rest) /\ Len(rest) \in Nat
    BY <1>1
  <2> HIDE DEF s
  <2>2. \A i \in DOMAIN s : i = 1 \/ (i - 1 \in 1 .. Len(rest) /\ s[i] = rest[i - 1])
    BY <1>1, <2>1
  <2>3. \A i \in DOMAIN rest : i + 1 \in DOMAIN s /\ s[i + 1] = rest[i]
    BY <1>1, <2>1
  <2>4. 1 \in DOMAIN s
    BY <2>1
  <2>5. QED
    BY <1>1, <2>1, <2>2, <2>3, <2>4 DEF Waiting
<1>3. Head(s) = c /\ Tail(s) = rest /\ s # <<>>
  OBVIOUS
<1>4. QED
  BY <1>2, <1>3

\* The call that runs waited with the others.
LEMMA WaitingPopped ==
  ASSUME TypeOK, calls # <<>>
  PROVE  Waiting(calls) = {Head(calls)} \cup Waiting(Tail(calls))
<1>1. calls = <<Head(calls)>> \o Tail(calls) /\ Head(calls) \in Calls /\ Tail(calls) \in Seq(Calls)
  BY CallsType DEF TypeOK
<1>2. QED
  BY <1>1, WaitingPushed

\* A call of addBlock counts neither for the stage nor for what is left of a fork.
LEMMA AddCallsCountNot ==
  ASSUME NEW s, NEW t, NEW c, c.call = "addBlock", Waiting(s) = {c} \cup Waiting(t)
  PROVE  Stage(s) = Stage(t) /\ Left(s) = Left(t)
<1>1. Kinds(s) = {"addBlock"} \cup Kinds(t)
  BY DEF Kinds
<1>2. Stage(s) = Stage(t)
  <2>1. \A k \in {"relinkTerminal", "lockSync"} : k \in Kinds(s) <=> k \in Kinds(t)
    BY <1>1
  <2>2. Kinds(s) \ {"addBlock"} = Kinds(t) \ {"addBlock"}
    BY <1>1
  <2>3. QED
    BY <2>1, <2>2 DEF Stage
<1>3. Left(s) = Left(t)
  BY DEF Left
<1>4. QED
  BY <1>2, <1>3

\* What waits in a stack of one loop or two, and what stage it is.
LEMMA LoopStages ==
  ASSUME NEW S, NEW s \in Seq(S), Loops(s)
  PROVE  /\ s = <<>> => Waiting(s) = {} /\ Stage(s) = 0
         /\ s # <<>> => s[1] = Head(s) /\ Head(s).call \in {"lockSync", "relinkSync", "relinkTerminal"}
         /\ (s # <<>> /\ Head(s).call = "relinkSync") => Stage(s) = 1 /\ Tail(s) = <<>>
         /\ (s # <<>> /\ Head(s).call = "lockSync") => Stage(s) = 2 /\ Tail(s) = <<>>
         /\ (s # <<>> /\ Head(s).call = "relinkTerminal") =>
              /\ Stage(s) = 3 /\ Loops(Tail(s)) /\ Tail(s) # <<>> /\ Head(Tail(s)).call = "lockSync"
<1>1. CASE s = <<>>
  <2>1. Waiting(s) = {}
    BY <1>1 DEF Waiting
  <2>2. Kinds(s) = {}
    BY <2>1 DEF Kinds
  <2>3. QED
    BY <1>1, <2>1, <2>2 DEF Stage
<1>2. CASE Len(s) = 1 /\ s[1].call \in {"lockSync", "relinkSync"}
  <2>1. s # <<>> /\ Head(s) = s[1] /\ Tail(s) = <<>> /\ DOMAIN s = {1}
    <3>1. DOMAIN s = 1 .. 1 /\ s # <<>>
      BY <1>2, LenProperties
    <3>2. Tail(s) \in Seq(S) /\ Len(Tail(s)) = 0 /\ Head(s) = s[1]
      BY <1>2, <3>1, HeadTailProperties
    <3>3. Tail(s) = <<>>
      BY <3>2, EmptySeq
    <3>4. QED
      BY <3>1, <3>2, <3>3
  <2>2. Waiting(s) = {s[1]}
    BY <2>1 DEF Waiting
  <2>3. Kinds(s) = {s[1].call}
    BY <2>2 DEF Kinds
  <2>4. s[1].call = "lockSync" => Stage(s) = 2
    BY <2>3 DEF Stage
  <2>5. s[1].call = "relinkSync" => Stage(s) = 1
    BY <2>3 DEF Stage
  <2>6. QED
    BY <1>2, <2>1, <2>4, <2>5
<1>3. CASE Len(s) = 2 /\ s[1].call = "relinkTerminal" /\ s[2].call = "lockSync"
  <2>1. s # <<>> /\ Head(s) = s[1] /\ Len(Tail(s)) = 1 /\ Tail(s)[1] = s[2] /\ DOMAIN s = {1, 2}
    <3>1. DOMAIN s = 1 .. 2 /\ s # <<>>
      BY <1>3, LenProperties
    <3>2. Tail(s) \in Seq(S) /\ Len(Tail(s)) = 1 /\ Head(s) = s[1]
      BY <1>3, <3>1, HeadTailProperties
    <3>3. Tail(s)[1] = s[1 + 1]
      BY <3>1, <3>2, HeadTailProperties
    <3>4. QED
      BY <3>1, <3>2, <3>3
  <2>2. Waiting(s) = {s[1], s[2]}
    BY <2>1 DEF Waiting
  <2>3. "relinkTerminal" \in Kinds(s)
    BY <1>3, <2>2 DEF Kinds
  <2>4. Stage(s) = 3
    BY <2>3 DEF Stage
  <2>5. Tail(s) # <<>> /\ Head(Tail(s)) = s[2] /\ Loops(Tail(s))
    <3>1. Tail(s) \in Seq(S)
      BY <2>1, HeadTailProperties
    <3>2. Head(Tail(s)) = Tail(s)[1] /\ Tail(s) # <<>>
      <4>1. PICK u : u = Tail(s)
        OBVIOUS
      <4>2. u \in Seq(S) /\ Len(u) = 1
        BY <2>1, <3>1, <4>1
      <4>3. u # <<>>
        <5>1. Len(<<>>) = 0 /\ 0 # 1
          OBVIOUS
        <5>2. QED
          BY <4>2, <5>1, Zenon
      <4>4. Head(u) = u[1]
        BY <4>2
      <4>5. QED
        BY <4>1, <4>3, <4>4
    <3>3. Loops(Tail(s))
      BY <1>3, <2>1 DEF Loops
    <3>4. QED
      BY <2>1, <3>1, <3>2, <3>3
  <2>6. QED
    BY <1>3, <2>1, <2>4, <2>5
<1>4. QED
  BY <1>1, <1>2, <1>3 DEF Loops

\* addBlock leaves what waited, or puts a call in front for the orphan it takes out.
LEMMA AddBlockNests ==
  ASSUME TypeOK, NEW b \in Blocks, NEW o, NEW peer \in BOOLEAN, NEW rest, AddBlock(b, o, peer, rest)
  PROVE  \/ calls' = rest
         \/ /\ \E c \in Calls : c.call = "addBlock" /\ calls' = <<c>> \o rest
            /\ b \in DOMAIN mOrphans /\ DOMAIN mOrphans' = DOMAIN mOrphans \ {b}
<1>1. \/ calls' = rest
      \/ \E syncDone, becameTip : Finish(b, peer, rest, syncDone, becameTip)
  BY DEF AddBlock, StoreOrphan, RejectBlock, IgnoreFork, TerminalFork, SyncFork, ReturnEarly,
         ExtendSyncChain, ExtendTerminalChain, ReplaceSyncBlock, ReplaceTerminalBlock
<1>2. ASSUME NEW syncDone, NEW becameTip, Finish(b, peer, rest, syncDone, becameTip),
             Adopts(b, becameTip)
      PROVE  /\ \E c \in Calls : c.call = "addBlock" /\ calls' = <<c>> \o rest
             /\ b \in DOMAIN mOrphans /\ DOMAIN mOrphans' = DOMAIN mOrphans \ {b}
  <2> DEFINE call == AddCall(mOrphans[b].block, Received(mOrphans[b].full), peer)
  <2>1. b \in DOMAIN mOrphans /\ mOrphans[b] \in [block : Blocks \ {Genesis}, full : BOOLEAN]
    BY <1>2 DEF Adopts, TypeOK
  <2>2. call \in Calls /\ call.call = "addBlock"
    BY <2>1 DEF AddCall, Received, Objects, Calls
  <2>3. calls' = <<call>> \o rest /\ mOrphans' = Remove(mOrphans, {b})
    BY <1>2 DEF Finish
  <2>4. DOMAIN mOrphans' = DOMAIN mOrphans \ {b}
    BY <2>3 DEF Remove
  <2> HIDE DEF call
  <2>5. QED
    BY <2>1, <2>2, <2>3, <2>4
<1>3. ASSUME NEW syncDone, NEW becameTip, Finish(b, peer, rest, syncDone, becameTip),
             ~Adopts(b, becameTip)
      PROVE  calls' = rest
  BY <1>3 DEF Finish
<1>4. QED
  BY <1>1, <1>2, <1>3

\* So what waits after a call of addBlock nests as what waited below it, which it
\* does not count for.
LEMMA AddBlockReturns ==
  ASSUME TypeOK, NEW b \in Blocks, NEW o, NEW peer \in BOOLEAN, NEW rest \in Seq(Calls), Loops(rest),
         AddBlock(b, o, peer, rest)
  PROVE  /\ Nested' /\ Stage(calls') = Stage(rest) /\ Left(calls') = Left(rest)
         /\ Adding' => DOMAIN mOrphans' \subseteq DOMAIN mOrphans /\ DOMAIN mOrphans' # DOMAIN mOrphans
<1>1. CASE calls' = rest
  <2>1. Nested'
    BY <1>1 DEF Nested
  <2>2. ~Adding'
    BY <1>1, LoopStages DEF Adding
  <2>3. QED
    BY <1>1, <2>1, <2>2
<1>2. ASSUME NEW c \in Calls, c.call = "addBlock", calls' = <<c>> \o rest,
             b \in DOMAIN mOrphans, DOMAIN mOrphans' = DOMAIN mOrphans \ {b}
      PROVE  /\ Nested' /\ Stage(calls') = Stage(rest) /\ Left(calls') = Left(rest)
             /\ DOMAIN mOrphans' \subseteq DOMAIN mOrphans /\ DOMAIN mOrphans' # DOMAIN mOrphans
  <2>1. PICK s : s = calls'
    OBVIOUS
  <2>2. /\ Waiting(s) = {c} \cup Waiting(rest)
        /\ s # <<>> /\ Head(s) = c /\ Tail(s) = rest
    BY <1>2, <2>1, WaitingPushed
  <2>3. Nested'
    BY <1>2, <2>1, <2>2 DEF Nested, Adding
  <2>4. Stage(s) = Stage(rest) /\ Left(s) = Left(rest)
    BY <1>2, <2>2, AddCallsCountNot
  <2>5. QED
    BY <1>2, <2>1, <2>3, <2>4
<1>3. QED
  BY <1>1, <1>2, AddBlockNests

\* A turn of a loop that relinks a fork ends the loop, or takes a block of the fork
\* for the last time.
LEMMA RelinkUsesUp ==
  ASSUME TypeOK, Nested, NEW chain \in {"relinkTerminal", "relinkSync"},
         NEW m \in {mTerminalBlocks, mSyncBlocks}, NEW tip, RelinkOne(chain, m, tip)
  PROVE  Nested' /\ LessLeft
<1>1. calls # <<>> /\ Head(calls).call = chain /\ IsDictionary(m)
  BY DEF RelinkOne, TypeOK
<1>2. /\ calls \in Seq(Calls) /\ Head(calls) \in Calls /\ Tail(calls) \in Seq(Calls)
      /\ Head(calls).fork \in SUBSET Blocks /\ Head(calls).added \in SUBSET Blocks
  BY <1>1, CallsType, RelinkCallType DEF TypeOK
<1>3. Loops(calls)
  BY <1>1 DEF Nested, Adding
<1>4. /\ chain = "relinkSync" => Stage(calls) = 1 /\ Tail(calls) = <<>>
      /\ chain = "relinkTerminal" => /\ Stage(calls) = 3 /\ Loops(Tail(calls)) /\ Tail(calls) # <<>>
                                     /\ Head(Tail(calls)).call = "lockSync"
  BY <1>1, <1>2, <1>3, LoopStages
<1>5. Loops(Tail(calls))
  BY <1>4 DEF Loops
<1>6. /\ chain = "relinkSync" => Waiting(Tail(calls)) = {} /\ Stage(Tail(calls)) = 0
      /\ chain = "relinkTerminal" => Stage(Tail(calls)) = 2 /\ Tail(Tail(calls)) = <<>>
  BY <1>2, <1>4, <1>5, LoopStages
<1>7. CASE NextLinks(m, tip, Head(calls)) = {}
  <2>1. calls' = Tail(calls)
    BY <1>7 DEF RelinkOne
  <2>2. Stage(calls') < Stage(calls)
    BY <1>4, <1>6, <2>1
  <2>3. Nested'
    BY <1>5, <2>1 DEF Nested
  <2>4. QED
    BY <2>2, <2>3 DEF LessLeft
<1>8. CASE NextLinks(m, tip, Head(calls)) # {}
  <2>1. PICK c \in NextLinks(m, tip, Head(calls)) :
          AddBlock(c, m[c], FALSE,
                   <<Relink(chain, Head(calls).fork, Head(calls).added \cup {c})>> \o Tail(calls))
    BY <1>8 DEF RelinkOne
  <2>2. c \in Blocks /\ c \in Head(calls).fork \ Head(calls).added
    BY <1>2, <2>1 DEF NextLinks
  <2> DEFINE frame == Relink(chain, Head(calls).fork, Head(calls).added \cup {c})
  <2>3. /\ frame \in Calls /\ frame.call = chain
        /\ frame.fork = Head(calls).fork /\ frame.added = Head(calls).added \cup {c}
    BY <1>2, <2>2 DEF Relink, Calls
  <2>4. AddBlock(c, m[c], FALSE, <<frame>> \o Tail(calls))
    BY <2>1
  <2> HIDE DEF frame
  <2>5. PICK rest : rest = <<frame>> \o Tail(calls)
    OBVIOUS
  <2>6. /\ rest \in Seq(Calls) /\ Waiting(rest) = {frame} \cup Waiting(Tail(calls))
        /\ Head(rest) = frame /\ Tail(rest) = Tail(calls) /\ rest # <<>>
    BY <1>2, <2>3, <2>5, PushCall, WaitingPushed
  <2>7. Loops(rest)
    <3>1. rest[1] = frame /\ Len(rest) = Len(Tail(calls)) + 1
          /\ \A i \in 1 .. Len(Tail(calls)) : rest[i + 1] = Tail(calls)[i]
      BY <1>2, <2>3, <2>5
    <3>2. Len(calls) = Len(Tail(calls)) + 1
          /\ \A i \in 1 .. Len(Tail(calls)) : calls[i + 1] = Tail(calls)[i]
      BY <1>1, <1>2, HeadTailProperties, LenProperties
    <3>3. calls[1] = Head(calls)
      BY <1>1, <1>2, <1>3, LoopStages
    <3>4. CASE Len(calls) = 1
      <4>1. Len(rest) = 1 /\ rest[1].call = chain
        BY <2>3, <3>1, <3>2, <3>4
      <4>2. chain = "relinkSync"
        BY <1>1, <1>3, <3>3, <3>4 DEF Loops
      <4>3. QED
        BY <4>1, <4>2 DEF Loops
    <3>5. CASE Len(calls) = 2
      <4>1. Len(Tail(calls)) = 1 /\ Len(rest) = 2 /\ rest[1].call = chain
        <5>1. Len(Tail(calls)) \in Nat
          BY <1>2, LenProperties
        <5>2. Len(Tail(calls)) = 1 /\ Len(rest) = 2
          BY <3>1, <3>2, <3>5, <5>1
        <5>3. QED
          BY <2>3, <3>1, <5>2
      <4>2. rest[1 + 1] = calls[1 + 1]
        BY <3>1, <3>2, <4>1
      <4>3. chain = "relinkTerminal" /\ calls[2].call = "lockSync"
        BY <1>1, <1>3, <3>3, <3>5 DEF Loops
      <4>4. QED
        BY <4>1, <4>2, <4>3 DEF Loops
    <3>6. QED
      BY <1>1, <1>3, <3>4, <3>5 DEF Loops
  <2>8. Stage(rest) = Stage(calls)
    <3>1. Head(rest).call = chain
      BY <2>3, <2>6
    <3>2. /\ chain = "relinkSync" => Stage(rest) = 1
          /\ chain = "relinkTerminal" => Stage(rest) = 3
      BY <2>6, <2>7, <3>1, LoopStages
    <3>3. QED
      BY <1>4, <3>2
  <2>9. \A d \in Waiting(Tail(calls)) : d.call \notin {"relinkTerminal", "relinkSync"}
    <3>1. CASE chain = "relinkSync"
      BY <1>6, <3>1
    <3>2. CASE chain = "relinkTerminal"
      <4>1. PICK u : u = Tail(calls)
        OBVIOUS
      <4>2. u \in Seq(Calls) /\ u # <<>> /\ Head(u).call = "lockSync" /\ Tail(u) = <<>>
        BY <1>2, <1>4, <1>6, <3>2, <4>1
      <4>3. DOMAIN u = {1} /\ u[1].call = "lockSync"
        <5>1. Len(u) = 1 /\ DOMAIN u = 1 .. Len(u)
          <6>1. Len(Tail(u)) = Len(u) - 1 /\ Len(u) \in Nat /\ DOMAIN u = 1 .. Len(u)
            BY <4>2, HeadTailProperties, LenProperties
          <6>2. Len(Tail(u)) = 0
            <7>1. Len(<<>>) = 0
              OBVIOUS
            <7>2. QED
              BY <4>2, <7>1, Zenon
          <6>3. QED
            BY <6>1, <6>2
        <5>2. Head(u) = u[1]
          BY <4>2, <5>1
        <5>3. QED
          BY <4>2, <5>1, <5>2
      <4>4. QED
        BY <4>1, <4>3 DEF Waiting
    <3>3. QED
      BY <3>1, <3>2
  <2>10. Waiting(calls) = {Head(calls)} \cup Waiting(Tail(calls))
    BY <1>1, WaitingPopped
  <2>11. Left(calls) = Head(calls).fork \ Head(calls).added
    BY <1>1, <1>2, <2>9, <2>10 DEF Left
  <2>12. Left(rest) = Head(calls).fork \ (Head(calls).added \cup {c})
    BY <1>2, <2>3, <2>6, <2>9 DEF Left
  <2>13. Left(rest) \subseteq Left(calls) /\ Left(rest) # Left(calls)
    BY <2>2, <2>11, <2>12
  <2>14. AddBlock(c, m[c], FALSE, rest)
    BY <2>4, <2>5
  <2>15. Nested' /\ Stage(calls') = Stage(rest) /\ Left(calls') = Left(rest)
    BY <2>2, <2>6, <2>7, <2>14, AddBlockReturns
  <2>16. QED
    BY <2>8, <2>13, <2>15 DEF LessLeft
<1>9. QED
  BY <1>7, <1>8

\* A call of addBlock for an orphan goes on to another one at most by taking it out.
LEMMA AdoptingUsesUp ==
  ASSUME TypeOK, Nested, AddAdoptedOrphan
  PROVE  Nested' /\ LessLeft
<1>1. calls # <<>> /\ Head(calls).call = "addBlock" /\ Adding
  BY DEF AddAdoptedOrphan, Adding
<1>2. /\ calls \in Seq(Calls) /\ Head(calls).block \in Blocks /\ Head(calls).peer \in BOOLEAN
      /\ Tail(calls) \in Seq(Calls)
  BY <1>1, CallsType, AddCallType DEF TypeOK
<1>3. Loops(Tail(calls))
  BY <1>1, <1>2, LoopStages DEF Nested
<1>4. Stage(calls) = Stage(Tail(calls)) /\ Left(calls) = Left(Tail(calls))
  BY <1>1, WaitingPopped, AddCallsCountNot
<1>5. /\ Nested' /\ Stage(calls') = Stage(Tail(calls)) /\ Left(calls') = Left(Tail(calls))
      /\ Adding' => DOMAIN mOrphans' \subseteq DOMAIN mOrphans /\ DOMAIN mOrphans' # DOMAIN mOrphans
  BY <1>2, <1>3, AddBlockReturns DEF AddAdoptedOrphan
<1>6. QED
  BY <1>1, <1>4, <1>5 DEF LessLeft

\* The sync half of addChainLock leaves at most the loop of the sync chain.
LEMMA LockSyncUsesUp ==
  ASSUME TypeOK, Nested, LockSync
  PROVE  Nested' /\ LessLeft
<1>1. calls # <<>> /\ Head(calls).call = "lockSync" /\ calls \in Seq(Calls)
  BY DEF LockSync, TypeOK
<1>2. Loops(calls)
  BY <1>1 DEF Nested, Adding
<1>3. Stage(calls) = 2 /\ Tail(calls) = <<>>
  BY <1>1, <1>2, LoopStages
<1>4. \/ calls' = Tail(calls)
      \/ \E fork : calls' = <<Relink("relinkSync", fork, {})>> \o Tail(calls)
  BY DEF LockSync
<1>5. CASE calls' = Tail(calls)
  <2>1. Loops(calls') /\ calls' = <<>> /\ <<>> \in Seq(Calls)
    BY <1>3, <1>5, EmptySeq DEF Loops
  <2>2. Stage(calls') = 0
    BY <2>1, LoopStages
  <2>3. QED
    BY <1>3, <2>1, <2>2 DEF Nested, LessLeft
<1>6. ASSUME NEW fork, calls' = <<Relink("relinkSync", fork, {})>> \o Tail(calls)
      PROVE  Nested' /\ LessLeft
  <2>1. PICK s : s = calls'
    OBVIOUS
  <2> DEFINE frame == Relink("relinkSync", fork, {})
  <2>2. frame.call = "relinkSync"
    BY DEF Relink
  <2>3. s = <<frame>>
    <3> HIDE DEF frame
    <3>1. <<frame>> \o <<>> = <<frame>>
      OBVIOUS
    <3>2. QED
      BY <1>3, <1>6, <2>1, <3>1 DEF frame
  <2> HIDE DEF frame
  <2>4. /\ s \in Seq({frame}) /\ Len(s) = 1 /\ s[1] = frame /\ s # <<>> /\ Head(s) = frame
    BY <2>3
  <2>5. Loops(s)
    BY <2>2, <2>4 DEF Loops
  <2>6. Stage(s) = 1
    BY <2>2, <2>4, <2>5, LoopStages
  <2>7. QED
    BY <1>3, <2>1, <2>5, <2>6 DEF Nested, LessLeft
<1>7. QED
  BY <1>4, <1>5, <1>6

\* Calls nest as they do, in every reachable state.
LEMMA NestedInvariant == Spec => []Nested
<1>1. Init => Nested
  BY DEF Init, Nested, Loops
<1>2. TypeOK /\ Nested /\ [Next]_vars => Nested'
  <2> SUFFICES ASSUME TypeOK, Nested, [Next]_vars PROVE Nested'
    OBVIOUS
  <2>1. ASSUME NEW b \in Blocks, RelayBlock(b)
        PROVE  Nested'
    <3>1. AddBlock(b, Received(syncPhase # "InitialTerminalBlocks"), TRUE, <<>>)
      BY <2>1 DEF RelayBlock
    <3>2. <<>> \in Seq(Calls) /\ Loops(<<>>)
      BY EmptySeq DEF Loops
    <3>3. QED
      BY <3>1, <3>2, AddBlockReturns
  <2>2. CASE AddAdoptedOrphan
    BY <2>2, AdoptingUsesUp
  <2>3. ASSUME NEW b \in Lockable, NEW verified \in BOOLEAN, RelayChainLock(b, verified)
        PROVE  Nested'
    <3> DEFINE lock == LockSyncCall(b, verified)
    <3>1. lock.call = "lockSync"
      BY DEF LockSyncCall
    <3>2. \/ calls' = <<lock>>
          \/ \E frame : frame.call = "relinkTerminal" /\ calls' = <<frame, lock>>
      BY <2>3 DEF RelayChainLock, Relink
    <3> HIDE DEF lock
    <3>3. ASSUME NEW c PROVE Len(<<c>>) = 1 /\ <<c>>[1] = c
      OBVIOUS
    <3>4. ASSUME NEW c, NEW d PROVE Len(<<c, d>>) = 2 /\ <<c, d>>[1] = c /\ <<c, d>>[2] = d
      OBVIOUS
    <3>5. Loops(calls')
      BY <3>1, <3>2, <3>3, <3>4 DEF Loops
    <3>6. QED
      BY <3>5 DEF Nested
  <2>4. CASE LockSync
    BY <2>4, LockSyncUsesUp
  <2>5. CASE RelinkTerminal \/ RelinkSync
    BY <2>5, RelinkUsesUp DEF RelinkTerminal, RelinkSync
  <2>6. CASE UNCHANGED calls
    BY <2>6 DEF Nested, Adding
  <2>7. QED
    BY <2>1, <2>2, <2>3, <2>4, <2>5, <2>6
    DEF Next, RelayEarlyChainLock, StartSyncingBlockchain, FinishedSyncingMasternodeLists,
        AlreadySynced, StopSync, SetPhase, ChangeEstimate, WipeBlockchain, WipeBlockchainNonTerminal, vars
<1>3. QED
  BY <1>1, <1>2, TypeCorrect, PTL DEF Spec

\* Every step of a handler leaves it less to do: the loops of addChainLock add no
\* block of a fork twice, and addBlock calls itself only for an orphan that it has
\* taken out, so that neither goes on for ever.
THEOREM HandlersEnd == Spec => HandlersUseUp
<1>1. TypeOK /\ Nested /\ [Next]_vars => [HandlerStep => LessLeft]_vars
  <2> SUFFICES ASSUME TypeOK, Nested, HandlerStep PROVE LessLeft
    OBVIOUS
  <2>1. CASE AddAdoptedOrphan
    BY <2>1, AdoptingUsesUp
  <2>2. CASE LockSync
    BY <2>2, LockSyncUsesUp
  <2>3. CASE RelinkTerminal \/ RelinkSync
    BY <2>3, RelinkUsesUp DEF RelinkTerminal, RelinkSync
  <2>4. QED
    BY <2>1, <2>2, <2>3 DEF HandlerStep
<1>2. QED
  BY <1>1, TypeCorrect, NestedInvariant, PTL DEF Spec, HandlersUseUp
=============================================================================
