--------------------------- MODULE DSMasternodes ---------------------------
(***************************************************************************)
(* How the masternode lists are retrieved (DSMasternodeManager) while the  *)
(* chain manager moves from one sync phase to the next (DSChainManager).   *)
(*                                                                         *)
(* A list belongs to a block.  The lists that are wanted wait in the       *)
(* retrieval queue; they are asked of the download peer all at once, each  *)
(* as a difference from the one before it; an answer is verified and its   *)
(* list kept and saved, or the lists its quorums need are queued first; an *)
(* observer asks again when nothing arrives.  When the queue is empty the  *)
(* chain manager starts the sync of the blocks.                            *)
(*                                                                         *)
(* An answer is handled on the thread of its peer, in two steps here: until *)
(* the difference is processed the other threads go on.  The handlers call *)
(* each other, so each is a function from the state m of the two managers  *)
(* and the state c of the chain to the state it leaves.                    *)
(*                                                                         *)
(* A block is its height (no reorganisation); 0 is the genesis block, the  *)
(* base of a whole list.  Every list that is known is in memory (no        *)
(* stubs).  Lengths of time are left out: a timer fires at any moment.     *)
(***************************************************************************)
EXTENDS Naturals, FiniteSets

CONSTANTS None,              \* no list, no answer, no observer
          FirstTip,          \* the height of the terminal blocks at the start
          MaxHeight,         \* bound: the heights there are
          Recent,            \* 32: how far below the tip a list is fetched
          Behind,            \* 8: how old the last list may be
          Old,               \* 50: how old a list is before it is removed
          MaxFaultyPeers,    \* MAX_FAULTY_DML_PEERS
          Quorums,           \* the lists that verify the quorums new in a list
          FileLists,         \* the checkpoints with a list in the bundle
          MaxTroubles        \* bound: bad, late or lost answers, lost peers and
                             \* blocks, errors; calls of the application

Blocks  == 0 .. MaxHeight
Phases  == {"Offline", "InitialTerminalBlocks", "ChainSync", "Synced"}
Answers == [base : Blocks, block : Blocks]

ASSUME MasternodesAssumption ==
    /\ None \notin Nat
    /\ None \notin [waiting : SUBSET Blocks, count : Nat]
    /\ None \notin [answer : Answers, sent : BOOLEAN]
    /\ MaxHeight \in Nat /\ FirstTip \in Blocks
    /\ Recent \in Nat /\ Behind \in Nat /\ Old \in Nat
    /\ MaxFaultyPeers \in Nat \ {0}
    /\ Quorums \in [Blocks -> SUBSET Blocks]
    /\ FileLists \subseteq Blocks
    /\ MaxTroubles \in Nat

VARIABLES
    mn,        \* the masternode manager, the sync phase, the connection
    chain,     \* the chain: its tips and the blocks it has
    troubles   \* how much of the bound is used

vars == <<mn, chain, troubles>>

\* The state of the managers.
Managers ==
    [queue : SUBSET Blocks,          \* masternodeListRetrievalQueue
     inRetrieval : SUBSET Blocks,    \* masternodeListsInRetrieval
     known : SUBSET Blocks,          \* masternodeListsByBlockHash
     current : Blocks \cup {None},   \* currentMasternodeList
     lastQueried : Blocks \cup {None},
     queried : SUBSET Blocks,        \* ...QueriesNeedingQuorumsValidated
     processing : Blocks \cup {None},
     busy : [answer : Answers, sent : BOOLEAN] \cup {None},
                                     \* the answer a peer's thread is handling,
                                     \* and whether its peer is still connected
     observer : [waiting : SUBSET Blocks, count : Nat] \cup {None},
     faulty : 0 .. MaxFaultyPeers,   \* the faulty peers there were
     saving : BOOLEAN,               \* lists are being saved
     removing : BOOLEAN,             \* old lists are to be removed
     pending : SUBSET {"start", "dequeue", "current"},
                                     \* blocks of the networking queue
     neglected : BOOLEAN,            \* auxiliary, see Driven
     phase : Phases,                 \* syncPhase
     usesList : BOOLEAN,             \* the peer manager has a masternode list
     wanted : BOOLEAN,               \* the peer manager is to connect
     connected : BOOLEAN,            \* some peer is connected
     download : BOOLEAN,             \* the download peer is connected
     wire : SUBSET Answers,          \* what it is to answer, in that order
     late : SUBSET Answers]          \* an answer of a peer that is gone

\* The state of the chain.
\* The chain: what it has is in memory or in the store, its terminal blocks
\* are in memory.
Chains == [tip : Blocks, syncTip : Blocks, best : Blocks,
           has : SUBSET Blocks, terminal : SUBSET Blocks]

Highest(S) == CHOOSE b \in S : \A x \in S : x <= b
First(W)   == CHOOSE a \in W : \A x \in W : a.block <= x.block

-----------------------------------------------------------------------------
(* The connection, as the masternode manager meets it.                     *)

\* The download peer is gone.  Of what it was asked, at most the first
\* answer is still to be handled.
Disconnected(m) ==
    [m EXCEPT !.download = FALSE,
              !.wire = {},
              !.late = IF m.wire = {} THEN @ ELSE {First(m.wire)},
              !.busy = IF @ = None THEN None ELSE [@ EXCEPT !.sent = FALSE]]

\* [DSPeerManager disconnect]
AllDisconnected(m) == [Disconnected(m) EXCEPT !.connected = FALSE, !.wanted = FALSE]

\* [DSPeerManager useMasternodeList:withConnectivityNonce:]: every peer goes,
\* and others are looked for if there was a download peer.
MasternodeListUsed(m) ==
    [AllDisconnected(m) EXCEPT !.usesList = TRUE, !.wanted = m.download]

\* [DSChainManager chainFinishedSyncingMasternodeListsAndQuorums:]
Finished(m) ==
    LET next == IF m.phase = "InitialTerminalBlocks" THEN "ChainSync" ELSE m.phase
    IN  IF ~m.connected
        THEN [m EXCEPT !.phase = next, !.wanted = TRUE]
        ELSE IF ~m.usesList /\ m.current # None
        THEN MasternodeListUsed(m)
        ELSE IF m.phase = "InitialTerminalBlocks"
        THEN [m EXCEPT !.phase = next, !.pending = @ \cup {"start"}]
        ELSE m

-----------------------------------------------------------------------------
(* Asking for lists.                                                       *)

\* processValidMasternodeList for the lists of S.
Kept(m, S) ==
    LET latest == m.lastQueried \in S
    IN  [m EXCEPT !.current = IF latest THEN m.lastQueried ELSE @,
                  !.known = @ \cup S,
                  !.saving = @ \/ ~(S \subseteq m.known),
                  !.removing = @ \/ latest]

\* A list is asked for as a difference from the closest one that is known or
\* that comes before it in the queue.
Base(m, b) == Highest({0} \cup {x \in m.known \cup m.queue : x < b})

Observed(m) ==
    [m EXCEPT !.observer = [waiting |-> m.inRetrieval, count |-> Cardinality(m.known)]]

\* Blocks that are gone leave the queue; the lists in the bundle are read
\* from there, and stay in the queue; the others are asked for.
Requested(m, c) ==
    LET files == m.queue \cap c.has \cap FileLists
        asks  == (m.queue \cap c.has) \ FileLists
        sent  == [Kept(m, files) EXCEPT
                     !.queue = @ \cap c.has,
                     !.inRetrieval = asks,
                     !.wire = {[base |-> Base(m, b), block |-> b] : b \in asks},
                     !.neglected = FALSE]
    IN  Observed(sent)

\* Mutant: without a download peer the request is not tried again.
DequeuedOnce(m, c) ==
    IF m.queue = {} THEN Finished(m)
    ELSE IF m.inRetrieval # {} \/ ~m.download THEN m
    ELSE Requested(m, c)

\* [dequeueMasternodeListRequest]
Dequeued(m, c) ==
    IF m.queue = {} THEN Finished(m)
    ELSE IF m.inRetrieval # {} THEN m
    ELSE IF m.download THEN Requested(m, c)
    ELSE IF m.phase # "Offline" THEN [m EXCEPT !.pending = @ \cup {"dequeue"}]
    ELSE [m EXCEPT !.neglected = TRUE]

\* getRecentMasternodeList: the list some blocks below the tip.
GotRecent(m, c, ago) ==
    LET b     == IF c.tip > ago THEN c.tip - ago ELSE 0
        added == [m EXCEPT !.lastQueried = b,
                           !.queried = @ \cup {b},
                           !.queue = @ \cup {b}]
    IN  IF (m.queue # {} /\ Highest(m.queue) = b) \/ b \in m.known THEN m
        ELSE IF m.queue = {} THEN Dequeued(added, c)
        ELSE added

\* Mutant: only the older list is cared about.
CaredRecent(m, c) == GotRecent(m, c, Recent)

\* "make sure we care about masternode lists"
Cared(m, c) == GotRecent(GotRecent(m, c, Recent), c, 0)

\* wipeMasternodeInfo
Wiped(m) ==
    [m EXCEPT !.known = {}, !.current = None, !.queue = {}, !.inRetrieval = {}]

-----------------------------------------------------------------------------
(* The sync phases.                                                        *)

\* chainFinishedSyncingTransactionsAndBlocks
SyncFinished(m, c) == Cared([m EXCEPT !.phase = "Synced"], c)

\* chainShouldStartSyncingBlockchain: the headers first, then the lists, then
\* the blocks.
Started(m, c) ==
    IF m.phase \notin {"ChainSync", "Synced"} /\ c.best # c.tip
    THEN [m EXCEPT !.phase = "InitialTerminalBlocks"]
    ELSE IF m.known \ {0} = {} \/ Highest(m.known) + Behind < c.tip
    THEN Cared([m EXCEPT !.phase = "InitialTerminalBlocks"], c)
    ELSE [m EXCEPT !.phase = "ChainSync"]

-----------------------------------------------------------------------------
(* The peers and the chain.                                                *)

Trouble == troubles < MaxTroubles /\ troubles' = troubles + 1

\* A download peer is chosen ([DSPeerManager peerConnected:]); it may know of
\* more blocks.
PeerConnects ==
    /\ mn.wanted /\ ~mn.download
    /\ \E height \in chain.best .. MaxHeight :
          chain' = [chain EXCEPT !.best = height]
    /\ LET m == [mn EXCEPT !.download = TRUE, !.connected = TRUE]
       IN  mn' = IF chain.syncTip = chain.tip /\ chain.tip = chain'.best
                 THEN SyncFinished(m, chain)
                 ELSE [m EXCEPT !.pending = @ \cup {"start"}]
    /\ UNCHANGED troubles

\* The download peer is lost.
PeerLost ==
    /\ mn.download
    /\ Trouble
    /\ mn' = Disconnected(mn)
    /\ UNCHANGED chain

\* The other peers are lost too.
OthersLost ==
    /\ mn.connected /\ ~mn.download
    /\ mn' = [mn EXCEPT !.connected = FALSE]
    /\ UNCHANGED <<chain, troubles>>

\* An answer does not come.
AnswerLost ==
    /\ \/ mn.wire # {} /\ Trouble
          /\ mn' = [mn EXCEPT !.wire = @ \ {First(mn.wire)}]
       \/ mn.late # {}
          /\ mn' = [mn EXCEPT !.late = {}]
          /\ UNCHANGED troubles
    /\ UNCHANGED chain

\* The terminal headers reach the best height the peers know of
\* (chainFinishedSyncingInitialHeaders).
HeadersArrive ==
    /\ mn.download /\ mn.phase = "InitialTerminalBlocks" /\ chain.tip < chain.best
    /\ chain' = [chain EXCEPT !.tip = chain.best,
                              !.has = @ \cup (chain.tip .. chain.best),
                              !.terminal = @ \cup (chain.tip .. chain.best)]
    /\ mn' = Cared(mn, chain')
    /\ UNCHANGED troubles

\* The blocks reach the terminal headers.
BlocksArrive ==
    /\ mn.download /\ mn.phase = "ChainSync"
    /\ chain.tip = chain.best
    /\ chain' = [chain EXCEPT !.syncTip = chain.tip]
    /\ mn' = SyncFinished(mn, chain')
    /\ UNCHANGED troubles

\* A new block arrives: one that was heard of ends both syncs, any other
\* extends the chain (wasExtendedWithBlock).
BlockArrives ==
    /\ mn.download /\ mn.phase \in {"ChainSync", "Synced"}
    /\ chain.tip < MaxHeight
    /\ LET tip == chain.tip + 1
       IN  /\ chain' = [chain EXCEPT !.tip = tip,
                                     !.syncTip = IF @ = chain.tip THEN tip ELSE @,
                                     !.best = IF @ < tip THEN tip ELSE @,
                                     !.has = @ \cup {tip},
                                     !.terminal = @ \cup {tip}]
           /\ mn' = IF tip > chain.best
                    THEN [mn EXCEPT !.pending = @ \cup {"current"}]
                    ELSE IF tip < chain.best THEN mn
                    ELSE IF chain.syncTip = chain.tip
                    THEN SyncFinished(Cared(mn, chain'), chain')
                    ELSE Cared(mn, chain')
    /\ UNCHANGED troubles

\* An old block is in memory no more, or in the store neither.
BlockForgotten ==
    /\ Trouble
    /\ \E b \in chain.has :
          /\ 0 < b /\ b + Recent < chain.tip
          /\ \/ chain' = [chain EXCEPT !.terminal = @ \ {b}]
             \/ chain' = [chain EXCEPT !.terminal = @ \ {b}, !.has = @ \ {b}]
    /\ UNCHANGED mn

-----------------------------------------------------------------------------
(* The blocks of the networking queue.                                     *)

Ran(block) == [mn EXCEPT !.pending = @ \ {block}]

RunStart ==
    /\ "start" \in mn.pending
    /\ mn' = Started(Ran("start"), chain)
    /\ UNCHANGED <<chain, troubles>>

RunDequeue ==
    /\ "dequeue" \in mn.pending
    /\ mn' = Dequeued(Ran("dequeue"), chain)
    /\ UNCHANGED <<chain, troubles>>

RunCurrent ==
    /\ "current" \in mn.pending
    /\ mn' = GotRecent(Ran("current"), chain, 0)
    /\ UNCHANGED <<chain, troubles>>

\* Mutant: nothing to wait for is not a time-out.
NothingCame(m) ==
    /\ m.observer.count = Cardinality(m.known)
    /\ m.observer.waiting # {}
    /\ m.observer.waiting \subseteq m.inRetrieval \ {m.processing}

\* What the observer was started for is still to come, and nothing has.
NothingChanged(m) ==
    /\ m.observer.count = Cardinality(m.known)
    /\ m.observer.waiting \subseteq m.inRetrieval \ {m.processing}

\* The observer fires (startTimeOutObserver): if nothing has changed the
\* download peer is dropped and everything is asked for again.  That an
\* answer under way comes too late is a fault.
ObserverFires ==
    /\ mn.observer # None
    /\ IF mn.queue = {}
       THEN /\ mn' = [mn EXCEPT !.observer = None,
                                !.neglected = @ \/ mn.inRetrieval # {}]
            /\ UNCHANGED troubles
       ELSE IF ~NothingChanged(mn)
       THEN mn' = Observed(mn) /\ UNCHANGED troubles
       ELSE /\ LET gone == [Disconnected(mn) EXCEPT !.observer = None, !.inRetrieval = {}]
               IN  mn' = Dequeued(gone, chain)
            /\ IF mn.wire = {} THEN UNCHANGED troubles ELSE Trouble
    /\ UNCHANGED chain

-----------------------------------------------------------------------------
(* Answers.                                                                *)

\* Mutant: one more faulty peer.
IssueLate(m, c, sent, again) ==
    LET dropped == [(IF sent THEN Disconnected(m) ELSE m) EXCEPT !.wanted = TRUE]
        scratch == [dropped EXCEPT !.queue = {}, !.known = {}, !.faulty = 0]
    IN  IF m.faulty > MaxFaultyPeers
        THEN GotRecent(scratch, c, 0)
        ELSE Dequeued([dropped EXCEPT !.faulty = IF again /\ @ > 0 THEN @ ELSE @ + 1], c)

\* issueWithMasternodeListFromPeer: the peer is dropped; after too many
\* faulty peers everything starts from scratch, except what is in retrieval.
\* again: a peer of that address was faulty before.
Issue(m, c, sent, again) ==
    LET dropped == [(IF sent THEN Disconnected(m) ELSE m) EXCEPT !.wanted = TRUE]
        scratch == [dropped EXCEPT !.queue = {}, !.known = {}, !.faulty = 0]
    IN  IF m.faulty >= MaxFaultyPeers
        THEN GotRecent(scratch, c, 0)
        ELSE Dequeued([dropped EXCEPT !.faulty = IF again /\ @ > 0 THEN @ ELSE @ + 1], c)

\* The first half of relayedMasternodeDiffMessage.
Handled(m, c, a, sent, again) ==
    LET b   == a.block
        got == [m EXCEPT !.inRetrieval = @ \ {b}]
    IN  IF b \notin m.inRetrieval THEN m
        ELSE IF b \in m.known THEN got
        ELSE IF (a.base # 0 /\ a.base \notin m.known) \/ b \notin c.terminal
        THEN Issue(got, c, sent, again)
        ELSE [got EXCEPT !.processing = b, !.busy = [answer |-> a, sent |-> sent]]

\* An answer arrives, of the download peer or of one before it.
Relayed ==
    /\ mn.busy = None
    /\ \E again \in BOOLEAN :
          \/ /\ mn.wire # {}
             /\ LET a == First(mn.wire)
                IN  mn' = Handled([mn EXCEPT !.wire = @ \ {a}], chain, a, TRUE, again)
          \/ \E a \in mn.late :
                mn' = Handled([mn EXCEPT !.late = {}], chain, a, FALSE, again)
    /\ UNCHANGED <<chain, troubles>>

\* The difference is processed and the hash is not queued any more, or there
\* is no list: "we most likely wiped data in the meantime".
WipedMeanwhile(m, c) == Dequeued([m EXCEPT !.inRetrieval = {}], c)

\* The list is valid.
Valid(m, c, b) ==
    LET needed == {q \in Quorums[b] \cap c.has : q \notin m.known}
        done   == [m EXCEPT !.processing = None]
    IN  IF needed # {} /\ b \in m.queried
        THEN Dequeued([done EXCEPT !.queue = @ \cup needed], c)
        ELSE Dequeued([Kept(done, {b}) EXCEPT !.queue = @ \ {b}, !.faulty = 0], c)

\* The second half: the difference cannot be read, or not to its end, or its
\* list is valid or not.
Processed ==
    /\ mn.busy # None
    /\ LET b    == mn.busy.answer.block
           idle == [mn EXCEPT !.busy = None]
       IN  \/ Trouble /\ mn' = idle
           \/ Trouble /\ mn' = WipedMeanwhile(idle, chain)
           \/ /\ b \notin mn.queue
              /\ mn' = WipedMeanwhile(idle, chain)
              /\ UNCHANGED troubles
           \/ /\ b \in mn.queue
              /\ mn' = Valid(idle, chain, b)
              /\ UNCHANGED troubles
           \/ /\ b \in mn.queue
              /\ Trouble
              /\ \E again \in BOOLEAN :
                    mn' = Issue([idle EXCEPT !.processing = None], chain,
                                mn.busy.sent, again)
    /\ UNCHANGED chain

-----------------------------------------------------------------------------
(* The store.                                                              *)

\* The last list is saved, or an error makes everything start anew.
Saved ==
    /\ mn.saving
    /\ \/ /\ mn' = [mn EXCEPT !.saving = FALSE]
          /\ UNCHANGED troubles
       \/ /\ Trouble
          /\ \E more \in BOOLEAN :
                LET m == [mn EXCEPT !.saving = more]
                IN  mn' = IF mn.queue = {} THEN m
                          ELSE [Wiped(m) EXCEPT !.pending = @ \cup {"current"}]
    /\ UNCHANGED chain

\* removeOldMasternodeLists, after what is being saved: the lists go that no
\* quorum of a known list is of.  Without a current list its height is 0, and
\* 50 less is the highest number.
OldRemoved ==
    /\ mn.removing /\ ~mn.saving
    /\ LET inUse == UNION {Quorums[b] : b \in mn.known}
           old   == {b \in mn.known \ inUse : mn.current = None \/ b + Old < mn.current}
       IN  mn' = [mn EXCEPT !.known = @ \ old, !.removing = FALSE]
    /\ UNCHANGED <<chain, troubles>>

-----------------------------------------------------------------------------
(* The application.                                                        *)

\* startSync
StartSync ==
    /\ ~mn.wanted
    /\ mn' = [mn EXCEPT !.wanted = TRUE]
    /\ UNCHANGED <<chain, troubles>>

\* stopSync
StopSync ==
    /\ Trouble
    /\ mn' = [AllDisconnected(mn) EXCEPT !.phase = "Offline"]
    /\ UNCHANGED chain

\* wipeMasternodeDataForChain
WipeMasternodeData ==
    /\ Trouble
    /\ mn' = Wiped([AllDisconnected(mn) EXCEPT !.phase = "Offline"])
    /\ UNCHANGED chain

\* requestMasternodeListForBlockHash
RequestList ==
    /\ Trouble
    /\ \E b \in chain.has \ {0} :
          mn' = Dequeued([mn EXCEPT !.lastQueried = b,
                                    !.queried = @ \cup {b},
                                    !.queue = @ \cup {b}], chain)
    /\ UNCHANGED chain

-----------------------------------------------------------------------------

\* A first start, or one that finds the list of the tip in the store.
Init ==
    /\ \E lists \in {{}, {FirstTip}} :
          mn = [queue |-> {}, inRetrieval |-> {}, known |-> lists,
                current |-> IF lists = {} THEN None ELSE FirstTip,
                lastQueried |-> None, queried |-> {}, processing |-> None,
                busy |-> None, observer |-> None, faulty |-> 0, saving |-> FALSE,
                removing |-> FALSE, pending |-> {}, neglected |-> FALSE,
                phase |-> "Offline", usesList |-> FALSE, wanted |-> FALSE,
                connected |-> FALSE, download |-> FALSE, wire |-> {}, late |-> {}]
    /\ chain = [tip |-> FirstTip, syncTip |-> FirstTip, best |-> FirstTip,
                has |-> 0 .. FirstTip, terminal |-> 0 .. FirstTip]
    /\ troubles = 0

Environment == PeerLost \/ OthersLost \/ AnswerLost \/ BlockForgotten
Arrivals    == HeadersArrive \/ BlocksArrive \/ BlockArrives
Store       == Saved \/ OldRemoved
Application == StartSync \/ StopSync \/ WipeMasternodeData \/ RequestList

Next == \/ PeerConnects \/ Environment \/ Arrivals
        \/ RunStart \/ RunDequeue \/ RunCurrent \/ ObserverFires
        \/ Relayed \/ Processed
        \/ Store \/ Application

Spec == Init /\ [][Next]_vars

\* The queues and timers run, a peer is found again when one is wanted, and
\* it answers; headers and blocks arrive.
Fairness == /\ WF_vars(PeerConnects)
            /\ WF_vars(HeadersArrive)
            /\ WF_vars(RunStart) /\ WF_vars(RunDequeue) /\ WF_vars(RunCurrent)
            /\ WF_vars(ObserverFires)
            /\ WF_vars(Relayed) /\ WF_vars(Processed)

FairSpec == Spec /\ Fairness

-----------------------------------------------------------------------------
(* Properties.                                                             *)

\* The state of each variable, and what belongs together: only a connected
\* download peer is asked, at most one answer is late.
TypeOK ==
    /\ mn \in Managers /\ chain \in Chains
    /\ troubles \in 0 .. MaxTroubles
    /\ mn.download => mn.connected
    /\ mn.wire # {} => mn.download
    /\ Cardinality(mn.late) <= 1

\* While lists are wanted something will ask for them: the observer or a retry
\* (dequeueMasternodeListRequest, startTimeOutObserver).  Two ways in which
\* nothing does are set apart in mn.neglected, until something is asked for
\* again: the queue was given up while offline, or the observer found it empty
\* and ended while lists were in retrieval that nobody queues any more.
Driven ==
    mn.queue # {} =>
        mn.observer # None \/ "dequeue" \in mn.pending \/ mn.neglected

\* The four ways in which the queue is known to stay: neglected; a list that
\* is known is in it, which no answer takes out; the hash of an answer
\* that was never processed to its end keeps the observer from timing out; a
\* list whose block is in the store only is asked for and never accepted.
Stalled ==
    \/ mn.neglected
    \/ mn.queue \cap mn.known # {}
    \/ mn.processing \in mn.inRetrieval
    \/ (mn.queue \cap chain.has) \ chain.terminal # {}

\* While a connection is wanted every list that is asked for arrives.
Emptied == mn.queue # {} ~> (mn.queue = {} \/ Stalled \/ ~mn.wanted)

\* The sync goes past the headers and the lists, unless a block is missing:
\* when the last hashes of the queue leave it for that, nobody hears of it.
SyncGoesOn ==
    mn.phase = "InitialTerminalBlocks" /\ chain.terminal = 0 .. chain.tip
        ~> \/ mn.phase # "InitialTerminalBlocks" \/ Stalled \/ ~mn.wanted
           \/ chain.terminal # 0 .. chain.tip

\* What the sync waits for while the headers and the lists are fetched: lists,
\* more headers, a start or a dequeue that is to run, or the list of the tip that
\* is to be asked for.  Not claimed of a chain with a missing block, nor of the
\* genesis block alone, whose list is always taken to be there.
SyncHasNext ==
    mn.phase = "InitialTerminalBlocks" /\ mn.download
    /\ chain.has = 0 .. chain.tip /\ 0 < chain.tip
        => \/ mn.queue # {}
           \/ mn.pending \cap {"start", "dequeue"} # {}
           \/ chain.tip < chain.best
           \/ "current" \in mn.pending /\ chain.tip \notin mn.known

\* "last by height, not by time queried" (lastQueriedBlockHash): of the lists
\* that were queried and are known, the current one is the highest.
CurrentIsHighestQueried ==
    mn.current # None => \A b \in mn.known \cap mn.queried : b <= mn.current

=============================================================================
