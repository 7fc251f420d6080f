------------------------------ MODULE DSPublish ------------------------------
(***************************************************************************)
(* DSTransactionManager: transactions that are being published, the        *)
(* completions that wait to hear of them, which peers have relayed them,   *)
(* and the removal of those that no peer has.                              *)
(*                                                                         *)
(* Two threads share this state without a lock.  The main thread runs      *)
(* publishTransaction, the blocks dispatched to it (mainQueue, in order)   *)
(* and the timers; publishTransaction adds to the publish list and then    *)
(* leaves the completion, in two steps (publishing).  The networking queue *)
(* runs one callback of a peer at a time; those that look at               *)
(* publishedCallback read it, act on it and dispatch an answer, in three   *)
(* or four steps (handler).  Either thread may come in between the steps   *)
(* of the other.                                                           *)
(*                                                                         *)
(* Every transaction pays or spends an account of the wallet.  Timestamps, *)
(* which mark a transaction as verified, and the messages sent to peers    *)
(* are left out: a peer may announce or ask for anything.                  *)
(***************************************************************************)
EXTENDS Integers, Sequences, FiniteSets

CONSTANTS
  Txs,        \* transactions of the wallet
  Parents,    \* the transactions whose outputs one spends
  Sent,       \* those with amountSentByTransaction > 0
  Peers,
  Serving,    \* the peers that answer a mempool message
  Lingering,  \* the peers that another thread may disconnect while they read a message
  Requests,   \* calls of publishTransaction:completion:
  Nobody,     \* no completion
  Nothing,    \* no transaction
  Idle,       \* no callback of a peer runs, or no publication is under way
  MaxQueue    \* bound on the blocks that wait when a callback or a publication begins

ASSUME PublishAssumption ==
  /\ Parents \in [Txs -> SUBSET Txs]
  /\ Sent \subseteq Txs
  /\ Serving \subseteq Peers /\ Lingering \subseteq Peers
  /\ Nobody \notin Requests /\ Nothing \notin Txs
  /\ MaxQueue \in Nat

VARIABLES
  asked,              \* the transaction a request is about, once its completion is known
  told,               \* the verdicts its completion was called with
  publishedTx,        \* hashes of the transactions being published
  publishedCallback,  \* the completion that waits for a transaction
  txRelays,           \* peers that have relayed a transaction
  txRequests,         \* peers a transaction was requested from
  timer,              \* transactions with a pending txTimeout
  mainQueue,          \* blocks dispatched to the main thread
  pings,              \* pong handlers that wait: a peer and the hashes it was sent
  publishing,         \* the publication under way: a request, its transaction, the peers to send to
  handler,            \* the running callback of a peer
  listed,             \* transactions in an account
  confirmed,          \* those with a block height
  invalid,            \* those for which transactionIsValid fails
  connectedPeers,
  synced,             \* peers whose synced flag is set
  localRequests,      \* removeUnrelayedTransactionsLocalRequests.count, up to 2
  relayedMempool,     \* history: peers that relayed their mempool since they connected
  metPeers,           \* history: peers that have been connected
  late,               \* history: a peer, counted after its end, and the transaction it was counted for
  crossed             \* history: transactions whose publication crossed a callback or a confirmation

completions == <<asked, told>>
peerState == <<connectedPeers, synced, localRequests, relayedMempool, metPeers>>
history == <<late, crossed>>
vars == <<completions, publishedTx, publishedCallback, txRelays, txRequests, timer, mainQueue, pings,
          publishing, handler, listed, confirmed, invalid, peerState, history>>

-----------------------------------------------------------------------------
(* Transactions *)

\* The transactions addTransactionToPublishList adds: the given one, if it is new and unconfirmed,
\* and from there on the listed ones it spends, as far as they are new and unconfirmed too.
ToPublish(t, unconfirmed, list) ==
  LET new(u) == u \in unconfirmed /\ u \notin publishedTx
      closed(S) == /\ new(t) => t \in S
                   /\ \A u \in S : \A v \in Parents[u] \cap list : new(v) => v \in S
  IN {u \in Txs : \A S \in SUBSET Txs : closed(S) => u \in S}

\* removeTransaction takes the listed transactions that spend from a removed one as well.
WithDependents(removed) ==
  LET closed(S) == removed \subseteq S /\ \A u \in listed : Parents[u] \cap S # {} => u \in S
  IN {u \in listed : \A S \in SUBSET listed : closed(S) => u \in S}

Unconfirmed == Txs \ confirmed

\* A transaction, if its completion is set while a callback of a peer is about it, or if it leaves the
\* publish list between its addition and the setting of its completion.
Handling(t) == IF handler # Idle /\ handler.tx = t THEN {t} ELSE {}
Publishing(t) == IF publishing # Idle /\ publishing.tx = t THEN {t} ELSE {}

SendBlock(t, peers, hashes) == [type |-> "send", tx |-> t, peers |-> peers, hashes |-> hashes]
AnswerBlock(t, r, verdict) == [type |-> "answer", tx |-> t, request |-> r, verdict |-> verdict]

-----------------------------------------------------------------------------
(* The main thread *)

\* publishTransaction, not signed or not connected: the completion is called at once.
Refuse(r, t) ==
  /\ publishing = Idle
  /\ asked[r] = Nothing
  /\ asked' = [asked EXCEPT ![r] = t]
  /\ told' = [told EXCEPT ![r] = <<"refused">>]
  /\ UNCHANGED <<publishedTx, publishedCallback, txRelays, txRequests, timer, mainQueue, pings,
                 publishing, handler, listed, confirmed, invalid, peerState, history>>

\* The wallet registers a transaction it has signed and publishes it: the peers to send to are those
\* connected now, and the transaction goes on the publish list.
Publish(r, t) ==
  /\ publishing = Idle
  /\ asked[r] = Nothing
  /\ t \notin confirmed
  /\ Len(mainQueue) < MaxQueue
  /\ publishing' = [request |-> r, tx |-> t, peers |-> connectedPeers]
  /\ listed' = listed \cup {t}
  /\ publishedTx' = publishedTx \cup ToPublish(t, Unconfirmed, listed')
  /\ UNCHANGED <<completions, publishedCallback, txRelays, txRequests, timer, mainQueue, pings, handler,
                 confirmed, invalid, peerState, history>>

\* publishTransaction goes on: the completion waits, and the block that sends to all peers, or to all
\* but the download peer, is dispatched.
DispatchSend ==
  /\ publishing # Idle
  /\ LET t == publishing.tx r == publishing.request IN
       /\ asked' = [asked EXCEPT ![r] = t]
       /\ publishedCallback' = [publishedCallback EXCEPT ![t] = r]
       /\ \E left \in {{}} \cup {{p} : p \in connectedPeers} :
            /\ left # {} => Cardinality(connectedPeers) > 1
            /\ mainQueue' = Append(mainQueue, SendBlock(t, publishing.peers \ left, publishedTx))
       /\ crossed' = crossed \cup Handling(t)
  /\ publishing' = Idle
  /\ UNCHANGED <<told, publishedTx, txRelays, txRequests, timer, pings, handler, listed, confirmed,
                 invalid, peerState, late>>

\* Mutant: no timer when no peer is connected any more.
RunSendWhenConnected ==
  /\ publishing = Idle
  /\ mainQueue # <<>>
  /\ LET b == Head(mainQueue) IN
       /\ b.type = "send"
       /\ timer' = IF b.peers \cap connectedPeers = {} THEN timer ELSE timer \cup {b.tx}
       /\ pings' = pings \cup ((b.peers \cap connectedPeers) \X {b.hashes})
  /\ mainQueue' = Tail(mainQueue)
  /\ UNCHANGED <<completions, publishedTx, publishedCallback, txRelays, txRequests, publishing,
                 handler, listed, confirmed, invalid, peerState, history>>

\* The block of publishTransaction: start the timer, send to the peers that are still connected.
RunSend ==
  /\ publishing = Idle
  /\ mainQueue # <<>>
  /\ LET b == Head(mainQueue) IN
       /\ b.type = "send"
       /\ timer' = timer \cup {b.tx}
       /\ pings' = pings \cup ((b.peers \cap connectedPeers) \X {b.hashes})
  /\ mainQueue' = Tail(mainQueue)
  /\ UNCHANGED <<completions, publishedTx, publishedCallback, txRelays, txRequests, publishing,
                 handler, listed, confirmed, invalid, peerState, history>>

\* Mutant: an error is not reported.
RunAnswerUnlessError ==
  /\ publishing = Idle
  /\ mainQueue # <<>>
  /\ LET b == Head(mainQueue) IN
       /\ b.type = "answer"
       /\ timer' = timer \ {b.tx}
       /\ told' = IF b.request = Nobody \/ b.verdict # "ok" THEN told
                  ELSE [told EXCEPT ![b.request] = Append(@, b.verdict)]
       /\ listed' = IF b.request # Nobody /\ b.verdict = "ok" THEN listed \cup {b.tx} ELSE listed
  /\ mainQueue' = Tail(mainQueue)
  /\ UNCHANGED <<asked, publishedTx, publishedCallback, txRelays, txRequests, pings, publishing,
                 handler, confirmed, invalid, peerState, history>>

\* The block of a peer's callback: stop the timers of the transaction, call the completion the
\* callback had read.  The wallet's completion registers the transaction again.
RunAnswer ==
  /\ publishing = Idle
  /\ mainQueue # <<>>
  /\ LET b == Head(mainQueue) IN
       /\ b.type = "answer"
       /\ timer' = timer \ {b.tx}
       /\ told' = IF b.request = Nobody THEN told
                  ELSE [told EXCEPT ![b.request] = Append(@, b.verdict)]
       /\ listed' = IF b.request # Nobody /\ b.verdict = "ok" THEN listed \cup {b.tx} ELSE listed
  /\ mainQueue' = Tail(mainQueue)
  /\ UNCHANGED <<asked, publishedTx, publishedCallback, txRelays, txRequests, pings, publishing,
                 handler, confirmed, invalid, peerState, history>>

\* Mutant: the timer does nothing when it fires.
TxTimeoutIgnored(t) ==
  /\ publishing = Idle
  /\ t \in timer
  /\ timer' = timer \ {t}
  /\ UNCHANGED <<completions, publishedTx, publishedCallback, txRelays, txRequests, mainQueue, pings,
                 publishing, handler, listed, confirmed, invalid, peerState, history>>

TxTimeout(t) ==
  /\ publishing = Idle
  /\ t \in timer
  /\ timer' = timer \ {t}
  /\ publishedTx' = publishedTx \ {t}
  /\ publishedCallback' = [publishedCallback EXCEPT ![t] = Nobody]
  /\ told' = IF publishedCallback[t] = Nobody THEN told
             ELSE [told EXCEPT ![publishedCallback[t]] = Append(@, "timeout")]
  /\ UNCHANGED <<asked, txRelays, txRequests, mainQueue, pings, publishing, handler, listed,
                 confirmed, invalid, peerState, history>>

\* chainWasWiped: the accounts are emptied as well.
ChainWasWiped ==
  /\ publishing = Idle
  /\ txRelays' = [t \in Txs |-> {}]
  /\ publishedTx' = {}
  /\ publishedCallback' = [t \in Txs |-> Nobody]
  /\ listed' = {} /\ confirmed' = {} /\ invalid' = {}
  /\ UNCHANGED <<completions, txRequests, timer, mainQueue, pings, publishing, handler, peerState,
                 history>>

-----------------------------------------------------------------------------
(* Callbacks of peers *)

\* A callback begins: it reads whether the chain is syncing, and the completion.  A peer announces
\* or asks for a transaction that is being published or is in an account, and relays any.  Only the
\* announcement of a peer that is gone is dropped: what else it was reading at its end comes after it.
Receive(kind, p, t) ==
  /\ handler = Idle
  /\ Len(mainQueue) < MaxQueue
  /\ p \in connectedPeers \cup IF kind = "has" THEN {} ELSE metPeers \cap Lingering
  /\ kind # "relayed" => t \in publishedTx \cup listed
  /\ \E syncing \in BOOLEAN :
       handler' = [kind |-> kind, peer |-> p, tx |-> t, syncing |-> syncing,
                   callback |-> publishedCallback[t], verdict |-> "none"]
  /\ UNCHANGED <<completions, publishedTx, publishedCallback, txRelays, txRequests, timer, mainQueue,
                 pings, publishing, listed, confirmed, invalid, peerState, history>>

\* Mutant: the completion stays in the table after it was read.
KeepCallback(t) == publishedCallback' = publishedCallback

\* Forgets the completion, unless there was none when the callback began: by now it may be another.
ForgetCallback(t) ==
  publishedCallback' = IF handler.callback = Nobody THEN publishedCallback
                       ELSE [publishedCallback EXCEPT ![t] = Nobody]

NoMoreRequested(p, t) == txRequests' = [txRequests EXCEPT ![t] = @ \ {p}]

\* hasTransactionWithHash and relayedTransaction register the transaction, the latter also publishes
\* it when it is valid and the wallet's own (the object just received has no height).
RegisterRelayed(kind, t) ==
  /\ listed' = listed \cup {t}
  /\ publishedTx' = IF kind = "relayed" /\ t \in Sent \ invalid
                    THEN publishedTx \cup ToPublish(t, Unconfirmed \cup {t}, listed')
                    ELSE publishedTx

\* A peer is counted for a transaction, though it may be gone.
Count(p, t) ==
  /\ txRelays' = [txRelays EXCEPT ![t] = @ \cup {p}]
  /\ late' = IF p \in connectedPeers THEN late ELSE late \cup {<<p, t>>}

\* A peer has or relays a transaction, and is counted.
Relayed ==
  /\ handler # Idle
  /\ handler.kind \in {"has", "relayed"} /\ handler.verdict = "none"
  /\ LET t == handler.tx p == handler.peer IN
       /\ RegisterRelayed(handler.kind, t)
       /\ handler.callback # Nobody \/ (~handler.syncing /\ p \notin txRelays[t])
       /\ Count(p, t)
       /\ ForgetCallback(t)
       /\ handler' = [handler EXCEPT !.verdict = "ok"]
  /\ UNCHANGED <<completions, txRequests, timer, mainQueue, pings, publishing, confirmed, invalid,
                 peerState, crossed>>

\* A peer has or relays a transaction that it was counted for, or during the sync.
RelayedAgain ==
  /\ handler # Idle
  /\ handler.kind \in {"has", "relayed"} /\ handler.verdict = "none"
  /\ LET t == handler.tx p == handler.peer IN
       /\ RegisterRelayed(handler.kind, t)
       /\ handler.callback = Nobody /\ (handler.syncing \/ p \in txRelays[t])
       /\ NoMoreRequested(p, t)
  /\ handler' = Idle
  /\ UNCHANGED <<completions, publishedCallback, txRelays, timer, mainQueue, pings, publishing,
                 confirmed, invalid, peerState, history>>

\* requestedTransaction: a peer asks for a transaction and is counted, the completion is forgotten.
Requested ==
  /\ handler # Idle
  /\ handler.kind = "requested" /\ handler.verdict = "none"
  /\ LET t == handler.tx IN
       /\ Count(handler.peer, t)
       /\ publishedCallback' = [publishedCallback EXCEPT ![t] = Nobody]
       /\ handler' = [handler EXCEPT !.verdict = "counted"]
  /\ UNCHANGED <<completions, publishedTx, txRequests, timer, mainQueue, pings, publishing, listed,
                 confirmed, invalid, peerState, crossed>>

\* Then a completion that waited hears of a double spend, and the transaction leaves the publish list;
\* any other is registered.
Validated ==
  /\ handler # Idle
  /\ handler.verdict = "counted"
  /\ LET t == handler.tx
         doubleSpend == handler.callback # Nobody /\ t \in invalid
     IN /\ publishedTx' = IF doubleSpend THEN publishedTx \ {t} ELSE publishedTx
        /\ listed' = IF doubleSpend THEN listed ELSE listed \cup {t}
        /\ handler' = [handler EXCEPT !.verdict = IF doubleSpend THEN "doubleSpend" ELSE "ok"]
        /\ crossed' = IF doubleSpend THEN crossed \cup Publishing(t) ELSE crossed
  /\ UNCHANGED <<completions, publishedCallback, txRelays, txRequests, timer, mainQueue, pings,
                 publishing, confirmed, invalid, peerState, late>>

\* The callback ends by dispatching the answer to the main thread.
DispatchAnswer ==
  /\ handler # Idle
  /\ handler.verdict \in {"ok", "doubleSpend"}
  /\ mainQueue' = Append(mainQueue, AnswerBlock(handler.tx, handler.callback, handler.verdict))
  /\ IF handler.kind = "requested" THEN UNCHANGED txRequests
     ELSE NoMoreRequested(handler.peer, handler.tx)
  /\ handler' = Idle
  /\ UNCHANGED <<completions, publishedTx, publishedCallback, txRelays, timer, pings, publishing,
                 listed, confirmed, invalid, peerState, history>>

\* The pong after a published transaction: what the peer has not relayed is requested back from it.
Pong(ping) ==
  /\ handler = Idle
  /\ ping \in pings
  /\ pings' = pings \ {ping}
  /\ txRequests' = [t \in Txs |-> IF t \in ping[2] /\ ping[1] \notin txRelays[t]
                                  THEN txRequests[t] \cup {ping[1]} ELSE txRequests[t]]
  /\ UNCHANGED <<completions, publishedTx, publishedCallback, txRelays, timer, mainQueue, publishing,
                 handler, listed, confirmed, invalid, peerState, history>>

\* relayedNotFoundMessages and rejectedTransaction, from a peer that may be gone
NotFoundOrRejected(p, t) ==
  /\ handler = Idle
  /\ p \in connectedPeers \cup (metPeers \cap Lingering)
  /\ txRelays' = [txRelays EXCEPT ![t] = @ \ {p}]
  /\ NoMoreRequested(p, t)
  /\ UNCHANGED <<completions, publishedTx, publishedCallback, timer, mainQueue, pings, publishing,
                 handler, listed, confirmed, invalid, peerState, history>>

\* What removeUnrelayedTransactions removes first: unconfirmed, nobody waits, no peer has it.
Unrelayed == {t \in listed \ confirmed : /\ publishedCallback[t] = Nobody
                                         /\ txRelays[t] = {} /\ txRequests[t] = {}}

\* Enough mempools have been relayed: by two peers (or twice by one), and every connected peer is
\* marked as synced.
RemoveNow == localRequests >= 1 /\ connectedPeers \subseteq synced'

\* Mutant: localRequests is not emptied after a removal.
MempoolRelayedNoReset(p) ==
  /\ handler = Idle
  /\ p \in connectedPeers \cap Serving
  /\ synced' = synced \cup {p}
  /\ relayedMempool' = relayedMempool \cup {p}
  /\ localRequests' = localRequests + 1
  /\ listed' = IF RemoveNow THEN listed \ WithDependents(Unrelayed) ELSE listed
  /\ UNCHANGED <<completions, publishedTx, publishedCallback, txRelays, txRequests, timer, mainQueue,
                 pings, publishing, handler, confirmed, invalid, connectedPeers, metPeers, history>>

\* The completion of a mempool message: the peer is synced, then removeUnrelayedTransactions.
MempoolRelayed(p) ==
  /\ handler = Idle
  /\ p \in connectedPeers \cap Serving
  /\ synced' = synced \cup {p}
  /\ relayedMempool' = relayedMempool \cup {p}
  /\ localRequests' = IF RemoveNow THEN 0 ELSE IF localRequests = 0 THEN 1 ELSE 2
  /\ listed' = IF RemoveNow THEN listed \ WithDependents(Unrelayed) ELSE listed
  /\ UNCHANGED <<completions, publishedTx, publishedCallback, txRelays, txRequests, timer, mainQueue,
                 pings, publishing, handler, confirmed, invalid, connectedPeers, metPeers, history>>

-----------------------------------------------------------------------------
(* Peers come and go, blocks come *)

Connect(p) ==
  /\ handler = Idle
  /\ p \notin connectedPeers
  /\ connectedPeers' = connectedPeers \cup {p}
  /\ metPeers' = metPeers \cup {p}
  /\ UNCHANGED <<completions, publishedTx, publishedCallback, txRelays, txRequests, timer, mainQueue,
                 pings, publishing, handler, listed, confirmed, invalid, synced, localRequests,
                 relayedMempool, history>>

\* Mutant: clearTransactionRelaysForPeer is not called.
DisconnectKeepingRelays(p) ==
  /\ handler = Idle
  /\ p \in connectedPeers
  /\ connectedPeers' = connectedPeers \ {p}
  /\ pings' = {ping \in pings : ping[1] # p}
  /\ relayedMempool' = relayedMempool \ {p}
  /\ late' = {l \in late : l[1] # p}
  /\ UNCHANGED <<completions, publishedTx, publishedCallback, txRelays, txRequests, timer, mainQueue,
                 publishing, handler, listed, confirmed, invalid, synced, localRequests, metPeers,
                 crossed>>

\* The peer manager clears the relays of a peer that disconnects; its pong handlers fail.
Disconnect(p) ==
  /\ handler = Idle
  /\ p \in connectedPeers
  /\ connectedPeers' = connectedPeers \ {p}
  /\ txRelays' = [t \in Txs |-> txRelays[t] \ {p}]
  /\ pings' = {ping \in pings : ping[1] # p}
  /\ relayedMempool' = relayedMempool \ {p}
  /\ late' = {l \in late : l[1] # p}
  /\ UNCHANGED <<completions, publishedTx, publishedCallback, txRequests, timer, mainQueue, publishing,
                 handler, listed, confirmed, invalid, synced, localRequests, metPeers, crossed>>

\* Mutant: the completion of a confirmed transaction keeps waiting.
ConfirmKeepingCallback(t) ==
  /\ handler = Idle
  /\ t \in listed \ (confirmed \cup invalid)
  /\ confirmed' = confirmed \cup {t}
  /\ publishedTx' = publishedTx \ {t}
  /\ txRelays' = [txRelays EXCEPT ![t] = {}]
  /\ crossed' = crossed \cup Publishing(t)
  /\ UNCHANGED <<completions, publishedCallback, txRequests, timer, mainQueue, pings, publishing,
                 handler, listed, invalid, peerState, late>>

\* didSetBlockHeight: a block has the transaction, its completion is dropped.
Confirm(t) ==
  /\ handler = Idle
  /\ t \in listed \ (confirmed \cup invalid)
  /\ confirmed' = confirmed \cup {t}
  /\ publishedTx' = publishedTx \ {t}
  /\ publishedCallback' = [publishedCallback EXCEPT ![t] = Nobody]
  /\ txRelays' = [txRelays EXCEPT ![t] = {}]
  /\ crossed' = crossed \cup Publishing(t)
  /\ UNCHANGED <<completions, txRequests, timer, mainQueue, pings, publishing, handler, listed,
                 invalid, peerState, late>>

\* A reorganisation takes the block back.
Unconfirm(t) ==
  /\ handler = Idle
  /\ t \in confirmed
  /\ confirmed' = confirmed \ {t}
  /\ UNCHANGED <<completions, publishedTx, publishedCallback, txRelays, txRequests, timer, mainQueue,
                 pings, publishing, handler, listed, invalid, peerState, history>>

\* A transaction that spends the same output is confirmed.
Conflict(t) ==
  /\ handler = Idle
  /\ t \in listed \ (confirmed \cup invalid)
  /\ invalid' = invalid \cup {t}
  /\ UNCHANGED <<completions, publishedTx, publishedCallback, txRelays, txRequests, timer, mainQueue,
                 pings, publishing, handler, listed, confirmed, peerState, history>>

-----------------------------------------------------------------------------
(* The specification *)

\* The app starts with the transactions of the wallet; recreatePublishedTransactionList publishes
\* the unconfirmed ones.
Init ==
  /\ asked = [r \in Requests |-> Nothing]
  /\ told = [r \in Requests |-> <<>>]
  /\ listed \in SUBSET Txs
  /\ confirmed \in SUBSET listed
  /\ publishedTx = listed \ confirmed
  /\ publishedCallback = [t \in Txs |-> Nobody]
  /\ txRelays = [t \in Txs |-> {}]
  /\ txRequests = [t \in Txs |-> {}]
  /\ timer = {} /\ mainQueue = <<>> /\ pings = {}
  /\ publishing = Idle /\ handler = Idle
  /\ invalid = {}
  /\ connectedPeers = {} /\ synced = {} /\ localRequests = 0
  /\ relayedMempool = {} /\ metPeers = {} /\ late = {} /\ crossed = {}

Main == DispatchSend \/ RunSend \/ RunAnswer
Callback == Relayed \/ RelayedAgain \/ Requested \/ Validated \/ DispatchAnswer

Next ==
  \/ \E r \in Requests, t \in Txs : Refuse(r, t) \/ Publish(r, t)
  \/ Main
  \/ \E t \in Txs : TxTimeout(t)
  \/ ChainWasWiped
  \/ \E kind \in {"has", "relayed", "requested"}, p \in Peers, t \in Txs : Receive(kind, p, t)
  \/ Callback
  \/ \E ping \in pings : Pong(ping)
  \/ \E p \in Peers, t \in Txs : NotFoundOrRejected(p, t)
  \/ \E p \in Peers : MempoolRelayed(p) \/ Connect(p) \/ Disconnect(p)
  \/ \E t \in Txs : Confirm(t) \/ Unconfirm(t) \/ Conflict(t)

\* The main thread and the networking queue run what they are given, and timers fire.
Fairness == WF_vars(Main) /\ WF_vars(Callback) /\ \A t \in Txs : WF_vars(TxTimeout(t))

Spec == Init /\ [][Next]_vars /\ Fairness

-----------------------------------------------------------------------------
(* Properties *)

Blocks == [type : {"send"}, tx : Txs, peers : SUBSET Peers, hashes : SUBSET Txs]
          \cup [type : {"answer"}, tx : Txs, request : Requests \cup {Nobody},
                verdict : {"ok", "doubleSpend"}]

Handlers == [kind : {"has", "relayed", "requested"}, peer : Peers, tx : Txs, syncing : BOOLEAN,
             callback : Requests \cup {Nobody}, verdict : {"none", "counted", "ok", "doubleSpend"}]

Publications == [request : Requests, tx : Txs, peers : SUBSET Peers]

\* That nothing runs is told from anything that does.
ASSUME IdleAssumption == Idle \notin Handlers \cup Publications

\* Types of the variables of DSTransactionManager and of the queues around it.
TypeOK ==
  /\ asked \in [Requests -> Txs \cup {Nothing}]
  /\ told \in [Requests -> Seq({"refused", "timeout", "ok", "doubleSpend"})]
  /\ publishedTx \subseteq Txs
  /\ publishedCallback \in [Txs -> Requests \cup {Nobody}]
  /\ txRelays \in [Txs -> SUBSET Peers]
  /\ txRequests \in [Txs -> SUBSET Peers]
  /\ timer \subseteq Txs
  /\ mainQueue \in Seq(Blocks)
  /\ pings \subseteq Peers \X SUBSET Txs
  /\ publishing \in Publications \cup {Idle}
  /\ handler \in Handlers \cup {Idle}
  /\ listed \subseteq Txs
  /\ confirmed \subseteq Txs
  /\ invalid \subseteq Txs
  /\ connectedPeers \subseteq Peers
  /\ synced \subseteq Peers
  /\ localRequests \in 0 .. 2
  /\ relayedMempool \subseteq Peers
  /\ metPeers \subseteq Peers
  /\ late \subseteq Peers \X Txs
  /\ crossed \subseteq Txs

\* A transaction somebody waits for has a timer, or the block that starts one is still to run
\* (publishTransaction, and the blocks that cancel txTimeout), unless its completion was set while a
\* callback dealt with it.
TimeoutPending ==
  \A t \in Txs \ crossed :
    publishedCallback[t] # Nobody =>
      \/ t \in timer
      \/ \E i \in 1 .. Len(mainQueue) : mainQueue[i].type = "send" /\ mainQueue[i].tx = t

\* A transaction somebody waits for is on the publish list, so that a peer that asks for it is served
\* (requestedTransaction), also when the removal of an unrelayed parent took it from its account;
\* unless a block or a double spend took it off the list before its completion was set, or the
\* completion was set while a callback dealt with it.
WaitedForIsPublished ==
  \A t \in Txs \ crossed : publishedCallback[t] # Nobody => t \in publishedTx

\* relayCountForTransaction: the number of connected peers that have relayed the transaction.
RelaysOfConnectedPeers == \A t \in Txs : txRelays[t] \subseteq connectedPeers

\* A peer stays counted after its end (clearTransactionRelaysForPeer) only for a transaction that a
\* callback of it was about that came after the end.
OnlyLatePeersStayCounted ==
  \A t \in Txs : \A p \in txRelays[t] : p \in connectedPeers \/ <<p, t>> \in late

\* Where a request can still be answered from: the callback table, the running callback of a peer or
\* the main thread's queue.
Held(r) ==
  \/ \E t \in Txs : publishedCallback[t] = r
  \/ handler # Idle /\ handler.callback = r
  \/ \E i \in 1 .. Len(mainQueue) : mainQueue[i].type = "answer" /\ mainQueue[i].request = r

\* The outcome of a request about t, as the module Completion names it, from what its completion was
\* told and whether it can still be answered; "broken" is none of the outcomes.
OutcomeOf(verdicts, t, held) ==
  CASE verdicts = <<>> /\ t = Nothing -> "idle"
    [] verdicts = <<>> /\ t # Nothing /\ held -> "waiting"
    [] verdicts = <<>> /\ t # Nothing /\ ~held -> "forgotten"
    [] verdicts = <<"refused">> -> "refused"
    [] verdicts = <<"timeout">> -> "timedOut"
    [] verdicts \in {<<"ok">>, <<"doubleSpend">>, <<"timeout", "ok">>, <<"timeout", "doubleSpend">>}
         -> "answered"
    [] OTHER -> "broken"

Outcome(r) == OutcomeOf(told[r], asked[r], Held(r))

\* publishTransaction:completion: implements Completion: nobody is told twice, an answered request
\* is not told that time ran out, whatever the main thread does while a peer's callback runs.
CompletionIsKept == INSTANCE Completion WITH outcome <- [r \in Requests |-> Outcome(r)]
CompletionSpec == CompletionIsKept!Spec

\* A request is only forgotten when another one takes its place, when its transaction is confirmed,
\* when the chain is wiped, or when a completion was set for its transaction during a callback.
ForgottenForAReason ==
  [][\A r \in Requests :
       Outcome(r) = "waiting" /\ Outcome(r)' = "forgotten" =>
         \/ \E q \in Requests : asked[q] = Nothing /\ asked'[q] = asked[r]
         \/ asked[r] \in confirmed' \ confirmed
         \/ ChainWasWiped
         \/ asked[r] \in crossed]_vars

\* Every request comes to an end: the timer, the main thread's queue and the callbacks see to it,
\* unless a completion was set for the transaction during a callback.
EveryRequestEnds ==
  \A r \in Requests :
    Outcome(r) = "waiting" ~> Outcome(r) # "waiting" \/ asked[r] \in crossed

\* removeUnrelayedTransactionsFromPeer does not remove a transaction until all connected peers have
\* finished relaying their mempools.
RemovalWaitsForMempools ==
  [][localRequests > 0 /\ localRequests' = 0 => connectedPeers \subseteq relayedMempool']_vars
=============================================================================
