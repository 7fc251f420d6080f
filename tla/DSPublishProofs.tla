--------------------------- MODULE DSPublishProofs ---------------------------
(***************************************************************************)
(* Proofs about DSPublish: the types, the relays, the timers, the publish  *)
(* list, that every request for a publication keeps to Completion, and why *)
(* one is forgotten.                                                       *)
(***************************************************************************)
EXTENDS DSPublish, SequenceTheorems, TLAPS

-----------------------------------------------------------------------------
(* The queue of the main thread *)

\* What the tail of a queue holds.
LEMMA TailElements ==
  ASSUME NEW S, NEW q \in Seq(S), q # <<>>
  PROVE  /\ Head(q) \in S /\ Tail(q) \in Seq(S)
         /\ Len(q) \in Nat /\ Len(q) >= 1
         /\ Head(q) = q[1]
         /\ Len(Tail(q)) = Len(q) - 1
         /\ \A i \in 1 .. Len(Tail(q)) : Tail(q)[i] = q[i + 1]
  BY HeadTailProperties, EmptySeq, LenProperties

\* What a longer queue holds.
LEMMA AppendElements ==
  ASSUME NEW S, NEW q \in Seq(S), NEW e \in S
  PROVE  /\ Append(q, e) \in Seq(S)
         /\ Len(q) \in Nat
         /\ Len(Append(q, e)) = Len(q) + 1
         /\ \A i \in 1 .. Len(q) : Append(q, e)[i] = q[i]
         /\ Append(q, e)[Len(q) + 1] = e
  BY AppendProperties, LenProperties

\* The blocks the model makes are blocks.
LEMMA BlockTypes ==
  ASSUME NEW t \in Txs
  PROVE  /\ \A P \in SUBSET Peers, H \in SUBSET Txs :
              /\ SendBlock(t, P, H) \in Blocks
              /\ SendBlock(t, P, H).type = "send"
              /\ SendBlock(t, P, H).tx = t
         /\ \A r \in Requests \cup {Nobody}, v \in {"ok", "doubleSpend"} :
              /\ AnswerBlock(t, r, v) \in Blocks
              /\ AnswerBlock(t, r, v).type = "answer"
              /\ AnswerBlock(t, r, v).tx = t
              /\ AnswerBlock(t, r, v).request = r
              /\ AnswerBlock(t, r, v).verdict = v
  BY DEF SendBlock, AnswerBlock, Blocks

\* What a block of the main queue holds, by its type.
LEMMA BlockFields ==
  ASSUME NEW b \in Blocks
  PROVE  /\ b.type \in {"send", "answer"}
         /\ b.tx \in Txs
         /\ b.type = "send" => b.peers \in SUBSET Peers /\ b.hashes \in SUBSET Txs
         /\ b.type = "answer" => b.request \in Requests \cup {Nobody}
                                 /\ b.verdict \in {"ok", "doubleSpend"}
  BY DEF Blocks

-----------------------------------------------------------------------------
(* Type correctness *)

Verdicts == {"refused", "timeout", "ok", "doubleSpend"}

\* Calling a completion appends to what it was told.
LEMMA ToldType ==
  ASSUME told \in [Requests -> Seq(Verdicts)], NEW r \in Requests, NEW v \in Verdicts
  PROVE  [told EXCEPT ![r] = Append(@, v)] \in [Requests -> Seq(Verdicts)]
<1>1. told[r] \in Seq(Verdicts)
  OBVIOUS
<1>2. Append(told[r], v) \in Seq(Verdicts)
  BY <1>1, AppendProperties
<1>3. QED
  BY <1>2

\* What a callback may publish and what a removal takes are transactions.
LEMMA TransactionSets ==
  /\ \A t, U, L : ToPublish(t, U, L) \subseteq Txs
  /\ \A R : WithDependents(R) \subseteq listed
BY DEF ToPublish, WithDependents

\* A running callback, and what it becomes when it has a verdict.
LEMMA HandlerType ==
  ASSUME handler \in Handlers \cup {Idle}, handler # Idle
  PROVE  /\ handler \in Handlers
         /\ handler.peer \in Peers /\ handler.tx \in Txs
         /\ handler.callback \in Requests \cup {Nobody}
         /\ handler.verdict \in {"none", "counted", "ok", "doubleSpend"}
         /\ \A v \in {"counted", "ok", "doubleSpend"} :
              /\ [handler EXCEPT !.verdict = v] \in Handlers
              /\ [handler EXCEPT !.verdict = v].tx = handler.tx
              /\ [handler EXCEPT !.verdict = v].peer = handler.peer
              /\ [handler EXCEPT !.verdict = v].kind = handler.kind
              /\ [handler EXCEPT !.verdict = v].callback = handler.callback
              /\ [handler EXCEPT !.verdict = v].verdict = v
BY DEF Handlers

\* The publication under way.
LEMMA PublishingType ==
  ASSUME publishing \in Publications \cup {Idle}, publishing # Idle
  PROVE  publishing.request \in Requests /\ publishing.tx \in Txs /\ publishing.peers \in SUBSET Peers
BY DEF Publications

\* What the second step of publishTransaction does.
LEMMA DispatchSendFacts ==
  ASSUME TypeOK, DispatchSend
  PROVE  \E r \in Requests, t \in Txs, b \in Blocks :
           /\ publishing # Idle /\ publishing.request = r /\ publishing.tx = t /\ publishing' = Idle
           /\ b.type = "send" /\ b.tx = t
           /\ mainQueue' = Append(mainQueue, b)
           /\ asked' = [asked EXCEPT ![r] = t]
           /\ publishedCallback' = [publishedCallback EXCEPT ![t] = r]
           /\ crossed' = crossed \cup Handling(t)
           /\ UNCHANGED <<told, timer, handler, publishedTx>>
<1>1. PICK r \in Requests, t \in Txs :
        /\ publishing.request = r /\ publishing.tx = t /\ publishing.peers \in SUBSET Peers
  BY PublishingType DEF DispatchSend, TypeOK
<1>2. PICK P \in SUBSET Peers : mainQueue' = Append(mainQueue, SendBlock(t, P, publishedTx))
  BY <1>1 DEF DispatchSend
<1>3. PICK b \in Blocks : b = SendBlock(t, P, publishedTx) /\ b.type = "send" /\ b.tx = t
  BY <1>1, BlockTypes DEF TypeOK
<1>4. QED
  BY <1>1, <1>2, <1>3 DEF DispatchSend

\* Init establishes the types.
LEMMA TypeInit == Init => TypeOK
<1>1. <<>> \in Seq(Verdicts) /\ <<>> \in Seq(Blocks)
  BY EmptySeq
<1>2. QED
  BY <1>1 DEF Init, TypeOK, Verdicts

\* The main thread keeps the types.
LEMMA TypeMain ==
  ASSUME TypeOK, Main \/ ChainWasWiped \/ (\E t \in Txs : TxTimeout(t))
                 \/ (\E r \in Requests, t \in Txs : Refuse(r, t) \/ Publish(r, t))
  PROVE  TypeOK'
<1> USE DEF TypeOK, completions, peerState, history, Verdicts
<1>1. ASSUME NEW r \in Requests, NEW t \in Txs, Refuse(r, t) PROVE TypeOK'
  <2>1. <<"refused">> \in Seq(Verdicts)
    OBVIOUS
  <2>2. told' \in [Requests -> Seq(Verdicts)] /\ asked' \in [Requests -> Txs \cup {Nothing}]
    BY <1>1, <2>1 DEF Refuse
  <2>3. QED
    BY <1>1, <2>2 DEF Refuse
<1>2. ASSUME NEW r \in Requests, NEW t \in Txs, Publish(r, t) PROVE TypeOK'
  <2>1. listed' \subseteq Txs /\ publishedTx' \subseteq Txs
    BY <1>2, TransactionSets DEF Publish
  <2>2. publishing' \in Publications
    BY <1>2 DEF Publish, Publications
  <2>3. QED
    BY <1>2, <2>1, <2>2 DEF Publish
<1>3. ASSUME DispatchSend PROVE TypeOK'
  <2>1. PICK r \in Requests, t \in Txs, b \in Blocks :
          /\ mainQueue' = Append(mainQueue, b)
          /\ asked' = [asked EXCEPT ![r] = t]
          /\ publishedCallback' = [publishedCallback EXCEPT ![t] = r]
          /\ crossed' = crossed \cup Handling(t)
    BY <1>3, DispatchSendFacts
  <2>2. mainQueue' \in Seq(Blocks)
    BY <2>1, AppendElements
  <2>3. Handling(t) \subseteq Txs
    BY DEF Handling
  <2>4. /\ asked' \in [Requests -> Txs \cup {Nothing}]
        /\ publishedCallback' \in [Txs -> Requests \cup {Nobody}]
        /\ crossed' \subseteq Txs
    BY <2>1, <2>3
  <2>5. /\ publishing' = Idle
        /\ UNCHANGED <<told, publishedTx, txRelays, txRequests, timer, pings, handler, listed,
                       confirmed, invalid, peerState, late>>
    BY <1>3 DEF DispatchSend
  <2>6. QED
    BY <2>2, <2>4, <2>5
<1>4. ASSUME RunSend PROVE TypeOK'
  <2>1. Head(mainQueue) \in Blocks /\ mainQueue' \in Seq(Blocks)
    BY <1>4, TailElements DEF RunSend
  <2>2. timer' \subseteq Txs /\ pings' \subseteq Peers \X SUBSET Txs
    BY <1>4, <2>1, BlockFields DEF RunSend
  <2>3. QED
    BY <1>4, <2>1, <2>2 DEF RunSend
<1>5. ASSUME RunAnswer PROVE TypeOK'
  <2>1. Head(mainQueue) \in Blocks /\ mainQueue' \in Seq(Blocks)
    BY <1>5, TailElements DEF RunAnswer
  <2>2. timer' \subseteq Txs /\ listed' \subseteq Txs
    BY <1>5, <2>1, BlockFields DEF RunAnswer
  <2>3. told' \in [Requests -> Seq(Verdicts)]
    <3>1. CASE Head(mainQueue).request = Nobody
      BY <1>5, <3>1 DEF RunAnswer
    <3>2. CASE Head(mainQueue).request # Nobody
      <4>1. Head(mainQueue).request \in Requests /\ Head(mainQueue).verdict \in Verdicts
        BY <1>5, <2>1, <3>2, BlockFields DEF RunAnswer
      <4>2. QED
        BY <1>5, <3>2, <4>1, ToldType DEF RunAnswer
    <3>3. QED
      BY <3>1, <3>2
  <2>4. QED
    BY <1>5, <2>1, <2>2, <2>3 DEF RunAnswer
<1>6. ASSUME NEW t \in Txs, TxTimeout(t) PROVE TypeOK'
  <2>1. told' \in [Requests -> Seq(Verdicts)]
    <3>1. CASE publishedCallback[t] = Nobody
      BY <1>6, <3>1 DEF TxTimeout
    <3>2. CASE publishedCallback[t] # Nobody
      <4>1. publishedCallback[t] \in Requests /\ "timeout" \in Verdicts
        BY <3>2
      <4>2. QED
        BY <1>6, <3>2, <4>1, ToldType DEF TxTimeout
    <3>3. QED
      BY <3>1, <3>2
  <2>2. /\ publishedCallback' \in [Txs -> Requests \cup {Nobody}]
        /\ publishedTx' \subseteq Txs /\ timer' \subseteq Txs
    BY <1>6 DEF TxTimeout
  <2>3. QED
    BY <1>6, <2>1, <2>2 DEF TxTimeout
<1>7. ASSUME ChainWasWiped PROVE TypeOK'
  BY <1>7 DEF ChainWasWiped
<1>8. QED
  BY <1>1, <1>2, <1>3, <1>4, <1>5, <1>6, <1>7 DEF Main

\* The callbacks of peers keep the types.
LEMMA TypeCallback ==
  ASSUME TypeOK,
         Callback \/ (\E kind \in {"has", "relayed", "requested"}, p \in Peers, t \in Txs :
                        Receive(kind, p, t))
  PROVE  TypeOK'
<1> USE DEF TypeOK, completions, peerState, history, Verdicts
<1>1. ASSUME NEW kind \in {"has", "relayed", "requested"}, NEW p \in Peers, NEW t \in Txs,
             Receive(kind, p, t)
      PROVE  TypeOK'
  <2>1. handler' \in Handlers
    BY <1>1 DEF Receive, Handlers
  <2>2. QED
    BY <1>1, <2>1 DEF Receive
<1>2. ASSUME Relayed PROVE TypeOK'
  <2>1. handler.tx \in Txs /\ handler.peer \in Peers /\ handler' \in Handlers
    BY <1>2, HandlerType DEF Relayed
  <2>2. listed' \subseteq Txs /\ publishedTx' \subseteq Txs
    BY <1>2, <2>1, TransactionSets DEF Relayed, RegisterRelayed
  <2>3. /\ txRelays' \in [Txs -> SUBSET Peers] /\ late' \subseteq Peers \X Txs
        /\ publishedCallback' \in [Txs -> Requests \cup {Nobody}]
    BY <1>2, <2>1 DEF Relayed, Count, ForgetCallback
  <2>4. QED
    BY <1>2, <2>1, <2>2, <2>3 DEF Relayed
<1>3. ASSUME RelayedAgain PROVE TypeOK'
  <2>1. handler.tx \in Txs /\ handler.peer \in Peers
    BY <1>3, HandlerType DEF RelayedAgain
  <2>2. listed' \subseteq Txs /\ publishedTx' \subseteq Txs
    BY <1>3, <2>1, TransactionSets DEF RelayedAgain, RegisterRelayed
  <2>3. txRequests' \in [Txs -> SUBSET Peers]
    BY <1>3, <2>1 DEF RelayedAgain, NoMoreRequested
  <2>4. QED
    BY <1>3, <2>1, <2>2, <2>3 DEF RelayedAgain
<1>4. ASSUME Requested PROVE TypeOK'
  <2>1. handler.tx \in Txs /\ handler.peer \in Peers /\ handler' \in Handlers
    BY <1>4, HandlerType DEF Requested
  <2>2. /\ txRelays' \in [Txs -> SUBSET Peers] /\ late' \subseteq Peers \X Txs
        /\ publishedCallback' \in [Txs -> Requests \cup {Nobody}]
    BY <1>4, <2>1 DEF Requested, Count
  <2>3. QED
    BY <1>4, <2>1, <2>2 DEF Requested
<1>5. ASSUME Validated PROVE TypeOK'
  <2>1. handler.tx \in Txs /\ handler' \in Handlers
    BY <1>5, HandlerType DEF Validated
  <2>2. listed' \subseteq Txs /\ publishedTx' \subseteq Txs
    BY <1>5, <2>1 DEF Validated
  <2>3. Publishing(handler.tx) \subseteq Txs
    BY <2>1 DEF Publishing
  <2>4. QED
    BY <1>5, <2>1, <2>2, <2>3 DEF Validated
<1>6. ASSUME DispatchAnswer PROVE TypeOK'
  <2>1. /\ handler.tx \in Txs /\ handler.peer \in Peers
        /\ handler.callback \in Requests \cup {Nobody} /\ handler.verdict \in {"ok", "doubleSpend"}
    BY <1>6, HandlerType DEF DispatchAnswer
  <2>2. mainQueue' \in Seq(Blocks)
    BY <1>6, <2>1, BlockTypes, AppendElements DEF DispatchAnswer
  <2>3. txRequests' \in [Txs -> SUBSET Peers]
    BY <1>6, <2>1 DEF DispatchAnswer, NoMoreRequested
  <2>4. QED
    BY <1>6, <2>2, <2>3 DEF DispatchAnswer
<1>7. QED
  BY <1>1, <1>2, <1>3, <1>4, <1>5, <1>6 DEF Callback

\* What else happens on the networking queue keeps the types.
LEMMA TypeNetwork ==
  ASSUME TypeOK,
         \/ \E ping \in pings : Pong(ping)
         \/ \E p \in Peers, t \in Txs : NotFoundOrRejected(p, t)
         \/ \E p \in Peers : MempoolRelayed(p) \/ Connect(p) \/ Disconnect(p)
         \/ \E t \in Txs : Confirm(t) \/ Unconfirm(t) \/ Conflict(t)
  PROVE  TypeOK'
<1> USE DEF TypeOK, completions, peerState, history
<1>1. ASSUME NEW ping \in pings, Pong(ping) PROVE TypeOK'
  BY <1>1 DEF Pong
<1>2. ASSUME NEW p \in Peers, NEW t \in Txs, NotFoundOrRejected(p, t) PROVE TypeOK'
  BY <1>2 DEF NotFoundOrRejected, NoMoreRequested
<1>3. ASSUME NEW p \in Peers, MempoolRelayed(p) PROVE TypeOK'
  BY <1>3 DEF MempoolRelayed
<1>4. ASSUME NEW p \in Peers, Connect(p) PROVE TypeOK'
  BY <1>4 DEF Connect
<1>5. ASSUME NEW p \in Peers, Disconnect(p) PROVE TypeOK'
  BY <1>5 DEF Disconnect
<1>6. ASSUME NEW t \in Txs, Confirm(t) \/ Unconfirm(t) \/ Conflict(t) PROVE TypeOK'
  <2>1. Publishing(t) \subseteq Txs
    BY DEF Publishing
  <2>2. QED
    BY <1>6, <2>1 DEF Confirm, Unconfirm, Conflict
<1>7. QED
  BY <1>1, <1>2, <1>3, <1>4, <1>5, <1>6

\* Every variable keeps its type (the state of DSTransactionManager and its queues).
THEOREM TypeCorrect == Spec => []TypeOK
<1>1. ASSUME TypeOK, [Next]_vars PROVE TypeOK'
  <2>1. CASE Next
    BY <1>1, <2>1, TypeMain, TypeCallback, TypeNetwork DEF Next
  <2>2. CASE UNCHANGED vars
    BY <1>1, <2>2 DEF TypeOK, vars, completions, peerState, history
  <2>3. QED
    BY <1>1, <2>1, <2>2
<1>2. QED
  BY <1>1, TypeInit, PTL DEF Spec

-----------------------------------------------------------------------------
(* The relays *)

\* A step of Next keeps OnlyLatePeersStayCounted.
LEMMA RelayStep == ASSUME TypeOK, OnlyLatePeersStayCounted, Next PROVE OnlyLatePeersStayCounted'
<1> USE DEF OnlyLatePeersStayCounted, completions, peerState, history
<1>1. txRelays \in [Txs -> SUBSET Peers] /\ handler \in Handlers \cup {Idle}
  BY DEF TypeOK
<1>2. ASSUME Relayed \/ Requested PROVE OnlyLatePeersStayCounted'
  <2>1. /\ Count(handler.peer, handler.tx) /\ connectedPeers' = connectedPeers
        /\ handler.tx \in Txs
    BY <1>1, <1>2, HandlerType DEF Relayed, Requested
  <2>2. ASSUME NEW t \in Txs, NEW p \in txRelays'[t] PROVE p \in connectedPeers' \/ <<p, t>> \in late'
    BY <1>1, <2>1, <2>2 DEF Count
  <2>3. QED
    BY <2>2
<1>3. ASSUME NEW p \in Peers, Disconnect(p) PROVE OnlyLatePeersStayCounted'
  <2>1. ASSUME NEW t \in Txs, NEW q \in txRelays'[t] PROVE q \in connectedPeers' \/ <<q, t>> \in late'
    <3>1. q \in txRelays[t] /\ q # p
      BY <1>1, <1>3, <2>1 DEF Disconnect
    <3>2. q \in connectedPeers => q \in connectedPeers'
      BY <1>3, <3>1 DEF Disconnect
    <3>3. <<q, t>> \in late => <<q, t>> \in late'
      BY <1>3, <3>1 DEF Disconnect
    <3>4. QED
      BY <3>1, <3>2, <3>3
  <2>2. QED
    BY <2>1
<1>4. ASSUME NEW p \in Peers, Connect(p) PROVE OnlyLatePeersStayCounted'
  BY <1>4 DEF Connect
<1>5. ASSUME \/ ChainWasWiped
             \/ \E p \in Peers, t \in Txs : NotFoundOrRejected(p, t)
             \/ \E t \in Txs : Confirm(t)
      PROVE  OnlyLatePeersStayCounted'
  <2>1. UNCHANGED <<connectedPeers, late>> /\ \A t \in Txs : txRelays'[t] \subseteq txRelays[t]
    BY <1>1, <1>5 DEF ChainWasWiped, NotFoundOrRejected, Confirm
  <2>2. QED
    BY <2>1
<1>6. ASSUME \/ \E r \in Requests, t \in Txs : Refuse(r, t) \/ Publish(r, t)
             \/ Main \/ \E t \in Txs : TxTimeout(t)
             \/ \E kind \in {"has", "relayed", "requested"}, p \in Peers, t \in Txs :
                  Receive(kind, p, t)
             \/ RelayedAgain \/ Validated \/ DispatchAnswer
             \/ \E ping \in pings : Pong(ping)
             \/ \E p \in Peers : MempoolRelayed(p)
             \/ \E t \in Txs : Unconfirm(t) \/ Conflict(t)
      PROVE  OnlyLatePeersStayCounted'
  <2>1. UNCHANGED <<txRelays, connectedPeers, late>>
    BY <1>6 DEF Refuse, Publish, Main, DispatchSend, RunSend, RunAnswer, TxTimeout, Receive, RelayedAgain,
                Validated, DispatchAnswer, Pong, MempoolRelayed, Unconfirm, Conflict
  <2>2. QED
    BY <2>1
<1>7. QED
  BY <1>2, <1>3, <1>4, <1>5, <1>6 DEF Next, Callback

\* A peer outlasts its connection in the relays of a transaction only by a callback about that
\* transaction that comes after the end (clearTransactionRelaysForPeer, relayedTransaction).
THEOREM RelaysEndWithConnection == Spec => []OnlyLatePeersStayCounted
<1>1. Init => OnlyLatePeersStayCounted
  BY DEF Init, OnlyLatePeersStayCounted
<1>2. ASSUME TypeOK, OnlyLatePeersStayCounted, [Next]_vars PROVE OnlyLatePeersStayCounted'
  <2>1. CASE UNCHANGED vars
    BY <1>2, <2>1 DEF OnlyLatePeersStayCounted, vars, peerState, history
  <2>2. QED
    BY <1>2, <2>1, RelayStep
<1>3. QED
  BY <1>1, <1>2, TypeCorrect, PTL DEF Spec

-----------------------------------------------------------------------------
(* The timers *)

SendAt(i, t) == i \in 1 .. Len(mainQueue) /\ mainQueue[i].type = "send" /\ mainQueue[i].tx = t
AnswerAt(i, t) == i \in 1 .. Len(mainQueue) /\ mainQueue[i].type = "answer" /\ mainQueue[i].tx = t

\* A block that starts the timer comes after every block that stops it.
TimerKept(t) ==
  publishedCallback[t] # Nobody =>
    /\ t \in timer \/ \E i \in Nat : SendAt(i, t)
    /\ \A i \in Nat : AnswerAt(i, t) => \E j \in Nat : j > i /\ SendAt(j, t)

\* A running callback knows the completion that waits, and has taken it away once it has a verdict.
CallbackKnown(t) ==
  handler # Idle /\ handler.tx = t =>
    publishedCallback[t] \in {Nobody} \cup IF handler.verdict = "none" THEN {handler.callback} ELSE {}

TimerInv == \A t \in Txs \ crossed : TimerKept(t) /\ CallbackKnown(t)

\* The invariant about timers is what the property asks.
LEMMA TimerGoal == TypeOK /\ TimerInv => TimeoutPending
BY DEF TypeOK, TimerInv, TimerKept, SendAt, TimeoutPending

\* Nothing changes for the timer of a transaction.
LEMMA TimerFrame ==
  ASSUME NEW t \in Txs, TimerKept(t), UNCHANGED <<timer, mainQueue>>,
         publishedCallback'[t] \in {publishedCallback[t], Nobody}
  PROVE  TimerKept(t)'
BY DEF TimerKept, SendAt, AnswerAt

\* A block is added to the queue: one that stops the timer only when nobody waits.
LEMMA TimerAppend ==
  ASSUME TypeOK, NEW t \in Txs, NEW b \in Blocks, mainQueue' = Append(mainQueue, b),
         timer' = timer,
         \/ TimerKept(t) /\ publishedCallback'[t] = publishedCallback[t] /\ b.tx # t
         \/ publishedCallback'[t] = Nobody
         \/ b.type = "send" /\ b.tx = t
  PROVE  TimerKept(t)'
<1>1. /\ Len(mainQueue) \in Nat /\ Len(mainQueue') = Len(mainQueue) + 1
      /\ \A i \in 1 .. Len(mainQueue) : mainQueue'[i] = mainQueue[i]
      /\ mainQueue'[Len(mainQueue) + 1] = b
  BY AppendElements DEF TypeOK
<1>2. \A i \in Nat : SendAt(i, t) => SendAt(i, t)'
  BY <1>1 DEF SendAt
<1>3. CASE publishedCallback'[t] = Nobody
  BY <1>3 DEF TimerKept
<1>4. CASE b.type = "send" /\ b.tx = t
  <2>1. PICK n \in Nat : n = Len(mainQueue) + 1
    BY <1>1
  <2>2. SendAt(n, t)'
    BY <1>1, <1>4, <2>1 DEF SendAt
  <2>3. \A i \in Nat : AnswerAt(i, t)' => i < n
    BY <1>1, <1>4, <2>1 DEF AnswerAt
  <2>4. QED
    BY <2>2, <2>3 DEF TimerKept
<1>5. CASE TimerKept(t) /\ publishedCallback'[t] = publishedCallback[t] /\ b.tx # t
  <2>1. \A i \in Nat : AnswerAt(i, t)' => AnswerAt(i, t)
    BY <1>1, <1>5 DEF AnswerAt
  <2>2. QED
    BY <1>2, <1>5, <2>1 DEF TimerKept
<1>6. QED
  BY <1>3, <1>4, <1>5

\* The block at the head is taken off: it starts the timer, or another block is left to do so.
LEMMA TimerTail ==
  ASSUME TypeOK, NEW t \in Txs, TimerKept(t), mainQueue # <<>>, mainQueue' = Tail(mainQueue),
         publishedCallback' = publishedCallback,
         LET b == Head(mainQueue) IN
           \/ b.type = "send" /\ timer' = timer \cup {b.tx}
           \/ b.type = "answer" /\ timer' = timer \ {b.tx}
  PROVE  TimerKept(t)'
<1>1. /\ Len(mainQueue) \in Nat /\ Len(mainQueue) >= 1
      /\ Head(mainQueue) = mainQueue[1]
      /\ Len(mainQueue') = Len(mainQueue) - 1
      /\ \A i \in 1 .. Len(mainQueue') : mainQueue'[i] = mainQueue[i + 1]
  BY TailElements DEF TypeOK
<1> SUFFICES ASSUME publishedCallback[t] # Nobody
             PROVE  /\ t \in timer' \/ \E i \in Nat : SendAt(i, t)'
                    /\ \A i \in Nat : AnswerAt(i, t)' => \E j \in Nat : j > i /\ SendAt(j, t)'
  BY DEF TimerKept
<1>2. \A j \in Nat : j > 1 /\ SendAt(j, t) => j - 1 \in Nat /\ SendAt(j - 1, t)'
  BY <1>1 DEF SendAt
<1>3. \A i \in Nat : AnswerAt(i, t)' => i >= 1 /\ i + 1 \in Nat /\ AnswerAt(i + 1, t)
  BY <1>1 DEF AnswerAt
<1>4. \A i \in Nat : AnswerAt(i, t)' => \E j \in Nat : j > i /\ SendAt(j, t)'
  <2> SUFFICES ASSUME NEW i \in Nat, AnswerAt(i, t)' PROVE \E j \in Nat : j > i /\ SendAt(j, t)'
    OBVIOUS
  <2>1. i >= 1 /\ i + 1 \in Nat /\ AnswerAt(i + 1, t)
    BY <1>3
  <2>2. PICK j \in Nat : j > i + 1 /\ SendAt(j, t)
    BY <2>1 DEF TimerKept
  <2>3. j - 1 \in Nat /\ j - 1 > i /\ SendAt(j - 1, t)'
    BY <1>2, <2>1, <2>2
  <2>4. QED
    BY <2>3
<1>5. t \in timer' \/ \E i \in Nat : SendAt(i, t)'
  <2>1. CASE mainQueue[1].tx = t /\ mainQueue[1].type = "answer"
    <3>1. 1 \in Nat /\ AnswerAt(1, t)
      BY <1>1, <2>1 DEF AnswerAt
    <3>2. PICK j \in Nat : j > 1 /\ SendAt(j, t)
      BY <3>1 DEF TimerKept
    <3>3. QED
      BY <1>2, <3>2
  <2>2. CASE mainQueue[1].tx = t /\ mainQueue[1].type = "send"
    BY <1>1, <2>2
  <2>3. CASE mainQueue[1].tx # t
    <3>1. CASE t \in timer
      BY <1>1, <2>3, <3>1
    <3>2. CASE \E i \in Nat : SendAt(i, t)
      <4>1. PICK i \in Nat : SendAt(i, t)
        BY <3>2
      <4>2. i > 1
        BY <1>1, <2>3, <4>1 DEF SendAt
      <4>3. QED
        BY <1>2, <4>1, <4>2
    <3>3. QED
      BY <3>1, <3>2 DEF TimerKept
  <2>4. QED
    BY <1>1, <2>1, <2>2, <2>3
<1>6. QED
  BY <1>4, <1>5

\* A step of Next keeps TimerInv.
LEMMA TimerStep == ASSUME TypeOK, TimerInv, Next PROVE TimerInv'
<1>1. /\ publishedCallback \in [Txs -> Requests \cup {Nobody}] /\ handler \in Handlers \cup {Idle}
      /\ mainQueue \in Seq(Blocks) /\ crossed \subseteq Txs
      /\ connectedPeers \in SUBSET Peers
  BY DEF TypeOK
<1>2. ASSUME DispatchSend PROVE TimerInv'
  <2>1. PICK r \in Requests, t \in Txs, b \in Blocks :
          /\ b.type = "send" /\ b.tx = t
          /\ mainQueue' = Append(mainQueue, b)
          /\ publishedCallback' = [publishedCallback EXCEPT ![t] = r]
          /\ crossed' = crossed \cup Handling(t)
          /\ UNCHANGED <<timer, handler>>
    BY <1>2, DispatchSendFacts
  <2>2. ASSUME NEW u \in Txs \ crossed' PROVE TimerKept(u)' /\ CallbackKnown(u)'
    <3>1. TimerKept(u) /\ CallbackKnown(u)
      BY <2>1, <2>2 DEF TimerInv
    <3>2. TimerKept(u)'
      <4>1. u = t \/ publishedCallback'[u] = publishedCallback[u]
        BY <1>1, <2>1
      <4>2. QED
        BY <2>1, <3>1, <4>1, TimerAppend
    <3>3. CallbackKnown(u)'
      <4>1. CASE handler # Idle /\ handler.tx = t
        BY <1>1, <2>1, <2>2, <3>1, <4>1 DEF Handling, CallbackKnown
      <4>2. CASE ~(handler # Idle /\ handler.tx = t)
        BY <1>1, <2>1, <3>1, <4>2 DEF CallbackKnown
      <4>3. QED
        BY <4>1, <4>2
    <3>4. QED
      BY <3>2, <3>3
  <2>3. QED
    BY <2>2 DEF TimerInv
<1>3. ASSUME RunSend \/ RunAnswer PROVE TimerInv'
  <2>1. /\ mainQueue # <<>> /\ mainQueue' = Tail(mainQueue)
        /\ UNCHANGED <<publishedCallback, handler, crossed>>
    BY <1>3 DEF RunSend, RunAnswer, history
  <2>2. LET b == Head(mainQueue) IN \/ b.type = "send" /\ timer' = timer \cup {b.tx}
                                    \/ b.type = "answer" /\ timer' = timer \ {b.tx}
    BY <1>3 DEF RunSend, RunAnswer
  <2>3. ASSUME NEW u \in Txs \ crossed PROVE TimerKept(u)'
    BY <2>1, <2>2, TimerTail DEF TimerInv
  <2>4. ASSUME NEW u \in Txs \ crossed PROVE CallbackKnown(u)'
    BY <2>1 DEF TimerInv, CallbackKnown
  <2>5. QED
    BY <2>1, <2>3, <2>4 DEF TimerInv
<1>4. ASSUME NEW t \in Txs, TxTimeout(t) PROVE TimerInv'
  <2>1. ASSUME NEW u \in Txs \ crossed PROVE TimerKept(u)' /\ CallbackKnown(u)'
    <3>1. TimerKept(u) /\ CallbackKnown(u)
      BY DEF TimerInv
    <3>2. CASE u = t
      BY <1>1, <1>4, <3>2 DEF TxTimeout, TimerKept, CallbackKnown
    <3>3. CASE u # t
      BY <1>1, <1>4, <3>1, <3>3 DEF TxTimeout, TimerKept, CallbackKnown, SendAt, AnswerAt
    <3>4. QED
      BY <3>2, <3>3
  <2>2. QED
    BY <1>4, <2>1 DEF TxTimeout, TimerInv, history
<1>5. ASSUME NEW kind \in {"has", "relayed", "requested"}, NEW p \in Peers, NEW t \in Txs,
             Receive(kind, p, t)
      PROVE  TimerInv'
  <2>1. /\ UNCHANGED <<timer, mainQueue, publishedCallback, crossed>>
        /\ handler'.tx = t /\ handler'.verdict = "none"
        /\ handler'.callback = publishedCallback[t]
    BY <1>5 DEF Receive, history
  <2>2. ASSUME NEW u \in Txs \ crossed PROVE TimerKept(u)' /\ CallbackKnown(u)'
    BY <1>1, <2>1, TimerFrame DEF TimerInv, CallbackKnown
  <2>3. QED
    BY <2>1, <2>2 DEF TimerInv
<1>6. ASSUME Relayed \/ Requested PROVE TimerInv'
  <2>1. /\ UNCHANGED <<timer, mainQueue, crossed>>
        /\ handler # Idle /\ handler.tx \in Txs /\ handler.verdict = "none"
        /\ handler'.tx = handler.tx /\ handler'.verdict # "none"
    BY <1>1, <1>6, HandlerType DEF Relayed, Requested, history
  <2>2. publishedCallback' \in {[publishedCallback EXCEPT ![handler.tx] = Nobody]} \cup
                               IF handler.callback = Nobody THEN {publishedCallback} ELSE {}
    BY <1>6 DEF Relayed, Requested, ForgetCallback
  <2>3. ASSUME NEW u \in Txs \ crossed PROVE TimerKept(u)' /\ CallbackKnown(u)'
    <3>1. TimerKept(u) /\ CallbackKnown(u)
      BY DEF TimerInv
    <3>2. publishedCallback'[u] \in {publishedCallback[u], Nobody}
      BY <1>1, <2>1, <2>2
    <3>3. TimerKept(u)'
      BY <2>1, <3>1, <3>2, TimerFrame
    <3>4. u = handler.tx => publishedCallback'[u] = Nobody
      BY <1>1, <2>1, <2>2, <3>1 DEF CallbackKnown
    <3>5. CallbackKnown(u)'
      BY <2>1, <3>4 DEF CallbackKnown
    <3>6. QED
      BY <3>3, <3>5
  <2>4. QED
    BY <2>1, <2>3 DEF TimerInv
<1>7. ASSUME DispatchAnswer PROVE TimerInv'
  <2> DEFINE b == AnswerBlock(handler.tx, handler.callback, handler.verdict)
  <2>1. /\ UNCHANGED <<timer, publishedCallback, crossed>> /\ handler' = Idle
        /\ handler # Idle /\ handler.tx \in Txs /\ handler.verdict # "none"
        /\ mainQueue' = Append(mainQueue, b)
    BY <1>1, <1>7, HandlerType DEF DispatchAnswer, history
  <2>2. b \in Blocks /\ b.tx = handler.tx
    BY <1>1, <1>7, <2>1, HandlerType, BlockTypes DEF DispatchAnswer
  <2> HIDE DEF b
  <2>3. ASSUME NEW u \in Txs \ crossed PROVE TimerKept(u)' /\ CallbackKnown(u)'
    <3>1. TimerKept(u) /\ CallbackKnown(u)
      BY DEF TimerInv
    <3>2. u = handler.tx => publishedCallback'[u] = Nobody
      BY <2>1, <3>1 DEF CallbackKnown
    <3>3. TimerKept(u)'
      BY <2>1, <2>2, <3>1, <3>2, TimerAppend
    <3>4. QED
      BY <2>1, <3>3 DEF CallbackKnown
  <2>4. QED
    BY <2>1, <2>3 DEF TimerInv
<1>8. ASSUME NEW t \in Txs, Confirm(t) PROVE TimerInv'
  <2>1. ASSUME NEW u \in Txs \ crossed' PROVE TimerKept(u)' /\ CallbackKnown(u)'
    <3>1. TimerKept(u) /\ CallbackKnown(u)
      BY <1>8, <2>1 DEF Confirm, TimerInv
    <3>2. publishedCallback'[u] \in {publishedCallback[u], Nobody}
      BY <1>1, <1>8 DEF Confirm
    <3>3. UNCHANGED <<timer, mainQueue>> /\ handler' = Idle
      BY <1>8 DEF Confirm
    <3>4. QED
      BY <3>1, <3>2, <3>3, TimerFrame DEF CallbackKnown
  <2>2. QED
    BY <2>1 DEF TimerInv
<1>9. ASSUME ChainWasWiped PROVE TimerInv'
  <2>1. \A u \in Txs : publishedCallback'[u] = Nobody
    BY <1>9 DEF ChainWasWiped
  <2>2. QED
    BY <2>1 DEF TimerInv, TimerKept, CallbackKnown
<1>10. ASSUME Validated PROVE TimerInv'
  <2>1. /\ UNCHANGED <<timer, mainQueue, publishedCallback>> /\ crossed \subseteq crossed'
        /\ handler # Idle /\ handler.verdict # "none"
    BY <1>10 DEF Validated
  <2>2. handler'.tx = handler.tx /\ handler'.verdict # "none"
    BY <1>1, <1>10, HandlerType DEF Validated
  <2>3. ASSUME NEW u \in Txs \ crossed' PROVE TimerKept(u)' /\ CallbackKnown(u)'
    <3>1. TimerKept(u) /\ CallbackKnown(u)
      BY <2>1, <2>3 DEF TimerInv
    <3>2. QED
      BY <2>1, <2>2, <3>1, TimerFrame DEF CallbackKnown
  <2>4. QED
    BY <2>3 DEF TimerInv
<1>11. ASSUME \/ \E r \in Requests, t \in Txs : Refuse(r, t) \/ Publish(r, t)
              \/ RelayedAgain
              \/ \E ping \in pings : Pong(ping)
              \/ \E p \in Peers, t \in Txs : NotFoundOrRejected(p, t)
              \/ \E p \in Peers : MempoolRelayed(p) \/ Connect(p) \/ Disconnect(p)
              \/ \E t \in Txs : Unconfirm(t) \/ Conflict(t)
       PROVE  TimerInv'
  <2>1. UNCHANGED <<timer, mainQueue, publishedCallback, crossed>>
    BY <1>11 DEF Refuse, Publish, RelayedAgain, Pong, NotFoundOrRejected, MempoolRelayed, Connect,
                 Disconnect, Unconfirm, Conflict, history
  <2>2. handler' = handler \/ handler' = Idle
    BY <1>11 DEF Refuse, Publish, RelayedAgain, Pong, NotFoundOrRejected, MempoolRelayed, Connect,
                 Disconnect, Unconfirm, Conflict
  <2>3. ASSUME NEW u \in Txs \ crossed PROVE TimerKept(u)' /\ CallbackKnown(u)'
    BY <2>1, <2>2, TimerFrame DEF TimerInv, CallbackKnown
  <2>4. QED
    BY <2>1, <2>3 DEF TimerInv
<1>12. QED
  BY <1>2, <1>3, <1>4, <1>5, <1>6, <1>7, <1>8, <1>9, <1>10, <1>11 DEF Next, Main, Callback

\* The invariant about timers holds.
LEMMA TimerCorrect == Spec => []TimerInv
<1>1. Init => TimerInv
  BY DEF Init, TimerInv, TimerKept, CallbackKnown
<1>2. ASSUME TypeOK, TimerInv, [Next]_vars PROVE TimerInv'
  <2>1. CASE UNCHANGED vars
    BY <1>2, <2>1 DEF TimerInv, TimerKept, CallbackKnown, SendAt, AnswerAt, vars, history
  <2>2. QED
    BY <1>2, <2>1, TimerStep
<1>3. QED
  BY <1>1, <1>2, TypeCorrect, PTL DEF Spec

\* Whatever somebody waits for has a timer or is about to get one, as long as it was not published
\* again during a callback about it (publishTransaction and the blocks that cancel txTimeout).
THEOREM TimeoutIsPending == Spec => []TimeoutPending
BY TimerCorrect, TimerGoal, TypeCorrect, PTL

-----------------------------------------------------------------------------
(* The publish list *)

\* addTransactionToPublishList publishes a new unconfirmed transaction.
LEMMA PublishesItself ==
  ASSUME NEW t \in Txs, NEW U, NEW L, t \in U, t \notin publishedTx
  PROVE  t \in ToPublish(t, U, L)
BY DEF ToPublish

\* What is on the publish list when publishTransaction has added it is there when the completion is
\* set, or the publication has been crossed.
PublishedInv ==
  /\ WaitedForIsPublished
  /\ publishing # Idle => publishing.tx \in publishedTx \cup crossed

\* A step of Next keeps PublishedInv: what leaves the list has no completion that waits, TimerInv says
\* of a callback's double spend.
LEMMA PublishedStep ==
  ASSUME TypeOK, TimerInv, PublishedInv, Next PROVE PublishedInv'
<1> USE DEF PublishedInv, WaitedForIsPublished, history
<1>1. publishedCallback \in [Txs -> Requests \cup {Nobody}] /\ handler \in Handlers \cup {Idle}
  BY DEF TypeOK
<1>2. ASSUME NEW r \in Requests, NEW t \in Txs, Publish(r, t) PROVE PublishedInv'
  <2>1. t \in publishedTx' /\ publishedTx \subseteq publishedTx'
    BY <1>2, PublishesItself DEF Publish, Unconfirmed
  <2>2. publishing'.tx = t /\ UNCHANGED <<publishedCallback, crossed>>
    BY <1>2 DEF Publish
  <2>3. QED
    BY <2>1, <2>2
<1>3. ASSUME DispatchSend PROVE PublishedInv'
  <2>1. PICK r \in Requests, t \in Txs :
          /\ publishing # Idle /\ publishing.tx = t /\ publishing' = Idle
          /\ publishedCallback' = [publishedCallback EXCEPT ![t] = r]
          /\ crossed' = crossed \cup Handling(t)
          /\ UNCHANGED publishedTx
    BY <1>3, DispatchSendFacts
  <2>2. QED
    BY <1>1, <2>1
<1>4. ASSUME NEW t \in Txs, TxTimeout(t) PROVE PublishedInv'
  BY <1>1, <1>4 DEF TxTimeout
<1>5. ASSUME ChainWasWiped PROVE PublishedInv'
  BY <1>5 DEF ChainWasWiped
<1>6. ASSUME NEW t \in Txs, Confirm(t) PROVE PublishedInv'
  <2>1. /\ publishedTx' = publishedTx \ {t} /\ crossed' = crossed \cup Publishing(t)
        /\ publishedCallback' = [publishedCallback EXCEPT ![t] = Nobody]
        /\ publishing' = publishing
    BY <1>6 DEF Confirm
  <2>2. QED
    BY <1>1, <2>1 DEF Publishing
<1>7. ASSUME Relayed \/ RelayedAgain \/ Requested PROVE PublishedInv'
  <2>1. publishedTx \subseteq publishedTx' /\ UNCHANGED <<crossed, publishing>>
    BY <1>7 DEF Relayed, RelayedAgain, Requested, RegisterRelayed
  <2>2. \A u \in Txs : publishedCallback'[u] \in {publishedCallback[u], Nobody}
    BY <1>1, <1>7 DEF Relayed, RelayedAgain, Requested, ForgetCallback
  <2>3. QED
    BY <2>1, <2>2
<1>8. ASSUME Validated PROVE PublishedInv'
  <2>1. UNCHANGED <<publishedCallback, publishing>> /\ crossed \subseteq crossed'
    BY <1>8 DEF Validated
  <2>2. CASE publishedTx' = publishedTx
    BY <2>1, <2>2
  <2>3. CASE publishedTx' # publishedTx
    <3>1. /\ handler # Idle /\ handler.verdict = "counted"
          /\ publishedTx' = publishedTx \ {handler.tx}
          /\ crossed' = crossed \cup Publishing(handler.tx)
      BY <1>8, <2>3 DEF Validated
    <3>2. handler.tx \in Txs \ crossed => publishedCallback[handler.tx] = Nobody
      BY <3>1 DEF TimerInv, CallbackKnown
    <3>3. QED
      BY <2>1, <3>1, <3>2 DEF Publishing
  <2>4. QED
    BY <2>2, <2>3
<1>9. ASSUME \/ \E r \in Requests, t \in Txs : Refuse(r, t)
             \/ RunSend \/ RunAnswer \/ DispatchAnswer
             \/ \E kind \in {"has", "relayed", "requested"}, p \in Peers, t \in Txs :
                  Receive(kind, p, t)
             \/ \E ping \in pings : Pong(ping)
             \/ \E p \in Peers, t \in Txs : NotFoundOrRejected(p, t)
             \/ \E p \in Peers : MempoolRelayed(p) \/ Connect(p) \/ Disconnect(p)
             \/ \E t \in Txs : Unconfirm(t) \/ Conflict(t)
      PROVE  PublishedInv'
  <2>1. UNCHANGED <<publishedTx, publishedCallback, crossed, publishing>>
    BY <1>9 DEF Refuse, RunSend, RunAnswer, DispatchAnswer, Receive, Pong,
                NotFoundOrRejected, MempoolRelayed, Connect, Disconnect, Unconfirm, Conflict
  <2>2. QED
    BY <2>1
<1>10. QED
  BY <1>2, <1>3, <1>4, <1>5, <1>6, <1>7, <1>8, <1>9 DEF Next, Main, Callback

\* Whatever somebody waits for is on the publish list, and is served to a peer that asks for it
\* (requestedTransaction), unless a callback or a block crossed its publication.
THEOREM WaitedForStaysPublished == Spec => []WaitedForIsPublished
<1>1. Init => PublishedInv
  BY DEF Init, PublishedInv, WaitedForIsPublished
<1>2. ASSUME TypeOK, TimerInv, PublishedInv, [Next]_vars PROVE PublishedInv'
  <2>1. CASE UNCHANGED vars
    BY <1>2, <2>1 DEF PublishedInv, WaitedForIsPublished, vars, history
  <2>2. QED
    BY <1>2, <2>1, PublishedStep
<1>3. PublishedInv => WaitedForIsPublished
  BY DEF PublishedInv
<1>4. QED
  BY <1>1, <1>2, <1>3, TypeCorrect, TimerCorrect, PTL DEF Spec

-----------------------------------------------------------------------------
(* The requests *)

\* What a request that can still be answered was told, and what any request was told.
Open == {<<>>, <<"timeout">>}
Told == Open \cup {<<"refused">>, <<"ok">>, <<"doubleSpend">>,
                   <<"timeout", "ok">>, <<"timeout", "doubleSpend">>}

InTable(r) == \E t \in Txs : publishedCallback[t] = r
Running(r) == handler # Idle /\ handler.callback = r
Queued(i, r) == i \in 1 .. Len(mainQueue) /\ mainQueue[i].type = "answer" /\ mainQueue[i].request = r

\* A request is answered from one place at most: the table gives it to one callback, the callback to
\* one block of the queue.  Only between the first two steps of a callback is it in two places.
RequestOK(r) ==
  /\ told[r] \in Told
  /\ asked[r] = Nothing => told[r] = <<>>
  /\ \A t \in Txs : publishedCallback[t] = r => asked[r] = t /\ told[r] = <<>>
  /\ Running(r) => /\ asked[r] = handler.tx /\ told[r] \in Open
                   /\ handler.verdict # "none" => ~InTable(r)
  /\ \A i \in Nat : Queued(i, r) => /\ asked[r] # Nothing /\ told[r] \in Open
                                    /\ ~InTable(r) /\ ~Running(r)
                                    /\ \A j \in Nat : Queued(j, r) => j = i

RequestInv == \A r \in Requests : RequestOK(r)

\* The places a request can be answered from, before and after a step.
LEMMA HeldPlaces ==
  ASSUME TypeOK, TypeOK', NEW r \in Requests
  PROVE  /\ Held(r) <=> InTable(r) \/ Running(r) \/ \E i \in Nat : Queued(i, r)
         /\ Held(r)' <=> InTable(r)' \/ Running(r)' \/ \E i \in Nat : Queued(i, r)'
<1>1. Len(mainQueue) \in Nat /\ Len(mainQueue)' \in Nat
  BY LenProperties DEF TypeOK
<1>2. QED
  BY <1>1 DEF Held, InTable, Running, Queued

\* A second block is queued behind the first.
LEMMA AppendToOne ==
  ASSUME NEW a, NEW b PROVE Append(<<a>>, b) = <<a, b>>
<1> DEFINE S == {a, b}
<1>1. <<a>> \in Seq(S) /\ <<a, b>> \in Seq(S)
  OBVIOUS
<1>2. Append(<<a>>, b) \in Seq(S) /\ Len(Append(<<a>>, b)) = 2
  OBVIOUS
<1>3. \A i \in 1 .. 2 : Append(<<a>>, b)[i] = <<a, b>>[i]
  OBVIOUS
<1> HIDE DEF S
<1>4. QED
  BY <1>1, <1>2, <1>3, SeqEqual

\* Calling a completion that may still be answered, and what is none of the answers.
LEMMA Tellings ==
  /\ Append(<<>>, "timeout") = <<"timeout">>
  /\ \A s \in Open, v \in {"ok", "doubleSpend"} : Append(s, v) \in Told \ (Open \cup {<<"refused">>})
  /\ <<"refused">> \notin Open /\ <<>> # <<"timeout">>
<1>2. Append(<<>>, "timeout") = <<"timeout">>
  OBVIOUS
<1>3. ASSUME NEW v \in {"ok", "doubleSpend"}
      PROVE  Append(<<>>, v) = <<v>> /\ Append(<<"timeout">>, v) = <<"timeout", v>>
  BY AppendToOne
<1>4. ASSUME NEW v \in {"ok", "doubleSpend"}
      PROVE  <<v>> \notin Open \cup {<<"refused">>} /\ <<"timeout", v>> \notin Open \cup {<<"refused">>}
  BY DEF Open
<1>5. \A s \in Open, v \in {"ok", "doubleSpend"} : Append(s, v) \in Told \ (Open \cup {<<"refused">>})
  BY <1>3, <1>4 DEF Open, Told
<1>6. QED
  BY <1>2, <1>5 DEF Open

\* A request that nothing is done to.
LEMMA RequestFrame ==
  ASSUME NEW r \in Requests, RequestOK(r), told'[r] = told[r], asked'[r] = asked[r],
         mainQueue' = mainQueue, handler' = handler \/ handler' = Idle,
         \A t \in Txs : publishedCallback'[t] = r => publishedCallback[t] = r
  PROVE  RequestOK(r)'
BY DEF RequestOK, InTable, Running, Queued

\* Answers in a queue that grew, and in the tail of a queue.
LEMMA QueuedAppend ==
  ASSUME TypeOK, NEW b \in Blocks, mainQueue' = Append(mainQueue, b), NEW r, NEW i \in Nat
  PROVE  /\ Len(mainQueue) + 1 \in Nat
         /\ Queued(i, r) => i # Len(mainQueue) + 1
         /\ Queued(i, r)' <=> \/ Queued(i, r)
                              \/ i = Len(mainQueue) + 1 /\ b.type = "answer" /\ b.request = r
<1>1. /\ Len(mainQueue) \in Nat /\ Len(mainQueue') = Len(mainQueue) + 1
      /\ \A j \in 1 .. Len(mainQueue) : mainQueue'[j] = mainQueue[j]
      /\ mainQueue'[Len(mainQueue) + 1] = b
  BY AppendElements DEF TypeOK
<1>2. QED
  BY <1>1 DEF Queued

\* When the head of the main queue has run, an answer that is still queued was
\* queued one place further back.
LEMMA QueuedTail ==
  ASSUME TypeOK, mainQueue # <<>>, mainQueue' = Tail(mainQueue), NEW r, NEW i \in Nat
  PROVE  /\ Queued(i, r)' => i >= 1 /\ i + 1 \in Nat /\ Queued(i + 1, r)
         /\ Head(mainQueue).type = "answer" /\ Head(mainQueue).request = r => Queued(1, r)
<1>1. /\ Len(mainQueue) \in Nat /\ Len(mainQueue) >= 1
      /\ Head(mainQueue) = mainQueue[1]
      /\ Len(mainQueue') = Len(mainQueue) - 1
      /\ \A j \in 1 .. Len(mainQueue') : mainQueue'[j] = mainQueue[j + 1]
  BY TailElements DEF TypeOK
<1>2. QED
  BY <1>1 DEF Queued

\* A request in the table, of a running callback or in the queue is about a transaction.
LEMMA NotIdle ==
  ASSUME TypeOK, NEW r \in Requests, RequestOK(r), asked[r] = Nothing
  PROVE  ~InTable(r) /\ ~Running(r) /\ \A i \in Nat : ~Queued(i, r)
BY PublishAssumption, HandlerType DEF RequestOK, InTable, Running, TypeOK

\* The request of the publication under way is not asked yet: the main thread begins no other.
Asking == publishing # Idle => asked[publishing.request] = Nothing

\* Asking holds.
LEMMA AskingCorrect == Spec => []Asking
<1>1. Init => Asking
  BY DEF Init, Asking
<1>2. ASSUME TypeOK, Asking, [Next]_vars PROVE Asking'
  <2>1. ASSUME NEW r \in Requests, NEW t \in Txs, Publish(r, t) PROVE Asking'
    BY <2>1 DEF Publish, Asking, completions
  <2>2. ASSUME NEW r \in Requests, NEW t \in Txs, Refuse(r, t) PROVE Asking'
    BY <2>2 DEF Refuse, Asking
  <2>3. CASE DispatchSend
    BY <2>3 DEF DispatchSend, Asking
  <2>4. CASE \/ RunSend \/ RunAnswer \/ ChainWasWiped \/ Callback
             \/ \E t \in Txs : TxTimeout(t)
             \/ \E kind \in {"has", "relayed", "requested"}, p \in Peers, t \in Txs :
                  Receive(kind, p, t)
             \/ \E ping \in pings : Pong(ping)
             \/ \E p \in Peers, t \in Txs : NotFoundOrRejected(p, t)
             \/ \E p \in Peers : MempoolRelayed(p) \/ Connect(p) \/ Disconnect(p)
             \/ \E t \in Txs : Confirm(t) \/ Unconfirm(t) \/ Conflict(t)
    <3>1. UNCHANGED <<asked, publishing>>
      BY <2>4 DEF RunSend, RunAnswer, ChainWasWiped, Callback, Relayed, RelayedAgain, Requested,
                  Validated, DispatchAnswer, TxTimeout, Receive, Pong, NotFoundOrRejected,
                  MempoolRelayed, Connect, Disconnect, Confirm, Unconfirm, Conflict, completions
    <3>2. QED
      BY <1>2, <3>1 DEF Asking
  <2>5. CASE UNCHANGED vars
    BY <1>2, <2>5 DEF Asking, vars, completions
  <2>6. QED
    BY <1>2, <2>1, <2>2, <2>3, <2>4, <2>5 DEF Next, Main
<1>3. QED
  BY <1>1, <1>2, TypeCorrect, PTL DEF Spec

\* The main thread keeps RequestInv.
LEMMA RequestMain ==
  ASSUME TypeOK, RequestInv, Asking,
         Main \/ ChainWasWiped \/ (\E t \in Txs : TxTimeout(t))
         \/ (\E r \in Requests, t \in Txs : Refuse(r, t) \/ Publish(r, t))
  PROVE  RequestInv'
<1>1. /\ publishedCallback \in [Txs -> Requests \cup {Nobody}]
      /\ handler \in Handlers \cup {Idle} /\ mainQueue \in Seq(Blocks)
      /\ asked \in [Requests -> Txs \cup {Nothing}] /\ told \in [Requests -> Seq(Verdicts)]
      /\ Nobody \notin Requests /\ Nothing \notin Txs
  BY PublishAssumption DEF TypeOK, Verdicts
<1>2. ASSUME NEW r \in Requests, NEW t \in Txs, Refuse(r, t), NEW q \in Requests PROVE RequestOK(q)'
  <2>1. RequestOK(q) /\ UNCHANGED <<publishedCallback, handler, mainQueue>>
    BY <1>2 DEF RequestInv, Refuse
  <2>2. CASE q = r
    <3>1. asked[q] = Nothing /\ asked'[q] = t /\ told'[q] = <<"refused">>
      BY <1>1, <1>2, <2>2 DEF Refuse
    <3>2. ~InTable(q) /\ ~Running(q) /\ \A i \in Nat : ~Queued(i, q)
      BY <2>1, <3>1, NotIdle
    <3>3. ~InTable(q)' /\ ~Running(q)' /\ \A i \in Nat : ~Queued(i, q)'
      BY <2>1, <3>2 DEF InTable, Running, Queued
    <3>4. QED
      BY <1>1, <3>1, <3>3 DEF RequestOK, Told, InTable
  <2>3. CASE q # r
    BY <1>1, <1>2, <2>1, <2>3, RequestFrame DEF Refuse
  <2>4. QED
    BY <2>2, <2>3
<1>3. ASSUME DispatchSend, NEW q \in Requests PROVE RequestOK(q)'
  <2>1. PICK r \in Requests, t \in Txs, b \in Blocks :
          /\ publishing # Idle /\ publishing.request = r /\ b.type = "send"
          /\ mainQueue' = Append(mainQueue, b)
          /\ asked' = [asked EXCEPT ![r] = t]
          /\ publishedCallback' = [publishedCallback EXCEPT ![t] = r]
          /\ UNCHANGED <<told, handler>>
    BY <1>3, DispatchSendFacts
  <2>2. \A i \in Nat : Queued(i, q)' <=> Queued(i, q)
    BY <2>1, QueuedAppend
  <2>3. RequestOK(q) /\ (Running(q)' <=> Running(q))
    BY <2>1 DEF RequestInv, Running
  <2>4. CASE q = r
    <3>1. asked[q] = Nothing /\ asked'[q] = t /\ told'[q] = <<>>
      BY <1>1, <2>1, <2>3, <2>4 DEF Asking, RequestOK
    <3>2. ~InTable(q) /\ ~Running(q) /\ \A i \in Nat : ~Queued(i, q)
      BY <2>3, <3>1, NotIdle
    <3>3. \A u \in Txs : publishedCallback'[u] = q => u = t
      BY <1>1, <2>1, <3>2 DEF InTable
    <3>4. ~Running(q)' /\ \A i \in Nat : ~Queued(i, q)'
      BY <2>2, <2>3, <3>2
    <3>5. QED
      BY <1>1, <3>1, <3>3, <3>4 DEF RequestOK, Told, Open
  <2>5. CASE q # r
    <3>1. asked'[q] = asked[q] /\ \A u \in Txs : publishedCallback'[u] = q => publishedCallback[u] = q
      BY <1>1, <2>1, <2>5
    <3>2. InTable(q)' => InTable(q)
      BY <3>1 DEF InTable
    <3>3. QED
      BY <2>1, <2>2, <2>3, <3>1, <3>2 DEF RequestOK
  <2>6. QED
    BY <2>4, <2>5
<1>4. ASSUME RunSend \/ RunAnswer, NEW q \in Requests PROVE RequestOK(q)'
  <2>1. /\ mainQueue # <<>> /\ mainQueue' = Tail(mainQueue)
        /\ UNCHANGED <<asked, publishedCallback, handler>>
    BY <1>4 DEF RunSend, RunAnswer, completions
  <2>2. RequestOK(q) /\ (InTable(q)' <=> InTable(q)) /\ (Running(q)' <=> Running(q))
    BY <2>1 DEF RequestInv, InTable, Running
  <2>3. \A i \in Nat : Queued(i, q)' => i >= 1 /\ i + 1 \in Nat /\ Queued(i + 1, q)
    BY <2>1, QueuedTail
  <2>4. CASE told'[q] = told[q]
    <3>1. ASSUME NEW i \in Nat, NEW j \in Nat, Queued(i, q)', Queued(j, q)' PROVE j = i
      <4>1. i + 1 \in Nat /\ Queued(i + 1, q) /\ j + 1 \in Nat /\ Queued(j + 1, q)
        BY <2>3, <3>1
      <4>2. j + 1 = i + 1
        BY <2>2, <4>1 DEF RequestOK
      <4>3. QED
        BY <4>2
    <3>2. QED
      BY <2>1, <2>2, <2>3, <2>4, <3>1 DEF RequestOK
  <2>5. CASE told'[q] # told[q]
    <3>1. /\ Head(mainQueue).type = "answer" /\ Head(mainQueue).request = q
          /\ told'[q] = Append(told[q], Head(mainQueue).verdict)
      BY <1>1, <1>4, <2>5 DEF RunSend, RunAnswer, completions
    <3>2. Head(mainQueue).verdict \in {"ok", "doubleSpend"}
      BY <1>1, <2>1, <3>1, BlockFields, TailElements
    <3>3. Queued(1, q)
      BY <2>1, <3>1, QueuedTail
    <3>4. /\ asked[q] # Nothing /\ told[q] \in Open /\ ~InTable(q) /\ ~Running(q)
          /\ \A j \in Nat : Queued(j, q) => j = 1
      BY <2>2, <3>3 DEF RequestOK
    <3>5. told'[q] \in Told
      BY <3>1, <3>2, <3>4, Tellings
    <3>6. \A i \in Nat : ~Queued(i, q)'
      <4> SUFFICES ASSUME NEW i \in Nat, Queued(i, q)' PROVE FALSE
        OBVIOUS
      <4>1. i >= 1 /\ i + 1 \in Nat /\ Queued(i + 1, q)
        BY <2>3
      <4>2. i + 1 = 1
        BY <3>4, <4>1
      <4>3. QED
        BY <4>1, <4>2
    <3>7. QED
      BY <2>1, <2>2, <3>4, <3>5, <3>6 DEF RequestOK, InTable
  <2>6. QED
    BY <2>4, <2>5
<1>5. ASSUME NEW t \in Txs, TxTimeout(t), NEW q \in Requests PROVE RequestOK(q)'
  <2>1. /\ RequestOK(q) /\ UNCHANGED <<asked, handler, mainQueue>>
        /\ publishedCallback' = [publishedCallback EXCEPT ![t] = Nobody]
    BY <1>5 DEF RequestInv, TxTimeout
  <2>2. \A u \in Txs : publishedCallback'[u] = q => publishedCallback[u] = q /\ u # t
    BY <1>1, <2>1
  <2>3. CASE publishedCallback[t] # q
    BY <1>1, <1>5, <2>1, <2>2, <2>3, RequestFrame DEF TxTimeout
  <2>4. CASE publishedCallback[t] = q
    <3>1. asked[q] = t /\ told[q] = <<>> /\ InTable(q)
      BY <2>1, <2>4 DEF RequestOK, InTable
    <3>2. told'[q] = <<"timeout">>
      BY <1>1, <1>5, <2>4, <3>1, Tellings DEF TxTimeout
    <3>3. \A i \in Nat : ~Queued(i, q)
      BY <2>1, <3>1 DEF RequestOK
    <3>4. Running(q) => asked[q] = handler.tx /\ handler.verdict = "none"
      BY <2>1, <3>1 DEF RequestOK
    <3>5. ~InTable(q)'
      <4>1. \A u \in Txs : publishedCallback[u] = q => u = t
        BY <2>1, <3>1 DEF RequestOK
      <4>2. QED
        BY <2>2, <4>1 DEF InTable
    <3>6. (Running(q)' <=> Running(q)) /\ \A i \in Nat : ~Queued(i, q)'
      BY <2>1, <3>3 DEF Running, Queued
    <3>7. told'[q] \in Told /\ told'[q] \in Open
      BY <3>2 DEF Told, Open
    <3>8. asked'[q] # Nothing
      BY <1>1, <2>1, <3>1
    <3>9. QED
      BY <2>1, <3>4, <3>5, <3>6, <3>7, <3>8 DEF RequestOK, InTable
  <2>5. QED
    BY <2>3, <2>4
<1>6. ASSUME ChainWasWiped, NEW q \in Requests PROVE RequestOK(q)'
  BY <1>1, <1>6, RequestFrame DEF RequestInv, ChainWasWiped, completions
<1>7. ASSUME NEW r \in Requests, NEW t \in Txs, Publish(r, t), NEW q \in Requests PROVE RequestOK(q)'
  BY <1>7, RequestFrame DEF RequestInv, Publish, completions
<1>8. QED
  BY <1>2, <1>3, <1>4, <1>5, <1>6, <1>7 DEF Main, RequestInv

\* The networking queue keeps RequestInv.
LEMMA RequestNetwork ==
  ASSUME TypeOK, RequestInv,
         \/ \E kind \in {"has", "relayed", "requested"}, p \in Peers, t \in Txs : Receive(kind, p, t)
         \/ Callback
         \/ \E ping \in pings : Pong(ping)
         \/ \E p \in Peers, t \in Txs : NotFoundOrRejected(p, t)
         \/ \E p \in Peers : MempoolRelayed(p) \/ Connect(p) \/ Disconnect(p)
         \/ \E t \in Txs : Confirm(t) \/ Unconfirm(t) \/ Conflict(t)
  PROVE  RequestInv'
<1>1. /\ publishedCallback \in [Txs -> Requests \cup {Nobody}]
      /\ handler \in Handlers \cup {Idle} /\ mainQueue \in Seq(Blocks)
      /\ Nobody \notin Requests /\ Nothing \notin Txs
  BY PublishAssumption DEF TypeOK
<1>2. ASSUME NEW kind \in {"has", "relayed", "requested"}, NEW p \in Peers, NEW t \in Txs,
             Receive(kind, p, t), NEW q \in Requests
      PROVE  RequestOK(q)'
  <2>1. /\ RequestOK(q) /\ UNCHANGED <<asked, told, mainQueue, publishedCallback>>
        /\ handler'.tx = t /\ handler'.callback = publishedCallback[t] /\ handler'.verdict = "none"
        /\ handler = Idle
    BY <1>2 DEF RequestInv, Receive, completions
  <2>2. Running(q)' => publishedCallback[t] = q
    BY <2>1 DEF Running
  <2>3. Running(q)' => asked[q] = t /\ told[q] = <<>> /\ InTable(q)
    BY <2>1, <2>2 DEF RequestOK, InTable
  <2>4. (InTable(q)' <=> InTable(q)) /\ \A i \in Nat : Queued(i, q)' <=> Queued(i, q)
    BY <2>1 DEF InTable, Queued
  <2>5. QED
    BY <2>1, <2>3, <2>4 DEF RequestOK, Open
<1>3. ASSUME Relayed \/ Requested, NEW q \in Requests PROVE RequestOK(q)'
  <2>1. /\ RequestOK(q) /\ UNCHANGED <<asked, told, mainQueue>>
        /\ handler # Idle /\ handler.tx \in Txs /\ handler.verdict = "none"
        /\ handler'.tx = handler.tx /\ handler'.callback = handler.callback
    BY <1>1, <1>3, HandlerType DEF RequestInv, Relayed, Requested, completions
  <2>2. publishedCallback' \in {[publishedCallback EXCEPT ![handler.tx] = Nobody]} \cup
                               IF handler.callback = Nobody THEN {publishedCallback} ELSE {}
    BY <1>3 DEF Relayed, Requested, ForgetCallback
  <2>3. \A u \in Txs : publishedCallback'[u] = q => publishedCallback[u] = q
    BY <1>1, <2>2
  <2>4. Running(q)' => Running(q)
    BY <2>1 DEF Running
  <2>5. Running(q)' => ~InTable(q)'
    <3> SUFFICES ASSUME Running(q)', NEW u \in Txs, publishedCallback'[u] = q PROVE FALSE
      BY DEF InTable
    <3>1. asked[q] = handler.tx /\ handler.callback = q
      BY <2>1, <2>4 DEF RequestOK, Running
    <3>2. u = handler.tx
      BY <2>1, <2>3, <3>1 DEF RequestOK
    <3>3. publishedCallback'[u] = Nobody
      BY <1>1, <2>1, <2>2, <3>1, <3>2
    <3>4. QED
      BY <1>1, <3>3
  <2>6. (InTable(q)' => InTable(q)) /\ \A i \in Nat : Queued(i, q)' <=> Queued(i, q)
    BY <2>1, <2>3 DEF InTable, Queued
  <2>7. QED
    BY <2>1, <2>3, <2>4, <2>5, <2>6 DEF RequestOK
<1>4. ASSUME DispatchAnswer, NEW q \in Requests PROVE RequestOK(q)'
  <2> DEFINE b == AnswerBlock(handler.tx, handler.callback, handler.verdict)
  <2>1. /\ RequestOK(q) /\ UNCHANGED <<asked, told, publishedCallback>> /\ handler' = Idle
        /\ handler # Idle /\ handler.tx \in Txs /\ handler.verdict # "none"
        /\ mainQueue' = Append(mainQueue, b)
    BY <1>1, <1>4, HandlerType DEF RequestInv, DispatchAnswer, completions
  <2>2. b \in Blocks /\ b.type = "answer" /\ b.request = handler.callback
    BY <1>1, <1>4, <2>1, HandlerType, BlockTypes DEF DispatchAnswer
  <2> HIDE DEF b
  <2>3. \A i \in Nat : /\ Queued(i, q) => i # Len(mainQueue) + 1
                       /\ Queued(i, q)' <=> \/ Queued(i, q)
                                            \/ i = Len(mainQueue) + 1 /\ Running(q)
    BY <2>1, <2>2, QueuedAppend DEF Running
  <2>4. ~Running(q)' /\ (InTable(q)' <=> InTable(q))
    BY <2>1 DEF Running, InTable
  <2>5. Running(q) => /\ asked[q] # Nothing /\ told[q] \in Open /\ ~InTable(q)
                      /\ \A i \in Nat : ~Queued(i, q)
    BY <1>1, <2>1 DEF RequestOK
  <2>6. QED
    BY <2>1, <2>3, <2>4, <2>5 DEF RequestOK
<1>5. ASSUME NEW q \in Requests,
             \/ RelayedAgain
             \/ \E ping \in pings : Pong(ping)
             \/ \E p \in Peers, t \in Txs : NotFoundOrRejected(p, t)
             \/ \E p \in Peers : MempoolRelayed(p) \/ Connect(p) \/ Disconnect(p)
             \/ \E t \in Txs : Confirm(t) \/ Unconfirm(t) \/ Conflict(t)
      PROVE  RequestOK(q)'
  <2>1. UNCHANGED <<asked, told, mainQueue>> /\ (handler' = handler \/ handler' = Idle)
    BY <1>5 DEF RelayedAgain, Pong, NotFoundOrRejected, MempoolRelayed, Connect, Disconnect, Confirm,
                Unconfirm, Conflict, completions
  <2>2. \A u \in Txs : publishedCallback'[u] = q => publishedCallback[u] = q
    BY <1>1, <1>5 DEF RelayedAgain, Pong, NotFoundOrRejected, MempoolRelayed, Connect, Disconnect,
                      Confirm, Unconfirm, Conflict
  <2>3. QED
    BY <2>1, <2>2, RequestFrame DEF RequestInv
<1>6. ASSUME Validated, NEW q \in Requests PROVE RequestOK(q)'
  <2>1. /\ RequestOK(q) /\ UNCHANGED <<asked, told, mainQueue, publishedCallback>>
        /\ handler # Idle /\ handler.verdict # "none"
    BY <1>6 DEF RequestInv, Validated, completions
  <2>2. handler'.tx = handler.tx /\ handler'.callback = handler.callback
    BY <1>1, <1>6, HandlerType DEF Validated
  <2>3. /\ Running(q)' => Running(q)
        /\ InTable(q)' <=> InTable(q)
        /\ \A i \in Nat : Queued(i, q)' <=> Queued(i, q)
    BY <2>1, <2>2 DEF Running, InTable, Queued
  <2>4. QED
    BY <2>1, <2>2, <2>3 DEF RequestOK
<1>7. QED
  BY <1>2, <1>3, <1>4, <1>5, <1>6 DEF RequestInv, Callback

\* In every reachable state the completion of a request has not been called, or
\* it has been once and is held nowhere.
LEMMA RequestCorrect == Spec => []RequestInv
<1>1. Init => RequestInv
  <2> SUFFICES ASSUME Init, NEW r \in Requests PROVE RequestOK(r)
    BY DEF RequestInv
  <2>1. /\ asked[r] = Nothing /\ told[r] = <<>> /\ mainQueue = <<>> /\ handler = Idle
        /\ \A t \in Txs : publishedCallback[t] = Nobody
    BY DEF Init
  <2>2. \A i \in Nat : ~Queued(i, r)
    BY <2>1 DEF Queued
  <2>3. QED
    BY <2>1, <2>2, PublishAssumption DEF RequestOK, Told, Open, Running
<1>2. ASSUME TypeOK, RequestInv, Asking, [Next]_vars PROVE RequestInv'
  <2>1. CASE UNCHANGED vars
    BY <1>2, <2>1 DEF RequestInv, RequestOK, InTable, Running, Queued, vars, completions
  <2>2. CASE Next
    BY <1>2, <2>2, RequestMain, RequestNetwork DEF Next
  <2>3. QED
    BY <1>2, <2>1, <2>2
<1>3. QED
  BY <1>1, <1>2, TypeCorrect, AskingCorrect, PTL DEF Spec

-----------------------------------------------------------------------------
(* Completion is kept *)

Answers == {<<"ok">>, <<"doubleSpend">>, <<"timeout", "ok">>, <<"timeout", "doubleSpend">>}

\* The outcome of a request, from what it was told and whether it is held.
LEMMA OutcomeIs ==
  ASSUME NEW s, NEW t, NEW held \in BOOLEAN
  PROVE  /\ s = <<>> /\ t = Nothing => OutcomeOf(s, t, held) = "idle"
         /\ s = <<>> /\ t # Nothing /\ held => OutcomeOf(s, t, held) = "waiting"
         /\ s = <<>> /\ t # Nothing /\ ~held => OutcomeOf(s, t, held) = "forgotten"
         /\ s = <<"refused">> => OutcomeOf(s, t, held) = "refused"
         /\ s = <<"timeout">> => OutcomeOf(s, t, held) = "timedOut"
         /\ s \in Answers => OutcomeOf(s, t, held) = "answered"
<1>1. ASSUME s = <<>>, t = Nothing PROVE OutcomeOf(s, t, held) = "idle"
  BY <1>1 DEF OutcomeOf
<1>2. ASSUME s = <<>>, t # Nothing, held PROVE OutcomeOf(s, t, held) = "waiting"
  BY <1>2 DEF OutcomeOf
<1>3. ASSUME s = <<>>, t # Nothing, ~held PROVE OutcomeOf(s, t, held) = "forgotten"
  BY <1>3 DEF OutcomeOf
<1>4. ASSUME s = <<"refused">> PROVE OutcomeOf(s, t, held) = "refused"
  BY <1>4 DEF OutcomeOf
<1>5. ASSUME s = <<"timeout">> PROVE OutcomeOf(s, t, held) = "timedOut"
  BY <1>5 DEF OutcomeOf
<1>6. ASSUME s \in Answers PROVE OutcomeOf(s, t, held) = "answered"
  BY <1>6 DEF OutcomeOf, Answers
<1>7. QED
  BY <1>1, <1>2, <1>3, <1>4, <1>5, <1>6

\* Told is the sum of its parts.
LEMMA ToldCases ==
  ASSUME NEW s \in Told
  PROVE  /\ s = <<>> \/ s = <<"refused">> \/ s = <<"timeout">> \/ s \in Answers
         /\ s \notin Open \cup {<<"refused">>} => s \in Answers
BY DEF Told, Open, Answers

HeldIsBoolean == \A r \in Requests : Held(r) \in BOOLEAN

\* That a completion is held is true or false, as the abstract state needs it.
LEMMA HeldBoolean == HeldIsBoolean /\ HeldIsBoolean'
BY DEF HeldIsBoolean, Held

outcomes == [r \in Requests |-> Outcome(r)]

\* A request that a step does nothing to keeps its outcome.
LEMMA OutcomeFrame ==
  ASSUME NEW r \in Requests, told'[r] = told[r], asked'[r] = asked[r], Held(r)' <=> Held(r)
  PROVE  Outcome(r)' = Outcome(r)
<1>1. Held(r) \in BOOLEAN /\ Held(r)' \in BOOLEAN
  BY HeldBoolean DEF HeldIsBoolean
<1>2. Held(r)' = Held(r)
  BY <1>1
<1>3. QED
  BY <1>2 DEF Outcome

\* Nothing is told and nothing gets held: some requests may be forgotten.
LEMMA QuietStep ==
  ASSUME RequestInv, UNCHANGED <<asked, told>>, \A r \in Requests : Held(r)' => Held(r)
  PROVE  [CompletionIsKept!Next]_outcomes
<1> DEFINE S == {r \in Requests : Outcome(r) = "waiting" /\ Outcome(r)' = "forgotten"}
<1>1. ASSUME NEW r \in Requests
      PROVE  Outcome(r)' = IF r \in S THEN "forgotten" ELSE Outcome(r)
  <2>1. told[r] \in Told /\ told'[r] = told[r] /\ asked'[r] = asked[r]
    BY DEF RequestInv, RequestOK
  <2>2. Held(r) \in BOOLEAN /\ Held(r)' \in BOOLEAN /\ (Held(r)' => Held(r))
    BY HeldBoolean DEF HeldIsBoolean
  <2>3. CASE Held(r)' <=> Held(r)
    <3>1. Outcome(r)' = Outcome(r)
      BY <2>1, <2>3, OutcomeFrame
    <3>2. QED
      BY <3>1
  <2>4. CASE Held(r) /\ ~Held(r)' /\ told[r] = <<>> /\ asked[r] # Nothing
    <3>1. Outcome(r) = "waiting" /\ Outcome(r)' = "forgotten"
      BY <2>1, <2>2, <2>4, OutcomeIs DEF Outcome
    <3>2. QED
      BY <3>1
  <2>5. CASE Held(r) /\ ~Held(r)' /\ ~(told[r] = <<>> /\ asked[r] # Nothing)
    <3>1. Outcome(r)' = Outcome(r)
      <4>1. CASE told[r] = <<>> /\ asked[r] = Nothing
        BY <2>1, <2>2, <4>1, OutcomeIs DEF Outcome
      <4>2. CASE told[r] = <<"refused">>
        BY <2>1, <2>2, <4>2, OutcomeIs DEF Outcome
      <4>3. CASE told[r] = <<"timeout">>
        BY <2>1, <2>2, <4>3, OutcomeIs DEF Outcome
      <4>4. CASE told[r] \in Answers
        BY <2>1, <2>2, <4>4, OutcomeIs DEF Outcome
      <4>5. QED
        BY <2>1, <2>5, <4>1, <4>2, <4>3, <4>4, ToldCases
    <3>2. QED
      BY <3>1
  <2>6. QED
    BY <2>2, <2>3, <2>4, <2>5
<1>2. outcomes' = [r \in Requests |-> IF r \in S THEN "forgotten" ELSE outcomes[r]]
  BY <1>1 DEF outcomes
<1>3. S \in SUBSET {r \in Requests : outcomes[r] = "waiting"}
  BY DEF outcomes
<1> HIDE DEF S
<1>4. CASE S = {}
  BY <1>2, <1>4 DEF outcomes
<1>5. CASE S # {}
  <2>1. CompletionIsKept!Forget(S)
    BY <1>2, <1>5 DEF CompletionIsKept!Forget, outcomes
  <2>2. S \in SUBSET CompletionIsKept!Waiting
    BY <1>3 DEF CompletionIsKept!Waiting, outcomes
  <2>3. QED
    BY <2>1, <2>2 DEF CompletionIsKept!Next
<1>6. QED
  BY <1>4, <1>5

\* A new request for a transaction takes the table's place of the one before.
LEMMA RefineDispatchSend ==
  ASSUME TypeOK, TypeOK', RequestInv, Asking, DispatchSend
  PROVE  CompletionIsKept!Next
<1>1. /\ publishedCallback \in [Txs -> Requests \cup {Nobody}]
      /\ asked \in [Requests -> Txs \cup {Nothing}]
      /\ Nobody \notin Requests /\ Nothing \notin Txs
  BY PublishAssumption DEF TypeOK
<1>2. PICK r \in Requests, t \in Txs, b \in Blocks :
        /\ publishing # Idle /\ publishing.request = r /\ b.type = "send"
        /\ mainQueue' = Append(mainQueue, b)
        /\ asked' = [asked EXCEPT ![r] = t]
        /\ publishedCallback' = [publishedCallback EXCEPT ![t] = r]
        /\ UNCHANGED <<told, handler>>
  BY DispatchSendFacts
<1>3. /\ asked[r] = Nothing /\ asked' = [asked EXCEPT ![r] = t]
      /\ told' = told /\ handler' = handler
      /\ publishedCallback' = [publishedCallback EXCEPT ![t] = r]
  BY <1>2 DEF Asking
<1>4. \A q \in Requests, i \in Nat : Queued(i, q)' <=> Queued(i, q)
  BY <1>2, QueuedAppend
<1>5. Outcome(r) = "idle" /\ Outcome(r)' = "waiting"
  <2>1. told[r] = <<>>
    BY <1>3 DEF RequestInv, RequestOK
  <2>2. Held(r)'
    <3>1. publishedCallback'[t] = r
      BY <1>1, <1>3
    <3>2. QED
      BY <3>1 DEF Held
  <2>3. asked'[r] = t /\ t # Nothing /\ told'[r] = <<>>
    BY <1>1, <1>3, <2>1
  <2>4. Held(r) \in BOOLEAN /\ Held(r)' \in BOOLEAN
    BY HeldBoolean DEF HeldIsBoolean
  <2>5. Outcome(r) = "idle"
    BY <1>3, <2>1, <2>4, OutcomeIs DEF Outcome
  <2>6. Outcome(r)' = "waiting"
    BY <2>2, <2>3, <2>4, OutcomeIs DEF Outcome
  <2>7. QED
    BY <2>5, <2>6
<1>6. ASSUME NEW q \in Requests, q # r, publishedCallback[t] # q PROVE Outcome(q)' = Outcome(q)
  <2>1. told'[q] = told[q] /\ asked'[q] = asked[q]
    BY <1>1, <1>3, <1>6
  <2>2. \A u \in Txs : publishedCallback'[u] = q <=> publishedCallback[u] = q
    BY <1>1, <1>3, <1>6
  <2>3. (InTable(q)' <=> InTable(q)) /\ (Running(q)' <=> Running(q))
    BY <1>3, <2>2 DEF InTable, Running
  <2>4. Held(q)' <=> Held(q)
    BY <1>4, <2>3, HeldPlaces
  <2>5. QED
    BY <2>1, <2>4, OutcomeFrame
<1>7. ASSUME NEW q \in Requests, q # r, publishedCallback[t] = q
      PROVE  Outcome(q) = "waiting" /\ (Outcome(q)' = "waiting" \/ Outcome(q)' = "forgotten")
  <2>1. asked[q] = t /\ told[q] = <<>> /\ t # Nothing
    BY <1>1, <1>7 DEF RequestInv, RequestOK
  <2>2. told'[q] = <<>> /\ asked'[q] = t
    BY <1>1, <1>3, <1>7, <2>1
  <2>3. Held(q) \in BOOLEAN /\ Held(q)' \in BOOLEAN
    BY HeldBoolean DEF HeldIsBoolean
  <2>4. Held(q)
    BY <1>7 DEF Held
  <2>5. Outcome(q) = "waiting"
    BY <2>1, <2>3, <2>4, OutcomeIs DEF Outcome
  <2>6. CASE Held(q)'
    BY <2>1, <2>2, <2>3, <2>5, <2>6, OutcomeIs DEF Outcome
  <2>7. CASE ~Held(q)'
    BY <2>1, <2>2, <2>3, <2>5, <2>7, OutcomeIs DEF Outcome
  <2>8. QED
    BY <2>6, <2>7
<1>8. outcomes[r] = "idle"
  BY <1>5 DEF outcomes
<1>9. CASE \E q \in Requests : q # r /\ publishedCallback[t] = q /\ Outcome(q)' = "forgotten"
  <2>1. PICK q \in Requests : q # r /\ publishedCallback[t] = q /\ Outcome(q)' = "forgotten"
    BY <1>9
  <2>2. q \in CompletionIsKept!Waiting
    BY <1>7, <2>1 DEF CompletionIsKept!Waiting
  <2>3. outcomes' = [outcomes EXCEPT ![r] = "waiting", ![q] = "forgotten"]
    <3>1. \A x \in Requests : Outcome(x)' = IF x = q THEN "forgotten" ELSE
                                            IF x = r THEN "waiting" ELSE Outcome(x)
      BY <1>5, <1>6, <2>1
    <3>2. QED
      BY <2>1, <3>1 DEF outcomes
  <2>4. CompletionIsKept!Ask(r)
    BY <1>8, <2>2, <2>3 DEF CompletionIsKept!Ask, outcomes
  <2>5. QED
    BY <2>4 DEF CompletionIsKept!Next
<1>10. CASE ~\E q \in Requests : q # r /\ publishedCallback[t] = q /\ Outcome(q)' = "forgotten"
  <2>1. outcomes' = [outcomes EXCEPT ![r] = "waiting"]
    <3>1. \A x \in Requests : Outcome(x)' = IF x = r THEN "waiting" ELSE Outcome(x)
      BY <1>5, <1>6, <1>7, <1>10
    <3>2. QED
      BY <3>1 DEF outcomes
  <2>2. CompletionIsKept!Ask(r)
    BY <1>8, <2>1 DEF CompletionIsKept!Ask, outcomes
  <2>3. QED
    BY <2>2 DEF CompletionIsKept!Next
<1>11. QED
  BY <1>9, <1>10

\* The completion is called by the timer.
LEMMA RefineTimeout ==
  ASSUME TypeOK, TypeOK', RequestInv, NEW t \in Txs, TxTimeout(t)
  PROVE  [CompletionIsKept!Next]_outcomes
<1>1. /\ publishedCallback \in [Txs -> Requests \cup {Nobody}] /\ Nobody \notin Requests
      /\ Nothing \notin Txs /\ told \in [Requests -> Seq(Verdicts)]
  BY PublishAssumption DEF TypeOK, Verdicts
<1>2. /\ asked' = asked /\ handler' = handler /\ mainQueue' = mainQueue
      /\ publishedCallback' = [publishedCallback EXCEPT ![t] = Nobody]
  BY DEF TxTimeout
<1>3. \A q \in Requests : /\ Running(q)' <=> Running(q)
                          /\ \A i \in Nat : Queued(i, q)' <=> Queued(i, q)
  BY <1>2 DEF Running, Queued
<1>4. CASE publishedCallback[t] = Nobody
  <2>1. told' = told /\ publishedCallback' = publishedCallback
    BY <1>1, <1>2, <1>4 DEF TxTimeout
  <2>2. \A q \in Requests : Held(q)' <=> Held(q)
    BY <1>2, <2>1 DEF Held
  <2>3. QED
    BY <1>2, <2>1, <2>2, QuietStep
<1>5. CASE publishedCallback[t] # Nobody
  <2>1. PICK r \in Requests : publishedCallback[t] = r
    BY <1>1, <1>5
  <2>2. asked[r] = t /\ told[r] = <<>> /\ t # Nothing /\ Held(r)
    BY <1>1, <2>1 DEF RequestInv, RequestOK, Held
  <2>3. told' = [told EXCEPT ![r] = <<"timeout">>]
    BY <1>5, <2>1, <2>2, Tellings DEF TxTimeout
  <2>4. Outcome(r) = "waiting"
    BY <2>2, HeldBoolean, OutcomeIs DEF HeldIsBoolean, Outcome
  <2>5. Outcome(r)' = "timedOut"
    <3>1. told'[r] = <<"timeout">>
      BY <1>1, <2>3
    <3>2. QED
      BY <3>1, HeldBoolean, OutcomeIs DEF HeldIsBoolean, Outcome
  <2>6. ASSUME NEW q \in Requests, q # r PROVE Outcome(q)' = Outcome(q)
    <3>1. \A u \in Txs : publishedCallback'[u] = q <=> publishedCallback[u] = q
      BY <1>1, <1>2, <2>1, <2>6
    <3>2. InTable(q)' <=> InTable(q)
      BY <3>1 DEF InTable
    <3>3. Held(q)' <=> Held(q)
      BY <1>3, <3>2, HeldPlaces
    <3>4. told'[q] = told[q] /\ asked'[q] = asked[q]
      BY <1>1, <1>2, <2>3, <2>6
    <3>5. QED
      BY <3>3, <3>4, OutcomeFrame
  <2>7. outcomes[r] = "waiting" /\ outcomes' = [outcomes EXCEPT ![r] = "timedOut"]
    BY <2>4, <2>5, <2>6 DEF outcomes
  <2>8. CompletionIsKept!TimeOut(r)
    BY <2>7 DEF CompletionIsKept!TimeOut, outcomes
  <2>9. QED
    BY <2>8 DEF CompletionIsKept!Next
<1>6. QED
  BY <1>4, <1>5

\* The main thread's queue calls a completion, or does nothing to any request.
LEMMA RefineBlock ==
  ASSUME TypeOK, TypeOK', RequestInv, RunSend \/ RunAnswer
  PROVE  [CompletionIsKept!Next]_outcomes
<1>1. /\ mainQueue # <<>> /\ mainQueue' = Tail(mainQueue)
      /\ UNCHANGED <<asked, publishedCallback, handler>>
  BY DEF RunSend, RunAnswer, completions
<1>2. \A q \in Requests : (InTable(q)' <=> InTable(q)) /\ (Running(q)' <=> Running(q))
  BY <1>1 DEF InTable, Running
<1>3. \A q \in Requests, i \in Nat : Queued(i, q)' => i + 1 \in Nat /\ Queued(i + 1, q)
  BY <1>1, QueuedTail
<1>4. \A q \in Requests : Held(q)' => Held(q)
  BY <1>2, <1>3, HeldPlaces
<1>5. CASE told' = told
  BY <1>1, <1>4, <1>5, QuietStep
<1>6. CASE told' # told
  <2>1. PICK r \in Requests :
          /\ Head(mainQueue).type = "answer" /\ Head(mainQueue).request = r
          /\ Head(mainQueue).verdict \in {"ok", "doubleSpend"}
          /\ told' = [told EXCEPT ![r] = Append(@, Head(mainQueue).verdict)]
    <3>1. RunAnswer /\ Head(mainQueue).request # Nobody
      BY <1>6 DEF RunSend, RunAnswer, completions
    <3>2. Head(mainQueue) \in Blocks
      BY <1>1, TailElements DEF TypeOK
    <3>3. /\ Head(mainQueue).type = "answer" /\ Head(mainQueue).request \in Requests
          /\ Head(mainQueue).verdict \in {"ok", "doubleSpend"}
      BY <3>1, <3>2, BlockFields DEF RunAnswer
    <3>4. told' = [told EXCEPT ![Head(mainQueue).request] = Append(@, Head(mainQueue).verdict)]
      BY <3>1 DEF RunAnswer
    <3>5. QED
      BY <3>3, <3>4
  <2>2. Queued(1, r)
    BY <1>1, <2>1, QueuedTail
  <2>3. /\ asked[r] # Nothing /\ told[r] \in Open /\ Held(r)
    BY <2>2, HeldPlaces DEF RequestInv, RequestOK
  <2>4. told'[r] \in Answers
    <3>1. told'[r] = Append(told[r], Head(mainQueue).verdict)
      BY <2>1 DEF TypeOK
    <3>2. QED
      BY <2>1, <2>3, <3>1, Tellings, ToldCases
  <2>5. Outcome(r) \in {"waiting", "timedOut"}
    <3>1. CASE told[r] = <<>>
      BY <2>3, <3>1, HeldBoolean, OutcomeIs DEF HeldIsBoolean, Outcome
    <3>2. CASE told[r] = <<"timeout">>
      BY <3>2, HeldBoolean, OutcomeIs DEF HeldIsBoolean, Outcome
    <3>3. QED
      BY <2>3, <3>1, <3>2 DEF Open
  <2>6. Outcome(r)' = "answered"
    BY <2>4, HeldBoolean, OutcomeIs DEF HeldIsBoolean, Outcome
  <2>7. ASSUME NEW q \in Requests, q # r PROVE Outcome(q)' = Outcome(q)
    <3>1. \A i \in Nat : Queued(i, q) => i - 1 \in Nat /\ Queued(i - 1, q)'
      <4>1. /\ Len(mainQueue) \in Nat /\ Len(mainQueue) >= 1
            /\ Head(mainQueue) = mainQueue[1]
            /\ Len(mainQueue') = Len(mainQueue) - 1
            /\ \A j \in 1 .. Len(mainQueue') : mainQueue'[j] = mainQueue[j + 1]
        BY <1>1, TailElements DEF TypeOK
      <4> SUFFICES ASSUME NEW i \in Nat, Queued(i, q) PROVE i - 1 \in Nat /\ Queued(i - 1, q)'
        OBVIOUS
      <4>2. i # 1 /\ i \in 1 .. Len(mainQueue)
        BY <2>1, <2>7, <4>1 DEF Queued
      <4>3. i - 1 \in 1 .. Len(mainQueue') /\ (i - 1) + 1 = i
        BY <4>1, <4>2
      <4>4. mainQueue'[i - 1] = mainQueue[i]
        BY <4>1, <4>3
      <4>5. QED
        BY <4>3, <4>4 DEF Queued
    <3>2. Held(q)' <=> Held(q)
      BY <1>2, <1>4, <3>1, HeldPlaces
    <3>3. told'[q] = told[q] /\ asked'[q] = asked[q]
      BY <1>1, <2>1, <2>7 DEF TypeOK
    <3>4. QED
      BY <3>2, <3>3, OutcomeFrame
  <2>8. outcomes[r] \in {"waiting", "timedOut"} /\ outcomes' = [outcomes EXCEPT ![r] = "answered"]
    BY <2>5, <2>6, <2>7 DEF outcomes
  <2>9. CompletionIsKept!Answer(r)
    BY <2>8 DEF CompletionIsKept!Answer, outcomes
  <2>10. QED
    BY <2>9 DEF CompletionIsKept!Next
<1>7. QED
  BY <1>5, <1>6

\* A request that is refused.
LEMMA RefineRefuse ==
  ASSUME TypeOK, RequestInv, NEW r \in Requests, NEW t \in Txs, Refuse(r, t)
  PROVE  CompletionIsKept!Next
<1>1. /\ asked[r] = Nothing /\ told[r] = <<>> /\ told' = [told EXCEPT ![r] = <<"refused">>]
      /\ asked' = [asked EXCEPT ![r] = t]
      /\ UNCHANGED <<publishedCallback, handler, mainQueue>>
  BY DEF Refuse, RequestInv, RequestOK
<1>2. Outcome(r) = "idle"
  BY <1>1, HeldBoolean, OutcomeIs DEF HeldIsBoolean, Outcome
<1>3. Outcome(r)' = "refused"
  <2>1. told'[r] = <<"refused">>
    BY <1>1 DEF TypeOK
  <2>2. QED
    BY <2>1, HeldBoolean, OutcomeIs DEF HeldIsBoolean, Outcome
<1>4. ASSUME NEW q \in Requests, q # r PROVE Outcome(q)' = Outcome(q)
  <2>1. Held(q)' <=> Held(q)
    BY <1>1 DEF Held
  <2>2. told'[q] = told[q] /\ asked'[q] = asked[q]
    BY <1>1, <1>4 DEF TypeOK
  <2>3. QED
    BY <2>1, <2>2, OutcomeFrame
<1>5. outcomes[r] = "idle" /\ outcomes' = [outcomes EXCEPT ![r] = "refused"]
  BY <1>2, <1>3, <1>4 DEF outcomes
<1>6. CompletionIsKept!Refuse(r)
  BY <1>5 DEF CompletionIsKept!Refuse, outcomes
<1>7. QED
  BY <1>6 DEF CompletionIsKept!Next

\* The networking queue, a wipe and the first step of a publication tell nobody anything.
LEMMA RefineNetwork ==
  ASSUME TypeOK, TypeOK', RequestInv,
         \/ ChainWasWiped
         \/ \E r \in Requests, t \in Txs : Publish(r, t)
         \/ \E kind \in {"has", "relayed", "requested"}, p \in Peers, t \in Txs : Receive(kind, p, t)
         \/ Callback
         \/ \E ping \in pings : Pong(ping)
         \/ \E p \in Peers, t \in Txs : NotFoundOrRejected(p, t)
         \/ \E p \in Peers : MempoolRelayed(p) \/ Connect(p) \/ Disconnect(p)
         \/ \E t \in Txs : Confirm(t) \/ Unconfirm(t) \/ Conflict(t)
  PROVE  [CompletionIsKept!Next]_outcomes
<1>1. /\ publishedCallback \in [Txs -> Requests \cup {Nobody}] /\ Nobody \notin Requests
      /\ handler \in Handlers \cup {Idle}
  BY PublishAssumption DEF TypeOK
<1>2. UNCHANGED <<asked, told>>
  BY DEF ChainWasWiped, Publish, Receive, Callback, Relayed, RelayedAgain, Requested, Validated,
         DispatchAnswer, Pong, NotFoundOrRejected, MempoolRelayed, Connect, Disconnect, Confirm,
         Unconfirm, Conflict, completions
<1>3. ASSUME NEW q \in Requests, Held(q)' PROVE Held(q)
  <2>1. CASE InTable(q)'
    <3>1. \A u \in Txs : publishedCallback'[u] = q => publishedCallback[u] = q
      BY <1>1 DEF ChainWasWiped, Publish, Receive, Callback, Relayed, RelayedAgain, Requested,
                  Validated, DispatchAnswer, Pong, NotFoundOrRejected, MempoolRelayed, Connect,
                  Disconnect, Confirm, Unconfirm, Conflict, ForgetCallback
    <3>2. QED
      BY <2>1, <3>1 DEF InTable, Held
  <2>2. CASE Running(q)'
    <3>1. \/ handler' = handler \/ handler' = Idle
          \/ handler # Idle /\ handler'.callback = handler.callback
          \/ \E t \in Txs : handler'.callback = publishedCallback[t]
      <4>1. CASE Relayed \/ Requested \/ Validated
        BY <1>1, <4>1, HandlerType DEF Relayed, Requested, Validated
      <4>2. CASE \E kind \in {"has", "relayed", "requested"}, p \in Peers, t \in Txs :
                   Receive(kind, p, t)
        BY <4>2 DEF Receive
      <4>3. CASE /\ ~(Relayed \/ Requested \/ Validated)
                 /\ ~\E kind \in {"has", "relayed", "requested"}, p \in Peers, t \in Txs :
                      Receive(kind, p, t)
        BY <4>3 DEF ChainWasWiped, Publish, Callback, RelayedAgain, DispatchAnswer, Pong, NotFoundOrRejected,
                    MempoolRelayed, Connect, Disconnect, Confirm, Unconfirm, Conflict
      <4>4. QED
        BY <4>1, <4>2, <4>3
    <3>2. QED
      BY <2>2, <3>1 DEF Running, Held
  <2>3. CASE \E i \in Nat : Queued(i, q)'
    <3>1. PICK i \in Nat : Queued(i, q)'
      BY <2>3
    <3>2. CASE mainQueue' = mainQueue
      BY <3>1, <3>2, HeldPlaces DEF Queued
    <3>3. CASE DispatchAnswer
      <4> DEFINE b == AnswerBlock(handler.tx, handler.callback, handler.verdict)
      <4>1. handler # Idle /\ b \in Blocks /\ b.request = handler.callback
        BY <1>1, <3>3, HandlerType, BlockTypes DEF DispatchAnswer
      <4>2. mainQueue' = Append(mainQueue, b)
        BY <3>3 DEF DispatchAnswer
      <4> HIDE DEF b
      <4>3. Queued(i, q) \/ Running(q)
        BY <3>1, <4>1, <4>2, QueuedAppend DEF Running
      <4>4. QED
        BY <4>3, HeldPlaces
    <3>4. mainQueue' = mainQueue \/ DispatchAnswer
      BY DEF ChainWasWiped, Publish, Receive, Callback, Relayed, RelayedAgain, Requested, Validated, Pong,
             NotFoundOrRejected, MempoolRelayed, Connect, Disconnect, Confirm, Unconfirm, Conflict
    <3>5. QED
      BY <3>2, <3>3, <3>4
  <2>4. QED
    BY <1>3, <2>1, <2>2, <2>3, HeldPlaces
<1>4. QED
  BY <1>2, <1>3, QuietStep

\* publishTransaction:completion: implements Completion, with any number of requests, transactions
\* and peers and however the two threads interleave.
THEOREM PublishImplementsCompletion == Spec => CompletionSpec
<1>1. Init => CompletionIsKept!Init
  <2> SUFFICES ASSUME Init, NEW r \in Requests PROVE Outcome(r) = "idle"
    BY DEF CompletionIsKept!Init
  <2>1. told[r] = <<>> /\ asked[r] = Nothing
    BY DEF Init
  <2>2. QED
    BY <2>1, HeldBoolean, OutcomeIs DEF HeldIsBoolean, Outcome
<1>2. ASSUME TypeOK, TypeOK', RequestInv, Asking, [Next]_vars PROVE [CompletionIsKept!Next]_outcomes
  <2>1. CASE UNCHANGED vars
    <3>1. \A r \in Requests : Held(r)' <=> Held(r)
      BY <2>1 DEF Held, vars
    <3>2. QED
      BY <1>2, <2>1, <3>1, QuietStep DEF vars, completions
  <2>2. CASE Next
    BY <1>2, <2>2, RefineRefuse, RefineDispatchSend, RefineBlock, RefineTimeout, RefineNetwork
       DEF Next, Main
  <2>3. QED
    BY <1>2, <2>1, <2>2
<1>3. QED
  BY <1>1, <1>2, TypeCorrect, RequestCorrect, AskingCorrect, PTL
     DEF Spec, CompletionSpec, CompletionIsKept!Spec, outcomes

-----------------------------------------------------------------------------
(* Why a request is forgotten *)

\* A request that waits, and one that is forgotten, was told nothing; they differ in whether it is held.
LEMMA OutcomeMeans ==
  ASSUME NEW s \in Told, NEW t, NEW held \in BOOLEAN
  PROVE  /\ OutcomeOf(s, t, held) = "waiting" => s = <<>> /\ t # Nothing /\ held
         /\ OutcomeOf(s, t, held) = "forgotten" => s = <<>> /\ t # Nothing /\ ~held
<1>1. CASE s = <<>> /\ t = Nothing
  BY <1>1, OutcomeIs
<1>2. CASE s = <<>> /\ t # Nothing
  BY <1>2, OutcomeIs
<1>3. CASE s = <<"refused">>
  BY <1>3, OutcomeIs
<1>4. CASE s = <<"timeout">>
  BY <1>4, OutcomeIs
<1>5. CASE s \in Answers
  BY <1>5, OutcomeIs
<1>6. QED
  BY <1>1, <1>2, <1>3, <1>4, <1>5, ToldCases

\* The table loses the only hold on a request: another one has its place, it is confirmed, the chain
\* is wiped, or a callback clears a completion that it never read.
LEMMA TableLoses ==
  ASSUME TypeOK, TypeOK', RequestInv, Asking, TimerInv, Next, NEW r \in Requests,
         NEW u \in Txs, publishedCallback[u] = r, ~Held(r)', told'[r] = <<>>
  PROVE  \/ \E q \in Requests : asked[q] = Nothing /\ asked'[q] = asked[r]
         \/ asked[r] \in confirmed' \ confirmed
         \/ ChainWasWiped
         \/ asked[r] \in crossed
<1>1. /\ publishedCallback \in [Txs -> Requests \cup {Nobody}] /\ Nobody \notin Requests
      /\ handler \in Handlers \cup {Idle} /\ asked \in [Requests -> Txs \cup {Nothing}]
      /\ told \in [Requests -> Seq(Verdicts)]
  BY PublishAssumption DEF TypeOK, Verdicts
<1>2. asked[r] = u /\ told[r] = <<>>
  BY DEF RequestInv, RequestOK
<1>3. publishedCallback'[u] # r
  BY DEF Held
<1>4. ASSUME DispatchSend PROVE \E x \in Requests : asked[x] = Nothing /\ asked'[x] = asked[r]
  <2>1. PICK q \in Requests, t \in Txs :
          /\ publishing # Idle /\ publishing.request = q
          /\ asked' = [asked EXCEPT ![q] = t]
          /\ publishedCallback' = [publishedCallback EXCEPT ![t] = q]
    BY <1>4, DispatchSendFacts
  <2>2. asked[q] = Nothing /\ asked'[q] = t /\ t = u
    BY <1>1, <1>3, <2>1 DEF Asking
  <2>3. QED
    BY <1>2, <2>2
<1>5. ASSUME NEW t \in Txs, TxTimeout(t) PROVE FALSE
  <2>1. t = u
    BY <1>1, <1>3, <1>5 DEF TxTimeout
  <2>2. told'[r] = Append(told[r], "timeout")
    BY <1>1, <1>5, <2>1 DEF TxTimeout
  <2>3. QED
    BY <1>2, <2>2, Tellings
<1>6. ASSUME NEW t \in Txs, Confirm(t) PROVE asked[r] \in confirmed' \ confirmed
  BY <1>1, <1>2, <1>3, <1>6 DEF Confirm
<1>7. CASE Relayed \/ Requested
  <2>1. handler # Idle /\ handler.verdict = "none" /\ handler \in Handlers
    BY <1>1, <1>7 DEF Relayed, Requested
  <2>2. handler.tx = u
    BY <1>1, <1>3, <1>7 DEF Relayed, Requested, ForgetCallback
  <2>3. handler'.callback = handler.callback /\ handler' # Idle
    <3>1. \E v \in {"counted", "ok"} : handler' = [handler EXCEPT !.verdict = v]
      BY <1>7 DEF Relayed, Requested
    <3>2. handler' \in Handlers /\ handler'.callback = handler.callback
      BY <1>1, <2>1, <3>1, HandlerType
    <3>3. QED
      BY <3>2, IdleAssumption
  <2>4. handler.callback # r
    BY <2>3 DEF Held
  <2>5. ~CallbackKnown(u)
    BY <1>1, <2>1, <2>2, <2>4 DEF CallbackKnown
  <2>6. QED
    BY <1>2, <2>5 DEF TimerInv
<1>8. CASE UNCHANGED publishedCallback
  BY <1>3, <1>8
<1>9. \/ DispatchSend
      \/ \E t \in Txs : TxTimeout(t) \/ Confirm(t)
      \/ Relayed \/ Requested \/ ChainWasWiped \/ UNCHANGED publishedCallback
  BY DEF Next, Refuse, Publish, Main, RunSend, RunAnswer, Receive, Callback, RelayedAgain, Validated,
         DispatchAnswer, Pong, NotFoundOrRejected, MempoolRelayed, Connect, Disconnect, Unconfirm,
         Conflict, completions
<1>10. QED
  BY <1>4, <1>5, <1>6, <1>7, <1>8, <1>9

\* A callback hands the request on to the main thread.
LEMMA CallbackHandsOn ==
  ASSUME TypeOK, TypeOK', Next, NEW r \in Requests, Running(r), RequestInv, told[r] = <<>>
  PROVE  Held(r)'
<1>1. handler \in Handlers \cup {Idle} /\ Nobody \notin Requests
  BY PublishAssumption DEF TypeOK
<1>2. handler # Idle /\ handler.callback = r
  BY DEF Running
<1>3. CASE handler' = handler
  BY <1>2, <1>3 DEF Held
<1>4. CASE Relayed \/ Requested \/ Validated
  <2>1. \E v \in {"counted", "ok", "doubleSpend"} : handler' = [handler EXCEPT !.verdict = v]
    BY <1>4 DEF Relayed, Requested, Validated
  <2>2. handler' \in Handlers /\ handler'.callback = r
    BY <1>1, <1>2, <2>1, HandlerType
  <2>3. QED
    BY <2>2, IdleAssumption DEF Held
<1>5. CASE DispatchAnswer
  <2> DEFINE b == AnswerBlock(handler.tx, handler.callback, handler.verdict)
  <2>1. b \in Blocks /\ b.type = "answer" /\ b.request = r
    BY <1>1, <1>2, <1>5, HandlerType, BlockTypes DEF DispatchAnswer
  <2>2. mainQueue' = Append(mainQueue, b)
    BY <1>5 DEF DispatchAnswer
  <2> HIDE DEF b
  <2>3. \E i \in Nat : Queued(i, r)'
    BY <2>1, <2>2, QueuedAppend
  <2>4. QED
    BY <2>3, HeldPlaces
<1>6. handler' = handler \/ Relayed \/ Requested \/ Validated \/ DispatchAnswer
  BY <1>1, <1>2 DEF Next, Refuse, Publish, TxTimeout, ChainWasWiped, Main, DispatchSend, RunSend,
     RunAnswer, Receive, Callback, RelayedAgain, Pong, NotFoundOrRejected, MempoolRelayed, Connect,
     Disconnect, Confirm, Unconfirm, Conflict, completions
<1>7. QED
  BY <1>3, <1>4, <1>5, <1>6

\* An answer in the queue of the main thread stays there until it is given.
LEMMA QueueKeeps ==
  ASSUME TypeOK, TypeOK', Next, NEW r \in Requests, NEW i \in Nat, Queued(i, r), told[r] = <<>>,
         told'[r] = <<>>
  PROVE  Held(r)'
<1>1. CASE mainQueue' = mainQueue
  BY <1>1, HeldPlaces DEF Queued
<1>2. ASSUME NEW b \in Blocks, mainQueue' = Append(mainQueue, b) PROVE Held(r)'
  BY <1>2, QueuedAppend, HeldPlaces
<1>3. CASE RunSend \/ RunAnswer
  <2>1. /\ Len(mainQueue) \in Nat /\ Len(mainQueue) >= 1
        /\ Head(mainQueue) = mainQueue[1] /\ Head(mainQueue) \in Blocks
        /\ Len(mainQueue') = Len(mainQueue) - 1
        /\ \A j \in 1 .. Len(mainQueue') : mainQueue'[j] = mainQueue[j + 1]
    <3>1. mainQueue \in Seq(Blocks) /\ mainQueue # <<>> /\ mainQueue' = Tail(mainQueue)
      BY <1>3 DEF TypeOK, RunSend, RunAnswer
    <3>2. QED
      BY <3>1, TailElements
  <2>2. i # 1
    <3> SUFFICES ASSUME i = 1 PROVE FALSE
      OBVIOUS
    <3>1. Head(mainQueue).type = "answer" /\ Head(mainQueue).request = r
      BY <2>1 DEF Queued
    <3>2. RunAnswer /\ r # Nobody /\ Head(mainQueue).verdict \in {"ok", "doubleSpend"}
      BY <1>3, <2>1, <3>1, BlockFields, PublishAssumption DEF RunSend
    <3>3. told'[r] = Append(told[r], Head(mainQueue).verdict)
      BY <3>1, <3>2 DEF RunAnswer, TypeOK
    <3>4. QED
      BY <3>2, <3>3, Tellings DEF Open
  <2>3. i - 1 \in 1 .. Len(mainQueue') /\ (i - 1) + 1 = i
    BY <2>1, <2>2 DEF Queued
  <2>4. mainQueue'[i - 1] = mainQueue[i]
    BY <2>1, <2>3
  <2>5. Queued(i - 1, r)' /\ i - 1 \in Nat
    BY <2>3, <2>4 DEF Queued
  <2>6. QED
    BY <2>5, HeldPlaces
<1>4. \/ mainQueue' = mainQueue \/ RunSend \/ RunAnswer
      \/ \E b \in Blocks : mainQueue' = Append(mainQueue, b)
  <2>1. CASE DispatchSend
    BY <2>1, DispatchSendFacts
  <2>2. CASE DispatchAnswer
    BY <2>2, HandlerType, BlockTypes DEF DispatchAnswer, TypeOK
  <2>3. QED
    BY <2>1, <2>2 DEF Next, Main, Refuse, Publish, TxTimeout, ChainWasWiped, Receive, Callback, Relayed,
       RelayedAgain, Requested, Validated, Pong, NotFoundOrRejected, MempoolRelayed, Connect,
       Disconnect, Confirm, Unconfirm, Conflict
<1>5. QED
  BY <1>1, <1>2, <1>3, <1>4

\* A completion that was never called is lost only when another request takes its place, when its
\* transaction is confirmed, when the chain is wiped, or when its transaction was published again
\* during a callback about it.
THEOREM ForgottenWithReason == Spec => ForgottenForAReason
<1>1. ASSUME TypeOK, TypeOK', RequestInv, RequestInv', Asking, TimerInv, [Next]_vars
      PROVE  [\A r \in Requests :
                Outcome(r) = "waiting" /\ Outcome(r)' = "forgotten" =>
                  \/ \E q \in Requests : asked[q] = Nothing /\ asked'[q] = asked[r]
                  \/ asked[r] \in confirmed' \ confirmed
                  \/ ChainWasWiped
                  \/ asked[r] \in crossed]_vars
  <2> SUFFICES ASSUME Next, NEW r \in Requests, Outcome(r) = "waiting", Outcome(r)' = "forgotten"
               PROVE  \/ \E q \in Requests : asked[q] = Nothing /\ asked'[q] = asked[r]
                      \/ asked[r] \in confirmed' \ confirmed
                      \/ ChainWasWiped
                      \/ asked[r] \in crossed
    BY <1>1
  <2>1. told[r] \in Told /\ told'[r] \in Told
    BY <1>1 DEF RequestInv, RequestOK
  <2>2. Held(r) \in BOOLEAN /\ Held(r)' \in BOOLEAN
    BY HeldBoolean DEF HeldIsBoolean
  <2>3. told[r] = <<>> /\ Held(r)
    BY <2>1, <2>2, OutcomeMeans DEF Outcome
  <2>4. told'[r] = <<>> /\ ~Held(r)'
    BY <2>1, <2>2, OutcomeMeans DEF Outcome
  <2>5. InTable(r)
    BY <1>1, <2>3, <2>4, HeldPlaces, CallbackHandsOn, QueueKeeps
  <2>6. QED
    BY <1>1, <2>4, <2>5, TableLoses DEF InTable
<1>2. QED
  BY <1>1, TypeCorrect, RequestCorrect, AskingCorrect, TimerCorrect, PTL DEF Spec, ForgottenForAReason
=============================================================================
