-------------------------- MODULE DSPeersChoiceProofs --------------------------
(***************************************************************************)
(* Proofs about DSPeers that rest on the order of the blocks in the        *)
(* networking queue: who still wants a connection at the limit of failures *)
(* has been told, a download peer is chosen once all are connected, and    *)
(* nobody waits in vain for a connection.                                  *)
(***************************************************************************)
EXTENDS DSPeersProofs

USE PeersAssumption

-----------------------------------------------------------------------------
(* The order of blocks.                                                    *)

\* A block of T comes after each block of S.
Followed(q, S, T) ==
    \A i \in 1 .. Len(q) : q[i] \in S => \E j \in 1 .. Len(q) : j > i /\ q[j] \in T

Has(q, T) == \E i \in 1 .. Len(q) : q[i] \in T

\* The first block leaves the queue.
LEMMA OrderTail ==
    ASSUME NEW q \in Seq(Blocks), q # <<>>, NEW S, NEW T
    PROVE  /\ Tail(q) \in Seq(Blocks) /\ Head(q) \in Blocks
           /\ Followed(q, S, T) => Followed(Tail(q), S, T)
           /\ Followed(q, S, T) /\ Head(q) \in S => Has(Tail(q), T)
           /\ Has(q, T) /\ Head(q) \notin T => Has(Tail(q), T)
  <1>1. /\ Tail(q) \in Seq(Blocks) /\ Head(q) \in Blocks /\ Head(q) = q[1]
        /\ Len(q) \in Nat /\ Len(q) >= 1 /\ Len(Tail(q)) = Len(q) - 1
        /\ \A i \in 1 .. Len(Tail(q)) : Tail(q)[i] = q[i + 1]
    OBVIOUS
  <1>2. ASSUME NEW j \in 1 .. Len(q), j > 1
        PROVE  j - 1 \in 1 .. Len(Tail(q)) /\ Tail(q)[j - 1] = q[j]
    BY <1>1, <1>2
  <1>3. ASSUME Followed(q, S, T)  PROVE Followed(Tail(q), S, T)
    <2>1. SUFFICES ASSUME NEW i \in 1 .. Len(Tail(q)), Tail(q)[i] \in S
                   PROVE  \E j \in 1 .. Len(Tail(q)) : j > i /\ Tail(q)[j] \in T
      BY DEF Followed
    <2>2. i + 1 \in 1 .. Len(q) /\ q[i + 1] \in S  BY <1>1, <2>1
    <2>3. PICK j \in 1 .. Len(q) : j > i + 1 /\ q[j] \in T  BY <1>3, <2>2 DEF Followed
    <2>4. j > 1 /\ j - 1 > i  BY <2>3
    <2>5. j - 1 \in 1 .. Len(Tail(q)) /\ Tail(q)[j - 1] \in T  BY <1>2, <2>3, <2>4
    <2>6. QED  BY <2>4, <2>5
  <1>4. ASSUME Followed(q, S, T), Head(q) \in S  PROVE Has(Tail(q), T)
    <2>1. 1 \in 1 .. Len(q) /\ q[1] \in S  BY <1>1, <1>4
    <2>2. PICK j \in 1 .. Len(q) : j > 1 /\ q[j] \in T  BY <1>4, <2>1 DEF Followed
    <2>3. QED  BY <1>2, <2>2 DEF Has
  <1>5. ASSUME Has(q, T), Head(q) \notin T  PROVE Has(Tail(q), T)
    <2>1. PICK j \in 1 .. Len(q) : q[j] \in T  BY <1>5 DEF Has
    <2>2. j > 1  BY <1>1, <1>5, <2>1
    <2>3. QED  BY <1>2, <2>1, <2>2 DEF Has
  <1>6. QED  BY <1>1, <1>3, <1>4, <1>5

\* Blocks are added behind the others, none of them of S.
LEMMA OrderConcat ==
    ASSUME NEW q \in Seq(Blocks), NEW r \in Seq(Blocks), NEW S, NEW T,
           \A i \in 1 .. Len(r) : r[i] \notin S
    PROVE  /\ q \o r \in Seq(Blocks)
           /\ Followed(q, S, T) => Followed(q \o r, S, T)
           /\ Has(q, T) => Has(q \o r, T)
  <1>1. /\ q \o r \in Seq(Blocks) /\ Len(q) \in Nat /\ Len(r) \in Nat
        /\ Len(q \o r) = Len(q) + Len(r)
        /\ \A i \in 1 .. Len(q) : (q \o r)[i] = q[i]
        /\ \A i \in 1 .. Len(r) : (q \o r)[Len(q) + i] = r[i]
    OBVIOUS
  <1>2. ASSUME Followed(q, S, T)  PROVE Followed(q \o r, S, T)
    <2>1. SUFFICES ASSUME NEW i \in 1 .. Len(q \o r), (q \o r)[i] \in S
                   PROVE  \E j \in 1 .. Len(q \o r) : j > i /\ (q \o r)[j] \in T
      BY DEF Followed
    <2>2. CASE i \in 1 .. Len(q)
      <3>1. PICK j \in 1 .. Len(q) : j > i /\ q[j] \in T
        BY <1>1, <1>2, <2>1, <2>2 DEF Followed
      <3>2. QED  BY <1>1, <3>1
    <2>3. CASE i \notin 1 .. Len(q)
      <3>1. i - Len(q) \in 1 .. Len(r) /\ i = Len(q) + (i - Len(q))  BY <1>1, <2>3
      <3>2. (q \o r)[i] = r[i - Len(q)]  BY <1>1, <3>1
      <3>3. QED  BY <2>1, <3>1, <3>2
    <2>4. QED  BY <2>2, <2>3
  <1>3. ASSUME Has(q, T)  PROVE Has(q \o r, T)
    <2>1. PICK i \in 1 .. Len(q) : q[i] \in T  BY <1>3 DEF Has
    <2>2. QED  BY <1>1, <2>1 DEF Has
  <1>4. QED  BY <1>1, <1>2, <1>3

\* One more block, not of S.
LEMMA OrderAppend ==
    ASSUME NEW q \in Seq(Blocks), NEW b \in Blocks, NEW S, NEW T, b \notin S
    PROVE  /\ Append(q, b) \in Seq(Blocks)
           /\ Followed(q, S, T) => Followed(Append(q, b), S, T)
           /\ Has(q, T) => Has(Append(q, b), T)
  <1>1. <<b>> \in Seq(Blocks) /\ \A i \in 1 .. Len(<<b>>) : <<b>>[i] \notin S  OBVIOUS
  <1>2. Append(q, b) = q \o <<b>>  OBVIOUS
  <1> DEFINE r == <<b>>
  <1>3. r \in Seq(Blocks) /\ \A i \in 1 .. Len(r) : r[i] \notin S  BY <1>1
  <1>4. /\ q \o r \in Seq(Blocks)
        /\ Followed(q, S, T) => Followed(q \o r, S, T)
        /\ Has(q, T) => Has(q \o r, T)
    <2> HIDE DEF r
    <2> QED  BY <1>3, OrderConcat
  <1>5. QED  BY <1>2, <1>4

\* A block of T at the end comes after every block of S.
LEMMA OrderLast ==
    ASSUME NEW q \in Seq(Blocks), NEW b \in Blocks, NEW S, NEW T, b \notin S, b \in T
    PROVE  /\ Append(q, b) \in Seq(Blocks)
           /\ Followed(Append(q, b), S, T)
           /\ Has(Append(q, b), T)
  <1>1. /\ Append(q, b) \in Seq(Blocks) /\ Len(q) \in Nat
        /\ Len(Append(q, b)) = Len(q) + 1
        /\ \A i \in 1 .. Len(q) : Append(q, b)[i] = q[i]
        /\ Append(q, b)[Len(q) + 1] = b
    OBVIOUS
  <1>2. Len(q) + 1 \in 1 .. Len(Append(q, b))  BY <1>1
  <1>3. Followed(Append(q, b), S, T)
    <2>1. SUFFICES ASSUME NEW i \in 1 .. Len(Append(q, b)), Append(q, b)[i] \in S
                   PROVE  Len(q) + 1 > i
      BY <1>1, <1>2 DEF Followed
    <2>2. i # Len(q) + 1  BY <1>1, <2>1
    <2>3. QED  BY <1>1, <2>2
  <1>4. QED  BY <1>1, <1>2, <1>3 DEF Has

-----------------------------------------------------------------------------
(* Who wants a connection at the limit of failures.                        *)

Connects    == {b \in Blocks : b.kind = "connect"}
Disconnects == {b \in Blocks : b.kind = "disconnect"}

\* Whoever wants a connection asked for it after any disconnect that is still to
\* be done.  At the limit of failures the user has been told, or the next
\* attempt, which clears the failures, is in the queue.
LimitInv ==
    /\ desired => Followed(queue, Disconnects, Connects)
    /\ desired /\ ~connected /\ connectFailures >= MaxConnectFailures
          => told \/ Has(queue, Connects)

\* LimitInv with any queue.
Waits(q) == Followed(q, Disconnects, Connects) /\ Has(q, Connects)

\* The connect block comes after everything.
LEMMA ConnectLast ==
    ASSUME NEW q \in Seq(Blocks)
    PROVE  /\ Append(q, Block("connect", Nobody, "none")) \in Seq(Blocks)
           /\ Waits(Append(q, Block("connect", Nobody, "none")))
  <1> DEFINE b == Block("connect", Nobody, "none")
  <1>1. b \in Connects /\ b \in Blocks /\ b \notin Disconnects
    BY CallBlocks DEF Connects, Disconnects, Block
  <1>2. Append(q, b) \in Seq(Blocks) /\ Waits(Append(q, b))
    <2> HIDE DEF b
    <2> QED  BY <1>1, OrderLast DEF Waits
  <1>3. QED  BY <1>2

\* A queue that holds its promise, whatever else is the case.
LEMMA LimitWaits == Waits(queue') => LimitInv'
  BY DEF Waits, LimitInv

\* Blocks other than disconnects are added, and nothing else that matters happens.
LEMMA LimitAdd ==
    ASSUME TypeOK, LimitInv, NEW r \in Seq(Blocks),
           \A i \in 1 .. Len(r) : r[i].kind # "disconnect",
           queue' = queue \o r, desired' = desired, connected' = connected,
           connectFailures' = connectFailures, told' = told
    PROVE  LimitInv'
  <1>1. \A i \in 1 .. Len(r) : r[i] \notin Disconnects  BY DEF Disconnects
  <1>2. queue \in Seq(Blocks)  BY DEF TypeOK
  <1>3. /\ Followed(queue, Disconnects, Connects) => Followed(queue', Disconnects, Connects)
        /\ Has(queue, Connects) => Has(queue', Connects)
    BY <1>1, <1>2, OrderConcat
  <1>4. QED  BY <1>3 DEF LimitInv

\* The same for one block.
LEMMA LimitAddOne ==
    ASSUME TypeOK, LimitInv, NEW b \in Blocks, b.kind # "disconnect",
           queue' = Append(queue, b), desired' = desired, connected' = connected,
           connectFailures' = connectFailures, told' = told
    PROVE  LimitInv'
  <1>1. b \notin Disconnects /\ queue \in Seq(Blocks)  BY DEF Disconnects, TypeOK
  <1>2. /\ Followed(queue, Disconnects, Connects) => Followed(queue', Disconnects, Connects)
        /\ Has(queue, Connects) => Has(queue', Connects)
    BY <1>1, OrderAppend
  <1>3. QED  BY <1>2 DEF LimitInv

\* didConnect, the end of a connection on its thread, a report of misbehaviour.
LEMMA LimitThreads ==
    ASSUME TypeOK, LimitInv, NEW p \in Peers, DidConnect(p) \/ Drop(p) \/ Misbehave(p)
    PROVE  LimitInv'
  <1>1. PICK b \in Blocks : b.kind # "disconnect" /\ queue' = Append(queue, b)
    <2>1. CASE DidConnect(p)
      <3>1. Block("peerConnected", p, "none") \in Blocks
        BY BlockTypes, CallBlocks DEF PeerKinds
      <3>2. QED  BY <2>1, <3>1 DEF DidConnect, Block
    <2>2. CASE Drop(p)
      <3>1. PICK error \in Errors : queue' = Append(queue, Ended(p, error))
        BY <2>2 DEF Drop
      <3>2. QED  BY <3>1, EndedFields
    <2>3. CASE Misbehave(p)
      BY <2>3, CallBlocks DEF Misbehave, Block
    <2>4. QED  BY <2>1, <2>2, <2>3
  <1>2. /\ desired' = desired /\ connected' = connected
        /\ connectFailures' = connectFailures /\ told' = told
    BY DEF DidConnect, Drop, Misbehave, chosen
  <1>3. QED  BY <1>1, <1>2, LimitAddOne

\* The calls of the application.
LEMMA LimitCalls ==
    ASSUME TypeOK, LimitInv, Connect \/ Disconnect \/ Reconnect \/ RelayedPeers
    PROVE  LimitInv'
  <1>1. CASE Connect
    BY <1>1, ConnectLast, LimitWaits DEF TypeOK, Connect
  <1>2. CASE Disconnect
    BY <1>2 DEF Disconnect, LimitInv
  <1>3. CASE Reconnect
    <2>1. CASE desired
      BY <1>3, <2>1, ConnectLast, LimitWaits DEF TypeOK, Reconnect
    <2>2. CASE ~desired
      BY <1>3, <2>2 DEF Reconnect, LimitInv
    <2>3. QED  BY <2>1, <2>2
  <1>4. CASE RelayedPeers
    BY <1>4 DEF RelayedPeers, LimitInv, chosen
  <1>5. QED  BY <1>1, <1>2, <1>3, <1>4

\* disconnectDownloadPeerForError:
LEMMA LimitDropDownloadPeer ==
    ASSUME TypeOK, LimitInv, DropDownloadPeer
    PROVE  LimitInv'
  <1>1. PICK error \in {"none", "protocol"} :
           \/ downloadPeer \in Live /\
              queue' = queue \o <<Ended(downloadPeer, error), Block("removeDownload", Nobody, error)>>
           \/ queue' = Append(queue, Block("removeDownload", Nobody, error))
    BY DEF DropDownloadPeer
  <1>2. /\ desired' = desired /\ connected' = connected
        /\ connectFailures' = connectFailures /\ told' = told
    BY DEF DropDownloadPeer, chosen
  <1> DEFINE b == Block("removeDownload", Nobody, error)
  <1>3. error \in Errors /\ b \in Blocks /\ b.kind # "disconnect"
    BY CallBlocks DEF Errors, Block
  <1>4. CASE queue' = Append(queue, b)
    <2> HIDE DEF b
    <2> QED  BY <1>2, <1>3, <1>4, LimitAddOne
  <1>5. CASE downloadPeer \in Live /\ queue' = queue \o <<Ended(downloadPeer, error), b>>
    <2> DEFINE e == Ended(downloadPeer, error)
               r == <<e, b>>
    <2>1. e \in Blocks /\ e.kind # "disconnect"
      BY <1>3, <1>5, EndedFields DEF Live
    <2>2. r \in Seq(Blocks) /\ \A i \in 1 .. Len(r) : r[i].kind # "disconnect"
      <3> HIDE DEF e, b
      <3> QED  BY <1>3, <2>1
    <2>3. queue' = queue \o r  BY <1>5
    <2> HIDE DEF r
    <2>4. QED  BY <1>2, <2>2, <2>3, LimitAdd
  <1>6. QED  BY <1>1, <1>4, <1>5

\* useMasternodeList: asks to connect again only behind its disconnect.
LEMMA LimitUseMasternodeList ==
    ASSUME TypeOK, LimitInv, UseMasternodeList
    PROVE  LimitInv'
  <1> DEFINE d == IF peers = {} THEN <<>> ELSE <<Block("disconnect", Nobody, "none")>>
             c == Block("connect", Nobody, "none")
  <1>1. /\ desired' = (connected \/ (desired /\ peers = {}))
        /\ queue' = queue \o d \o (IF connected THEN <<c>> ELSE <<>>)
        /\ connected' = connected /\ connectFailures' = connectFailures /\ told' = told
    BY DEF UseMasternodeList, chosen
  <1>2. d \in Seq(Blocks) /\ queue \in Seq(Blocks) /\ c \in Blocks
    BY CallBlocks DEF TypeOK
  <1>3. CASE connected
    <2>1. queue \o d \in Seq(Blocks)  BY <1>2
    <2>2. queue' = Append(queue \o d, c)
      <3> HIDE DEF d, c
      <3> QED  BY <1>1, <1>2, <1>3, <2>1
    <2>3. QED
      <3> HIDE DEF d
      <3> QED  BY <2>1, <2>2, ConnectLast, LimitWaits
  <1>4. CASE ~connected /\ peers = {}
    <2>1. queue' = queue  BY <1>1, <1>2, <1>4
    <2>2. QED  BY <1>1, <1>4, <2>1 DEF LimitInv
  <1>5. CASE ~connected /\ peers # {}
    BY <1>1, <1>5 DEF LimitInv
  <1>6. QED  BY <1>3, <1>4, <1>5

\* What is marked as about older objects is of the same kind and about the same peer.
LEMMA OutdatedKinds ==
    ASSUME NEW q \in Seq(Blocks), NEW S
    PROVE  /\ Outdated(q, S) \in Seq(Blocks) /\ Len(Outdated(q, S)) = Len(q)
           /\ \A i \in 1 .. Len(q) : /\ Outdated(q, S)[i] \in Blocks
                                     /\ Outdated(q, S)[i].kind = q[i].kind
                                     /\ q[i].peer \notin S => Outdated(q, S)[i] = q[i]
  <1>1. \A i \in 1 .. Len(q) : /\ [q[i] EXCEPT !.old = TRUE] \in Blocks
                               /\ [q[i] EXCEPT !.old = TRUE].kind = q[i].kind
    <2>1. \A i \in 1 .. Len(q) : q[i] \in Blocks  OBVIOUS
    <2>2. QED  BY <2>1 DEF Blocks
  <1>2. DOMAIN q = 1 .. Len(q) /\ Len(q) \in Nat /\ \A i \in 1 .. Len(q) : q[i] \in Blocks
    OBVIOUS
  <1>3. Outdated(q, S) \in [1 .. Len(q) -> Blocks]
    BY <1>1, <1>2 DEF Outdated
  <1>4. Outdated(q, S) \in Seq(Blocks) /\ Len(Outdated(q, S)) = Len(q)
    BY <1>2, <1>3
  <1>5. \A i \in 1 .. Len(q) : /\ Outdated(q, S)[i].kind = q[i].kind
                               /\ q[i].peer \notin S => Outdated(q, S)[i] = q[i]
    BY <1>1, <1>2 DEF Outdated
  <1>6. QED  BY <1>3, <1>4, <1>5

\* The block of disconnect adds ends of connections.
LEMMA EndsAdded ==
    ASSUME TypeOK, DisconnectAll
    PROVE  /\ \A p \in connectedPeers : status'[p] = "Disconnected"
           /\ \E r \in Seq(Blocks) :
                 /\ queue' = Tail(queue) \o r
                 /\ \A i \in 1 .. Len(r) : r[i].kind # "disconnect"
  <1>1. PICK silent \in SUBSET {p \in connectedPeers : status[p] = "Connecting"} :
           \E order \in Orders({p \in connectedPeers : status[p] # "Disconnected"} \ silent) :
              /\ status' = [p \in Peers |->
                               IF p \in connectedPeers THEN "Disconnected" ELSE status[p]]
              /\ queue' = Tail(queue)
                    \o [i \in 1 .. Cardinality({p \in connectedPeers :
                                                   status[p] # "Disconnected"} \ silent)
                           |-> Ended(order[i], "none")]
    BY DEF DisconnectAll
  <1> DEFINE heard == {p \in connectedPeers : status[p] # "Disconnected"} \ silent
             n     == Cardinality(heard)
  <1>2. PICK order \in Orders(heard) :
              /\ status' = [p \in Peers |->
                               IF p \in connectedPeers THEN "Disconnected" ELSE status[p]]
              /\ queue' = Tail(queue) \o [i \in 1 .. n |-> Ended(order[i], "none")]
    BY <1>1
  <1> DEFINE ends == [i \in 1 .. n |-> Ended(order[i], "none")]
  <1>3. heard \in SUBSET Peers  BY DEF TypeOK
  <1>4. n \in Nat  BY <1>3, FS_Subset, FS_CardinalityType
  <1>5. order \in [1 .. n -> heard]  BY DEF Orders
  <1>6. "none" \in Errors  BY DEF Errors
  <1>7. \A i \in 1 .. n : Ended(order[i], "none").kind # "disconnect"
    BY <1>3, <1>5, <1>6, EndedFields
  <1>8. ends \in Seq(Blocks)  BY <1>3, EndsOf
  <1>9. Len(ends) = n /\ \A i \in 1 .. n : ends[i] = Ended(order[i], "none")
    BY <1>4, <1>8
  <1>10. \A i \in 1 .. Len(ends) : ends[i].kind # "disconnect"
    BY <1>7, <1>9
  <1>11. queue' = Tail(queue) \o ends  BY <1>2
  <1>12. \A p \in connectedPeers : status'[p] = "Disconnected"  BY <1>2 DEF TypeOK
  <1> HIDE DEF ends
  <1>13. QED  BY <1>8, <1>10, <1>11, <1>12

\* The block of connect clears the failures when they are at the limit.
LEMMA LimitRunConnect ==
    ASSUME TypeOK, LimitInv, RunConnect
    PROVE  LimitInv'
  <1>1. PICK S : /\ queue' = Outdated(Tail(queue), S)
                 /\ connectFailures' = IF connectFailures >= MaxConnectFailures THEN 0
                                       ELSE connectFailures
    BY DEF RunConnect
  <1>2. desired' = desired /\ connected' = connected /\ queue # <<>>
    BY DEF RunConnect, Runs
  <1>3. ~(connectFailures' >= MaxConnectFailures)  BY <1>1 DEF TypeOK
  <1>4. /\ Tail(queue) \in Seq(Blocks)
        /\ Followed(queue, Disconnects, Connects) => Followed(Tail(queue), Disconnects, Connects)
    BY <1>2, OrderTail DEF TypeOK
  <1>5. Followed(Tail(queue), Disconnects, Connects) => Followed(queue', Disconnects, Connects)
    <2> DEFINE q == Tail(queue)
    <2>1. /\ queue' = Outdated(q, S) /\ q \in Seq(Blocks)  BY <1>1, <1>4
    <2> HIDE DEF q
    <2>2. /\ Len(queue') = Len(q)
          /\ \A i \in 1 .. Len(q) : /\ queue'[i] \in Blocks /\ q[i] \in Blocks
                                    /\ queue'[i].kind = q[i].kind
      BY <2>1, OutdatedKinds
    <2>3. /\ \A i \in 1 .. Len(q) : queue'[i] \in Disconnects <=> q[i] \in Disconnects
          /\ \A i \in 1 .. Len(q) : queue'[i] \in Connects <=> q[i] \in Connects
      BY <2>2 DEF Disconnects, Connects
    <2>4. Followed(q, Disconnects, Connects) => Followed(queue', Disconnects, Connects)
      BY <2>2, <2>3 DEF Followed
    <2>5. QED  BY <2>4 DEF q
  <1>6. QED  BY <1>2, <1>3, <1>4, <1>5 DEF LimitInv

\* The block that runs leaves the queue, and other blocks than disconnects are added.
LEMMA LimitRun ==
    ASSUME TypeOK, LimitInv, queue # <<>>, Head(queue).kind # "connect",
           NEW r \in Seq(Blocks), \A i \in 1 .. Len(r) : r[i].kind # "disconnect",
           queue' = Tail(queue) \o r, desired' = desired, told' = told,
           ~connected' /\ connectFailures' >= MaxConnectFailures
              => ~connected /\ connectFailures >= MaxConnectFailures
    PROVE  LimitInv'
  <1>1. \A i \in 1 .. Len(r) : r[i] \notin Disconnects  BY DEF Disconnects
  <1>2. Head(queue) \notin Connects  BY DEF Connects
  <1>3. /\ Tail(queue) \in Seq(Blocks)
        /\ Followed(queue, Disconnects, Connects) => Followed(Tail(queue), Disconnects, Connects)
        /\ Has(queue, Connects) => Has(Tail(queue), Connects)
    BY <1>2, OrderTail DEF TypeOK
  <1>4. /\ Followed(Tail(queue), Disconnects, Connects) => Followed(queue', Disconnects, Connects)
        /\ Has(Tail(queue), Connects) => Has(queue', Connects)
    BY <1>1, <1>3, OrderConcat
  <1>5. QED  BY <1>3, <1>4 DEF LimitInv

\* The block of disconnect raises the failures; who wants a connection has asked
\* again behind it.
LEMMA LimitRunDisconnect ==
    ASSUME TypeOK, LimitInv, RunDisconnect
    PROVE  LimitInv' /\ (desired => Waits(queue'))
  <1>1. PICK r \in Seq(Blocks) : /\ queue' = Tail(queue) \o r
                                 /\ \A i \in 1 .. Len(r) : r[i].kind # "disconnect"
    BY EndsAdded DEF RunDisconnect
  <1>2. queue # <<>> /\ Head(queue).kind = "disconnect" /\ desired' = desired
    BY DEF RunDisconnect, Runs
  <1>3. Head(queue) \in Disconnects  BY <1>2, Dequeue DEF Disconnects
  <1>4. \A i \in 1 .. Len(r) : r[i] \notin Disconnects  BY <1>1 DEF Disconnects
  <1>5. Tail(queue) \in Seq(Blocks) /\ (desired => Waits(Tail(queue)))
    BY <1>2, <1>3, OrderTail DEF TypeOK, LimitInv, Waits
  <1>6. desired => Waits(queue')
    BY <1>1, <1>4, <1>5, OrderConcat DEF Waits
  <1>7. QED  BY <1>2, <1>6 DEF Waits, LimitInv

\* peerMisbehaving: asks to connect last.
LEMMA LimitReplace ==
    ASSUME TypeOK, queue # <<>>, NEW p \in Peers, Replace(p)
    PROVE  LimitInv' /\ Waits(queue')
  <1> DEFINE ends == ~Head(queue).old /\ p \in Live
             e    == IF ends THEN <<Ended(p, "protocol")>> ELSE <<>>
             c    == Block("connect", Nobody, "none")
  <1>1. "protocol" \in Errors  BY DEF Errors
  <1>2. Ended(p, "protocol") \in Blocks  BY <1>1, EndedFields
  <1>3. c \in Blocks  BY CallBlocks
  <1>4. e \in Seq(Blocks) /\ Tail(queue) \in Seq(Blocks)  BY <1>2, Dequeue
  <1>5. queue' = Tail(queue) \o e \o <<c>>  BY DEF Replace
  <1>6. Tail(queue) \o e \in Seq(Blocks) /\ queue' = Append(Tail(queue) \o e, c)
    <2> HIDE DEF e, c
    <2> QED  BY <1>3, <1>4, <1>5
  <1>7. QED
    <2> HIDE DEF e
    <2> QED  BY <1>6, ConnectLast, LimitWaits

\* The block of disconnectDownloadPeerForError:
LEMMA LimitRunRemoveDownload ==
    ASSUME TypeOK, LimitInv, RunRemoveDownload
    PROVE  LimitInv'
  <1>1. /\ queue # <<>> /\ Head(queue).kind = "removeDownload"
        /\ IF Head(queue).error = "none"
           THEN /\ desired' = TRUE
                /\ queue' = Append(Tail(queue), Block("connect", Nobody, "none"))
           ELSE queue' = Tail(queue) /\ UNCHANGED desired
        /\ connected' = connected /\ connectFailures' = connectFailures /\ told' = told
    BY DEF RunRemoveDownload, Runs, chosen
  <1>2. Tail(queue) \in Seq(Blocks)  BY <1>1, Dequeue
  <1>3. CASE Head(queue).error = "none"
    BY <1>1, <1>2, <1>3, ConnectLast, LimitWaits
  <1>4. CASE Head(queue).error # "none"
    <2> DEFINE r == <<>>
    <2>1. queue' = Tail(queue) \o r  BY <1>1, <1>2, <1>4
    <2>2. r \in Seq(Blocks) /\ \A i \in 1 .. Len(r) : r[i].kind # "disconnect"
      OBVIOUS
    <2>3. Head(queue).kind # "connect" /\ desired' = desired  BY <1>1, <1>4
    <2> HIDE DEF r
    <2>4. QED  BY <1>1, <2>1, <2>2, <2>3, LimitRun
  <1>5. QED  BY <1>3, <1>4

\* A delegate's finding that a peer misbehaves.
LEMMA LimitRunMisbehaving ==
    ASSUME TypeOK, RunMisbehaving
    PROVE  LimitInv'
  <1>1. queue # <<>> /\ Head(queue).kind = "misbehaving" /\ Replace(Head(queue).peer)
    BY DEF RunMisbehaving, Runs
  <1>2. Head(queue).peer \in Peers
    BY <1>1, Dequeue, AboutAPeer DEF PeerKinds
  <1>3. QED  BY <1>1, <1>2, LimitReplace

\* A peer that has connected clears the failures, unless it is gone.
LEMMA LimitRunPeerConnected ==
    ASSUME TypeOK, LimitInv, RunPeerConnected
    PROVE  LimitInv'
  <1> DEFINE p == Head(queue).peer
  <1>1. /\ queue # <<>> /\ Head(queue).kind = "peerConnected"
        /\ desired' = desired /\ told' = told
    BY DEF RunPeerConnected, Runs
  <1>2. p \in Peers  BY <1>1, Dequeue, AboutAPeer DEF PeerKinds
  <1>3. \/ Gone(p) \/ Unsuitable(p) \/ AlreadyConnected(p) \/ TooFew(p) \/ Choose(p)
    BY DEF RunPeerConnected
  <1>4. connectFailures' = 0 \/ (connectFailures' = connectFailures /\ connected' = connected)
    BY <1>3 DEF Gone, Unsuitable, AlreadyConnected, TooFew, Choose, chosen
  <1>5. PICK r \in Seq(Blocks) : /\ queue' = Tail(queue) \o r
                                 /\ \A i \in 1 .. Len(r) : r[i].kind # "disconnect"
    <2>1. Tail(queue) \in Seq(Blocks)  BY <1>1, Dequeue
    <2>2. \/ queue' = Tail(queue)
          \/ queue' = Append(Tail(queue), Ended(p, "protocol"))
          \/ downloadPeer \in Live /\ queue' = Tail(queue) \o <<Ended(downloadPeer, "none")>>
      <3>1. CASE Choose(p)
        <4>1. queue' = Tail(queue) \o (IF downloadPeer \in Live /\ ~downloadOld
                                       THEN <<Ended(downloadPeer, "none")>> ELSE <<>>)
          BY <3>1 DEF Choose
        <4>2. Tail(queue) \o <<>> = Tail(queue)  BY <2>1
        <4>3. QED  BY <4>1, <4>2
      <3>2. QED  BY <1>3, <3>1 DEF Gone, Unsuitable, AlreadyConnected, TooFew
    <2>3. ASSUME NEW x \in Peers, NEW error \in Errors,
                 queue' = Append(Tail(queue), Ended(x, error))
          PROVE  \E r \in Seq(Blocks) : /\ queue' = Tail(queue) \o r
                                        /\ \A i \in 1 .. Len(r) : r[i].kind # "disconnect"
      <3> DEFINE e == Ended(x, error)
      <3>1. e \in Blocks /\ e.kind # "disconnect"  BY EndedFields
      <3>2. queue' = Append(Tail(queue), e)  BY <2>3
      <3> HIDE DEF e
      <3>3. queue' = Tail(queue) \o <<e>>  BY <2>1, <3>1, <3>2
      <3>4. <<e>> \in Seq(Blocks) /\ \A i \in 1 .. Len(<<e>>) : <<e>>[i].kind # "disconnect"
        BY <3>1
      <3>5. QED  BY <3>3, <3>4
    <2>4. "protocol" \in Errors /\ "none" \in Errors  BY DEF Errors
    <2>5. CASE queue' = Tail(queue)
      <3> DEFINE r == <<>>
      <3>1. queue' = Tail(queue) \o r  BY <2>1, <2>5
      <3>2. r \in Seq(Blocks) /\ \A i \in 1 .. Len(r) : r[i].kind # "disconnect"
        OBVIOUS
      <3> HIDE DEF r
      <3>3. QED  BY <3>1, <3>2
    <2>6. CASE queue' = Append(Tail(queue), Ended(p, "protocol"))
      BY <1>2, <2>3, <2>4, <2>6
    <2>7. CASE downloadPeer \in Live /\ queue' = Tail(queue) \o <<Ended(downloadPeer, "none")>>
      <3> DEFINE e == Ended(downloadPeer, "none")
      <3>1. downloadPeer \in Peers  BY <2>7 DEF Live
      <3>2. e \in Blocks  BY <2>4, <3>1, EndedFields
      <3>3. queue' = Append(Tail(queue), e)
        <4>1. queue' = Tail(queue) \o <<e>>  BY <2>7
        <4> HIDE DEF e
        <4> QED  BY <2>1, <3>2, <4>1
      <3>4. QED  BY <2>3, <2>4, <3>1, <3>3
    <2>8. QED  BY <2>2, <2>5, <2>6, <2>7
  <1>6. ~connected' /\ connectFailures' >= MaxConnectFailures
           => ~connected /\ connectFailures >= MaxConnectFailures
    BY <1>4
  <1>7. QED  BY <1>1, <1>5, <1>6, LimitRun

\* The end of a connection: at the limit the user is told; past it, it was at the
\* limit before.
LEMMA LimitRunDisconnected ==
    ASSUME TypeOK, LimitInv, RunDisconnected
    PROVE  LimitInv'
  <1> DEFINE p     == Head(queue).peer
             error == Head(queue).error
             b     == BookAfter(p, error)
  <1>1. queue # <<>> /\ Head(queue).kind = "disconnected"
    BY DEF RunDisconnected, Runs
  <1>2. p \in Peers /\ error \in Errors
    BY <1>1, Dequeue, AboutAPeer DEF PeerKinds
  <1>3. /\ IF error = "protocol"
           THEN Replace(p)
           ELSE queue' = Tail(queue) /\ UNCHANGED <<status, desired>>
        /\ connectFailures' = FailuresAfter(p, error)
        /\ connected' = (connected /\ downloadPeer # p)
        /\ IF GivesUp THEN GiveUp(b) ELSE TryAgain(b)
    BY DEF RunDisconnected
  <1>4. CASE error = "protocol"
    BY <1>1, <1>2, <1>3, <1>4, LimitReplace
  <1>5. CASE error # "protocol"
    <2>1. queue' = Tail(queue) /\ desired' = desired  BY <1>3, <1>5
    <2>2. /\ Followed(queue, Disconnects, Connects) => Followed(queue', Disconnects, Connects)
          /\ Has(queue, Connects) => Has(queue', Connects)
      <3>1. Head(queue) \notin Connects  BY <1>1 DEF Connects
      <3>2. QED  BY <1>1, <2>1, <3>1, OrderTail DEF TypeOK
    <2>3. ASSUME ~connected', connectFailures' >= MaxConnectFailures
          PROVE  told' \/ (~connected /\ connectFailures >= MaxConnectFailures /\ told' = told)
      <3>1. CASE GivesUp  BY <1>3, <3>1 DEF GiveUp
      <3>2. CASE ~GivesUp
        <4>1. connectFailures' # MaxConnectFailures  BY <2>3, <3>2 DEF GivesUp
        <4>2. connectFailures' > MaxConnectFailures
          BY <1>3, <2>3, <4>1 DEF FailuresAfter, TypeOK
        <4>3. downloadPeer # p /\ connectFailures >= MaxConnectFailures
          BY <1>3, <4>2 DEF FailuresAfter, TypeOK
        <4>4. told' = told  BY <1>3, <3>2 DEF TryAgain
        <4>5. QED  BY <1>3, <2>3, <4>3, <4>4
      <3>3. QED  BY <3>1, <3>2
    <2>4. QED  BY <2>1, <2>2, <2>3 DEF LimitInv
  <1>6. QED  BY <1>4, <1>5

\* Every step keeps LimitInv.
LEMMA LimitNext == TypeOK /\ LimitInv /\ [Next]_vars => LimitInv'
  <1> SUFFICES ASSUME TypeOK, LimitInv, [Next]_vars  PROVE LimitInv'  OBVIOUS
  <1>1. CASE \E p \in Peers : DidConnect(p) \/ Drop(p) \/ Misbehave(p)
    BY <1>1, LimitThreads
  <1>2. CASE Connect \/ Disconnect \/ Reconnect \/ RelayedPeers  BY <1>2, LimitCalls
  <1>3. CASE DropDownloadPeer  BY <1>3, LimitDropDownloadPeer
  <1>4. CASE UseMasternodeList  BY <1>4, LimitUseMasternodeList
  <1>5. CASE Run
    BY <1>5, LimitRunConnect, LimitRunDisconnect, LimitRunRemoveDownload,
       LimitRunMisbehaving, LimitRunPeerConnected, LimitRunDisconnected DEF Run
  <1>6. CASE UNCHANGED vars
    BY <1>6 DEF vars, LimitInv
  <1>7. QED  BY <1>1, <1>2, <1>3, <1>4, <1>5, <1>6 DEF Next

\* When the failures are at the limit, or past it, and nothing is left to be done,
\* the user was told (disconnectedWithError:): although the number of failures is
\* compared for equality and several connections may end in a row.
THEOREM UserIsTold == Spec => []ToldAtLimit
  <1>1. Init => LimitInv  BY DEF Init, LimitInv
  <1>2. LimitInv => ToldAtLimit  BY DEF LimitInv, ToldAtLimit, Quiet, Has
  <1>3. QED  BY <1>1, <1>2, TypeCorrect, LimitNext, PTL DEF Spec


-----------------------------------------------------------------------------
(* A download peer is chosen.                                              *)

Ends     == {b \in Blocks : b.kind = "disconnected"}
Fresh(S) == {b \in Blocks : b.kind = "peerConnected" /\ ~b.old /\ b.peer \in S}

\* Every peer that the manager holds is connected.
AllIn == connectedPeers # {} /\ \A p \in connectedPeers : status[p] = "Connected"

\* The manager holds as many connections as it may, or none yet.  Once they all
\* are connected, the last of them to be is behind every end of a connection; and
\* as long as no choice was made it is still in the queue.
ChoiceInv ==
    /\ connectedPeers = {} \/ Cardinality(connectedPeers) = MaxConnectCount
    /\ AllIn => Followed(queue, Ends, Fresh(connectedPeers))
    /\ AllIn /\ ~connected => Has(queue, Fresh(connectedPeers))

\* One of them is not connected any more.
LEMMA ChoiceOut ==
    ASSUME ChoiceInv, connectedPeers' = connectedPeers,
           NEW p \in connectedPeers, status'[p] # "Connected"
    PROVE  ChoiceInv'
  BY DEF ChoiceInv, AllIn

\* The connection of a live peer ends.
LEMMA ChoiceEnds ==
    ASSUME Inv, ChoiceInv, connectedPeers' = connectedPeers,
           NEW p \in Live, status' = [status EXCEPT ![p] = "Disconnected"]
    PROVE  ChoiceInv'
  <1>1. p \in connectedPeers /\ p \in Peers
    BY DEF Inv, ConnectionsAreHeld, Live
  <1>2. status'[p] # "Connected"  BY <1>1 DEF Inv, TypeOK
  <1>3. QED  BY <1>1, <1>2, ChoiceOut

\* Blocks other than ends are added to a queue which keeps what ChoiceInv says.
LEMMA ChoiceAdd ==
    ASSUME ChoiceInv, connectedPeers' = connectedPeers, status' = status,
           NEW q \in Seq(Blocks), NEW r \in Seq(Blocks), queue' = q \o r,
           \A i \in 1 .. Len(r) : r[i].kind # "disconnected",
           AllIn => Followed(q, Ends, Fresh(connectedPeers)),
           AllIn /\ ~connected' => Has(q, Fresh(connectedPeers))
    PROVE  ChoiceInv'
  <1> DEFINE F == Fresh(connectedPeers)
  <1>1. AllIn' <=> AllIn  BY DEF AllIn
  <1>2. Fresh(connectedPeers)' = F  BY DEF Fresh
  <1>3. \A i \in 1 .. Len(r) : r[i] \notin Ends  BY DEF Ends
  <1>4. /\ Followed(q, Ends, F) => Followed(queue', Ends, F)
        /\ Has(q, F) => Has(queue', F)
    <2> HIDE DEF F
    <2> QED  BY <1>3, OrderConcat
  <1>5. QED
    <2> HIDE DEF F
    <2>1. AllIn => Followed(q, Ends, F)  BY DEF F
    <2>2. AllIn /\ ~connected' => Has(q, F)  BY DEF F
    <2>3. AllIn' => Followed(queue', Ends, F)  BY <1>1, <1>4, <2>1
    <2>4. AllIn' /\ ~connected' => Has(queue', F)  BY <1>1, <1>4, <2>2
    <2>5. QED  BY <1>2, <2>3, <2>4 DEF ChoiceInv

\* A thread or a caller adds them.
LEMMA ChoiceCalled ==
    ASSUME TypeOK, ChoiceInv, connectedPeers' = connectedPeers, status' = status,
           connected' = connected,
           NEW r \in Seq(Blocks), \A i \in 1 .. Len(r) : r[i].kind # "disconnected",
           queue' = queue \o r
    PROVE  ChoiceInv'
  <1>1. queue \in Seq(Blocks)  BY DEF TypeOK
  <1>2. QED  BY <1>1, ChoiceAdd DEF ChoiceInv

\* A block of the queue runs and adds them.  When nothing is chosen, it is no news
\* of a peer that has connected; when a choice is undone, it is the end of one.
LEMMA ChoiceRun ==
    ASSUME TypeOK, ChoiceInv, connectedPeers' = connectedPeers, status' = status,
           queue # <<>>,
           NEW r \in Seq(Blocks), \A i \in 1 .. Len(r) : r[i].kind # "disconnected",
           queue' = Tail(queue) \o r,
           connected' \/ connected' = connected \/ Head(queue).kind = "disconnected",
           AllIn /\ ~connected' => Head(queue) \notin Fresh(connectedPeers)
    PROVE  ChoiceInv'
  <1> DEFINE F == Fresh(connectedPeers)
  <1>1. queue \in Seq(Blocks) /\ Tail(queue) \in Seq(Blocks) /\ Head(queue) \in Blocks
    BY Dequeue DEF TypeOK
  <1>2. /\ Followed(queue, Ends, F) => Followed(Tail(queue), Ends, F)
        /\ Followed(queue, Ends, F) /\ Head(queue) \in Ends => Has(Tail(queue), F)
        /\ Has(queue, F) /\ Head(queue) \notin F => Has(Tail(queue), F)
    <2> HIDE DEF F
    <2> QED  BY <1>1, OrderTail
  <1>3. AllIn => Followed(Tail(queue), Ends, F)  BY <1>2 DEF ChoiceInv
  <1>4. ASSUME AllIn, ~connected'  PROVE Has(Tail(queue), F)
    <2>1. CASE Head(queue).kind = "disconnected"
      <3>1. Head(queue) \in Ends  BY <1>1, <2>1 DEF Ends
      <3>2. QED  BY <1>2, <1>4, <3>1 DEF ChoiceInv
    <2>2. CASE connected' = connected
      BY <1>2, <1>4, <2>2 DEF ChoiceInv
    <2>3. QED  BY <1>4, <2>1, <2>2
  <1>5. QED  BY <1>1, <1>3, <1>4, ChoiceAdd

\* What is added: nothing, or one block.
LEMMA Added ==
    ASSUME NEW q \in Seq(Blocks)
    PROVE  /\ \E r \in Seq(Blocks) : q = q \o r /\ \A i \in 1 .. Len(r) : r[i].kind # "disconnected"
           /\ \A b \in Blocks : b.kind # "disconnected" =>
                 \E r \in Seq(Blocks) : /\ Append(q, b) = q \o r
                                        /\ \A i \in 1 .. Len(r) : r[i].kind # "disconnected"
  <1>1. \E r \in Seq(Blocks) : q = q \o r /\ \A i \in 1 .. Len(r) : r[i].kind # "disconnected"
    <2> DEFINE r == <<>>
    <2>1. q = q \o r  OBVIOUS
    <2>2. r \in Seq(Blocks) /\ \A i \in 1 .. Len(r) : r[i].kind # "disconnected"
      OBVIOUS
    <2> HIDE DEF r
    <2>3. QED  BY <2>1, <2>2
  <1>2. ASSUME NEW b \in Blocks, b.kind # "disconnected"
        PROVE  \E r \in Seq(Blocks) : /\ Append(q, b) = q \o r
                                      /\ \A i \in 1 .. Len(r) : r[i].kind # "disconnected"
    <2>1. <<b>> \in Seq(Blocks) /\ Append(q, b) = q \o <<b>>  OBVIOUS
    <2>2. \A i \in 1 .. Len(<<b>>) : <<b>>[i].kind # "disconnected"  BY <1>2
    <2>3. QED  BY <2>1, <2>2
  <1>3. QED  BY <1>1, <1>2


\* didConnect: the last to connect is behind everything.
LEMMA ChoiceDidConnect ==
    ASSUME Inv, ChoiceInv, NEW p \in Peers, DidConnect(p)
    PROVE  ChoiceInv'
  <1> DEFINE b == Block("peerConnected", p, "none")
             F == Fresh(connectedPeers)
  <1>1. p \in connectedPeers
    BY DEF Inv, ConnectionsAreHeld, Live, DidConnect
  <1>2. b \in Blocks
    BY BlockTypes, CallBlocks DEF PeerKinds
  <1>3. b \in F /\ b \notin Ends
    <2>1. b.kind = "peerConnected" /\ b.peer = p /\ ~b.old  BY DEF Block
    <2>2. QED  BY <1>1, <1>2, <2>1 DEF Fresh, Ends
  <1>4. queue' = Append(queue, b) /\ connectedPeers' = connectedPeers  BY DEF DidConnect
  <1>5. F' = F  BY <1>4 DEF Fresh
  <1>6. Followed(queue', Ends, F) /\ Has(queue', F)
    <2> HIDE DEF F, b
    <2> QED  BY <1>2, <1>3, <1>4, OrderLast DEF Inv, TypeOK
  <1>7. Followed(queue, Ends, F)' /\ Has(queue, F)'
    <2> HIDE DEF F
    <2> QED  BY <1>5, <1>6
  <1>8. QED  BY <1>4, <1>7 DEF ChoiceInv

\* The end of a connection on its thread.
LEMMA ChoiceDrop ==
    ASSUME Inv, ChoiceInv, NEW p \in Peers, Drop(p)
    PROVE  ChoiceInv'
  BY ChoiceEnds DEF Drop, Live

\* What a thread or the application asks for, in one block.
LEMMA ChoiceCalls ==
    ASSUME Inv, ChoiceInv,
           (\E p \in Peers : Misbehave(p)) \/ Connect \/ Disconnect \/ Reconnect \/ RelayedPeers
    PROVE  ChoiceInv'
  <1>1. connectedPeers' = connectedPeers /\ status' = status /\ connected' = connected
    BY DEF Misbehave, Connect, Disconnect, Reconnect, RelayedPeers, chosen
  <1>2. \/ queue' = queue
        \/ \E b \in Blocks : b.kind # "disconnected" /\ queue' = Append(queue, b)
    <2>1. CASE \E p \in Peers : Misbehave(p)
      BY <2>1, CallBlocks DEF Misbehave, Block
    <2>2. CASE Connect
      BY <2>2, CallBlocks DEF Connect, Block
    <2>3. CASE Disconnect
      BY <2>3, CallBlocks DEF Disconnect, Block
    <2>4. CASE Reconnect
      BY <2>4, CallBlocks DEF Reconnect, Block
    <2>5. CASE RelayedPeers
      BY <2>5 DEF RelayedPeers
    <2>6. QED  BY <2>1, <2>2, <2>3, <2>4, <2>5
  <1>3. queue \in Seq(Blocks)  BY DEF Inv, TypeOK
  <1>4. \E r \in Seq(Blocks) : queue' = queue \o r /\ \A i \in 1 .. Len(r) : r[i].kind # "disconnected"
    <2>1. CASE queue' = queue  BY <1>3, <2>1, Added
    <2>2. CASE queue' # queue
      <3>1. PICK b \in Blocks : b.kind # "disconnected" /\ queue' = Append(queue, b)
        BY <1>2, <2>2
      <3>2. \E r \in Seq(Blocks) : /\ Append(queue, b) = queue \o r
                                   /\ \A i \in 1 .. Len(r) : r[i].kind # "disconnected"
        BY <1>3, <3>1, Added
      <3>3. QED  BY <3>1, <3>2
    <2>3. QED  BY <2>1, <2>2
  <1>5. QED  BY <1>1, <1>4, ChoiceCalled DEF Inv

\* disconnectDownloadPeerForError:
LEMMA ChoiceDropDownloadPeer ==
    ASSUME Inv, ChoiceInv, DropDownloadPeer
    PROVE  ChoiceInv'
  <1>1. PICK error \in {"none", "protocol"} :
           IF downloadPeer \in Live /\ ~downloadOld
           THEN status' = [status EXCEPT ![downloadPeer] = "Disconnected"]
           ELSE /\ queue' = Append(queue, Block("removeDownload", Nobody, error))
                /\ status' = status
    BY DEF DropDownloadPeer
  <1>2. connectedPeers' = connectedPeers /\ connected' = connected
    BY DEF DropDownloadPeer, chosen
  <1>3. CASE downloadPeer \in Live /\ ~downloadOld
    BY <1>1, <1>2, <1>3, ChoiceEnds
  <1>4. CASE ~(downloadPeer \in Live /\ ~downloadOld)
    <2> DEFINE b == Block("removeDownload", Nobody, error)
    <2>1. b \in Blocks /\ b.kind # "disconnected"  BY CallBlocks DEF Errors, Block
    <2>2. queue' = Append(queue, b) /\ status' = status  BY <1>1, <1>4
    <2>3. queue \in Seq(Blocks)  BY DEF Inv, TypeOK
    <2> HIDE DEF b
    <2>4. \E r \in Seq(Blocks) : queue' = queue \o r /\ \A i \in 1 .. Len(r) : r[i].kind # "disconnected"
      BY <2>1, <2>2, <2>3, Added
    <2>5. QED  BY <1>2, <2>2, <2>4, ChoiceCalled DEF Inv
  <1>5. QED  BY <1>3, <1>4

\* useMasternodeList:
LEMMA ChoiceUseMasternodeList ==
    ASSUME Inv, ChoiceInv, UseMasternodeList
    PROVE  ChoiceInv'
  <1> DEFINE d == IF peers = {} THEN <<>> ELSE <<Block("disconnect", Nobody, "none")>>
             c == IF connected THEN <<Block("connect", Nobody, "none")>> ELSE <<>>
             r == d \o c
  <1>1. /\ queue' = queue \o d \o c
        /\ connectedPeers' = connectedPeers /\ status' = status /\ connected' = connected
    BY DEF UseMasternodeList, chosen
  <1>2. Block("disconnect", Nobody, "none") \in Blocks /\ Block("connect", Nobody, "none") \in Blocks
    BY CallBlocks
  <1>3. /\ Block("disconnect", Nobody, "none").kind # "disconnected"
        /\ Block("connect", Nobody, "none").kind # "disconnected"
    BY DEF Block
  <1>4. d \in Seq(Blocks) /\ \A i \in 1 .. Len(d) : d[i].kind # "disconnected"
    BY <1>2, <1>3
  <1>5. c \in Seq(Blocks) /\ \A i \in 1 .. Len(c) : c[i].kind # "disconnected"
    BY <1>2, <1>3
  <1>6. queue \in Seq(Blocks)  BY DEF Inv, TypeOK
  <1> HIDE DEF c, d
  <1>7. r \in Seq(Blocks) /\ \A i \in 1 .. Len(r) : r[i].kind # "disconnected"
    BY <1>4, <1>5
  <1>8. queue' = queue \o r  BY <1>1, <1>4, <1>5, <1>6
  <1> HIDE DEF r
  <1>9. QED  BY <1>1, <1>7, <1>8, ChoiceCalled DEF Inv

\* The block of disconnect ends all connections.
LEMMA ChoiceRunDisconnect ==
    ASSUME Inv, ChoiceInv, RunDisconnect
    PROVE  ChoiceInv'
  <1>1. connectedPeers' = connectedPeers /\ \A p \in connectedPeers : status'[p] = "Disconnected"
    BY EndsAdded DEF Inv, RunDisconnect
  <1>2. CASE connectedPeers = {}  BY <1>1, <1>2 DEF ChoiceInv, AllIn
  <1>3. CASE connectedPeers # {}
    <2>1. PICK p \in connectedPeers : TRUE  BY <1>3
    <2>2. QED  BY <1>1, <2>1, ChoiceOut
  <1>4. QED  BY <1>2, <1>3

\* The block of disconnectDownloadPeerForError:
LEMMA ChoiceRunRemoveDownload ==
    ASSUME Inv, ChoiceInv, RunRemoveDownload
    PROVE  ChoiceInv'
  <1> DEFINE b == Block("connect", Nobody, "none")
  <1>1. /\ queue # <<>> /\ Head(queue).kind = "removeDownload"
        /\ queue' = Append(Tail(queue), b) \/ queue' = Tail(queue)
        /\ connectedPeers' = connectedPeers /\ status' = status /\ connected' = connected
    BY DEF RunRemoveDownload, Runs, chosen
  <1>2. b \in Blocks /\ b.kind # "disconnected"  BY CallBlocks DEF Block
  <1>3. Tail(queue) \in Seq(Blocks)  BY <1>1, Dequeue DEF Inv
  <1> HIDE DEF b
  <1>4. \E r \in Seq(Blocks) : queue' = Tail(queue) \o r /\ \A i \in 1 .. Len(r) : r[i].kind # "disconnected"
    BY <1>1, <1>2, <1>3, Added
  <1>5. Head(queue) \notin Fresh(connectedPeers)  BY <1>1 DEF Fresh
  <1>6. QED  BY <1>1, <1>4, <1>5, ChoiceRun DEF Inv

\* peerMisbehaving: ends a connection or leaves all as they are.
LEMMA ChoiceReplace ==
    ASSUME Inv, ChoiceInv, NEW p \in Peers, Replace(p), queue # <<>>,
           connectedPeers' = connectedPeers,
           Head(queue).kind = "misbehaving" \/ Head(queue).kind = "disconnected",
           connected' = connected \/ Head(queue).kind = "disconnected"
    PROVE  ChoiceInv'
  <1> DEFINE b == Block("connect", Nobody, "none")
  <1>1. CASE ~Head(queue).old /\ p \in Live
    BY <1>1, ChoiceEnds DEF Replace
  <1>2. CASE ~(~Head(queue).old /\ p \in Live)
    <2>1. Tail(queue) \in Seq(Blocks)  BY Dequeue DEF Inv
    <2>2. b \in Blocks /\ b.kind # "disconnected"  BY CallBlocks DEF Block
    <2>3. queue' = Tail(queue) \o <<>> \o <<b>> /\ status' = status
      BY <1>2 DEF Replace
    <2>4. queue' = Append(Tail(queue), b)
      <3> HIDE DEF b
      <3> QED  BY <2>1, <2>2, <2>3
    <2> HIDE DEF b
    <2>5. \E r \in Seq(Blocks) : queue' = Tail(queue) \o r /\ \A i \in 1 .. Len(r) : r[i].kind # "disconnected"
      BY <2>1, <2>2, <2>4, Added
    <2>6. Head(queue) \notin Fresh(connectedPeers)  BY DEF Fresh
    <2>7. QED  BY <2>3, <2>5, <2>6, ChoiceRun DEF Inv
  <1>3. QED  BY <1>1, <1>2

\* A delegate's finding that a peer misbehaves.
LEMMA ChoiceRunMisbehaving ==
    ASSUME Inv, ChoiceInv, RunMisbehaving
    PROVE  ChoiceInv'
  <1>1. /\ queue # <<>> /\ Head(queue).kind = "misbehaving" /\ Replace(Head(queue).peer)
        /\ connectedPeers' = connectedPeers /\ connected' = connected
    BY DEF RunMisbehaving, Runs, chosen
  <1>2. Head(queue).peer \in Peers
    BY <1>1, Dequeue, AboutAPeer DEF Inv, PeerKinds
  <1>3. QED  BY <1>1, <1>2, ChoiceReplace

\* The end of a connection: if all are connected, somebody's news comes behind it.
LEMMA ChoiceRunDisconnected ==
    ASSUME Inv, ChoiceInv, RunDisconnected
    PROVE  ChoiceInv'
  <1> DEFINE p == Head(queue).peer
  <1>1. /\ queue # <<>> /\ Head(queue).kind = "disconnected"
        /\ connectedPeers' = connectedPeers
        /\ IF Head(queue).error = "protocol" THEN Replace(p)
           ELSE queue' = Tail(queue) /\ status' = status
    BY DEF RunDisconnected, Runs
  <1>2. p \in Peers  BY <1>1, Dequeue, AboutAPeer DEF Inv, PeerKinds
  <1>3. CASE Head(queue).error = "protocol"
    BY <1>1, <1>2, <1>3, ChoiceReplace
  <1>4. CASE Head(queue).error # "protocol"
    <2>1. queue' = Tail(queue) /\ status' = status  BY <1>1, <1>4
    <2>2. Tail(queue) \in Seq(Blocks)  BY <1>1, Dequeue DEF Inv
    <2>3. \E r \in Seq(Blocks) : queue' = Tail(queue) \o r /\ \A i \in 1 .. Len(r) : r[i].kind # "disconnected"
      BY <2>1, <2>2, Added
    <2>4. Head(queue) \notin Fresh(connectedPeers)  BY <1>1 DEF Fresh
    <2>5. QED  BY <1>1, <2>1, <2>3, <2>4, ChoiceRun DEF Inv
  <1>5. QED  BY <1>3, <1>4

\* Once all are connected there are MaxConnectCount of them, so a choice is made;
\* a peer that turns out to be gone is not one of the last.
LEMMA ChoiceRunPeerConnected ==
    ASSUME Inv, ChoiceInv, RunPeerConnected
    PROVE  ChoiceInv'
  <1> DEFINE p == Head(queue).peer
  <1>1. /\ queue # <<>> /\ Head(queue).kind = "peerConnected"
        /\ connectedPeers' = connectedPeers
    BY DEF RunPeerConnected, Runs
  <1>2. p \in Peers  BY <1>1, Dequeue, AboutAPeer DEF Inv, PeerKinds
  <1>3. Tail(queue) \in Seq(Blocks)  BY <1>1, Dequeue DEF Inv
  <1>4. ASSUME queue' = Tail(queue), status' = status,
               connected' \/ connected' = connected,
               AllIn /\ ~connected' => Head(queue) \notin Fresh(connectedPeers)
        PROVE  ChoiceInv'
    <2>1. \E r \in Seq(Blocks) : queue' = Tail(queue) \o r /\ \A i \in 1 .. Len(r) : r[i].kind # "disconnected"
      BY <1>3, <1>4, Added
    <2>2. QED  BY <1>1, <1>4, <2>1, ChoiceRun DEF Inv
  <1>5. CASE Gone(p)
    <2>1. Head(queue) \in Fresh(connectedPeers) => p \in connectedPeers /\ ~Head(queue).old
      BY DEF Fresh
    <2>2. AllIn => Head(queue) \notin Fresh(connectedPeers)
      BY <1>5, <2>1 DEF AllIn, Gone
    <2>3. QED  BY <1>4, <1>5, <2>2 DEF Gone, chosen
  <1>6. CASE Unsuitable(p)
    <2>1. p \in Live  BY <1>2, <1>6 DEF Unsuitable, Live
    <2>2. QED  BY <1>1, <1>6, <2>1, ChoiceEnds DEF Unsuitable
  <1>7. CASE AlreadyConnected(p)
    BY <1>4, <1>7 DEF AlreadyConnected, chosen
  <1>8. CASE TooFew(p)
    <2>1. ~AllIn
      <3>1. SUFFICES ASSUME AllIn  PROVE FALSE  OBVIOUS
      <3>2. ReallyConnected = connectedPeers  BY <3>1 DEF AllIn, ReallyConnected
      <3>3. Cardinality(connectedPeers) = MaxConnectCount
        BY <3>1 DEF AllIn, ChoiceInv
      <3>4. QED  BY <1>8, <3>2, <3>3 DEF TooFew
    <2>2. QED  BY <1>4, <1>8, <2>1 DEF TooFew, chosen
  <1>9. CASE Choose(p)
    <2>1. CASE downloadPeer \in Live /\ ~downloadOld
      <3>1. status' = [status EXCEPT ![downloadPeer] = "Disconnected"]
        BY <1>9, <2>1 DEF Choose
      <3>2. QED  BY <1>1, <2>1, <3>1, ChoiceEnds
    <2>2. CASE ~(downloadPeer \in Live /\ ~downloadOld)
      <3>1. queue' = Tail(queue) \o <<>> /\ status' = status /\ connected' = TRUE
        BY <1>9, <2>2 DEF Choose
      <3>2. queue' = Tail(queue)  BY <1>3, <3>1
      <3>3. QED  BY <1>4, <3>1, <3>2
    <2>3. QED  BY <2>1, <2>2
  <1>10. QED
    <2>1. \/ Gone(p) \/ Unsuitable(p) \/ AlreadyConnected(p) \/ TooFew(p) \/ Choose(p)
      BY DEF RunPeerConnected
    <2>2. QED  BY <1>5, <1>6, <1>7, <1>8, <1>9, <2>1

\* The purge and the picking of peers in connect: there are enough addresses, so
\* the manager holds as many connections as it may; and if all of them are
\* connected, nothing was picked.
LEMMA ChoiceRunConnect ==
    ASSUME Cardinality(Peers) >= MaxConnectCount, Inv, ChoiceInv, RunConnect
    PROVE  ChoiceInv'
  <1> DEFINE alive  == connectedPeers \ Dead
             others == Known \ alive
             room   == Cardinality(alive) < MaxConnectCount
             same   == IF room THEN KnownUsed ELSE used
             F      == Fresh(connectedPeers)
  <1>1. PICK more \in SUBSET others :
              /\ Cardinality(alive) + Cardinality(more) <= MaxConnectCount
              /\ more # others => Cardinality(alive) + Cardinality(more) = MaxConnectCount
              /\ connectedPeers' = alive \cup more
              /\ status' = [p \in Peers |->
                               IF p \in more THEN "Connecting" ELSE status[p]]
              /\ queue' = Outdated(Tail(queue), more \ same)
    BY DEF RunConnect
  <1>2. queue # <<>> /\ Head(queue).kind = "connect" /\ connected' = connected
    BY DEF RunConnect, Runs
  <1>3. TypeOK /\ alive \subseteq connectedPeers /\ connectedPeers \subseteq Peers
        /\ peers \subseteq Peers /\ Known \subseteq Peers /\ more \subseteq Peers
    BY <1>1 DEF Inv, TypeOK, Known
  <1>4. /\ IsFiniteSet(alive) /\ IsFiniteSet(more) /\ IsFiniteSet(peers)
        /\ IsFiniteSet(connectedPeers) /\ IsFiniteSet(connectedPeers')
        /\ Cardinality(alive) \in Nat /\ Cardinality(more) \in Nat
        /\ Cardinality(peers) \in Nat /\ Cardinality(connectedPeers') \in Nat
    <2>1. connectedPeers' \subseteq Peers  BY <1>1, <1>3
    <2>2. /\ IsFiniteSet(alive) /\ IsFiniteSet(more) /\ IsFiniteSet(peers)
          /\ IsFiniteSet(connectedPeers) /\ IsFiniteSet(connectedPeers')
      BY <1>3, <2>1, FS_Subset
    <2>3. QED  BY <2>2, FS_CardinalityType
  <1>5. Cardinality(connectedPeers') = Cardinality(alive) + Cardinality(more)
    <2>1. alive \cap more = {}  BY <1>1
    <2>2. Cardinality(alive \cap more) = 0  BY <2>1, FS_EmptySet
    <2>3. Cardinality(alive \cup more)
             = Cardinality(alive) + Cardinality(more) - Cardinality(alive \cap more)
      BY <1>4, FS_Union
    <2>4. QED  BY <1>1, <1>4, <2>2, <2>3
  <1>6. Cardinality(connectedPeers') = MaxConnectCount
    <2>1. CASE more # others  BY <1>1, <1>5, <2>1
    <2>2. CASE more = others
      <3>1. Known \subseteq connectedPeers'  BY <1>1, <2>2
      <3>2. IsFiniteSet(Known) /\ Cardinality(Known) <= Cardinality(connectedPeers')
        BY <1>4, <3>1, FS_Subset
      <3>3. Cardinality(Known) >= MaxConnectCount
        BY <1>4 DEF Known, FindAgain
      <3>4. Cardinality(Known) \in Nat  BY <3>2, FS_CardinalityType
      <3>5. QED  BY <1>1, <1>4, <1>5, <3>2, <3>3, <3>4
    <2>3. QED  BY <2>1, <2>2
  <1>7. ASSUME AllIn'
        PROVE  connectedPeers' = connectedPeers /\ AllIn /\ queue' = Outdated(Tail(queue), {})
    <2>1. \A q \in connectedPeers' : status'[q] = "Connected"  BY <1>7 DEF AllIn
    <2>2. more = {}
      <3>1. ASSUME NEW q \in more  PROVE FALSE
        <4>1. status'[q] = "Connecting"  BY <1>1, <1>3
        <4>2. status'[q] = "Connected"  BY <1>1, <2>1
        <4>3. QED  BY <4>1, <4>2
      <3>2. QED  BY <3>1
    <2>3. connectedPeers' = alive /\ connectedPeers' # {}  BY <1>1, <1>7, <2>2 DEF AllIn
    <2>4. Cardinality(connectedPeers) = MaxConnectCount
      BY <1>3, <2>3 DEF ChoiceInv
    <2>5. alive = connectedPeers
      BY <1>3, <1>4, <1>6, <2>3, <2>4, FS_Subset
    <2>6. status' = status
      BY <1>1, <1>3, <2>2 DEF TypeOK
    <2>7. queue' = Outdated(Tail(queue), {})
      <3>1. more \ same = {}  BY <2>2
      <3>2. QED  BY <1>1, <3>1
    <2>8. QED  BY <2>1, <2>3, <2>5, <2>6, <2>7 DEF AllIn
  <1>8. ASSUME AllIn'
        PROVE  Followed(queue, Ends, Fresh(connectedPeers))' /\ (~connected' => Has(queue, Fresh(connectedPeers))')
    <2>1. Tail(queue) \in Seq(Blocks) /\ Head(queue) \notin F
      BY <1>2, Dequeue DEF Inv, Fresh
    <2>2. queue' = Tail(queue)
      <3> DEFINE q == Tail(queue)
      <3>1. q \in Seq(Blocks) /\ queue' = Outdated(q, {})  BY <1>7, <1>8, <2>1
      <3> HIDE DEF q
      <3>2. /\ queue' \in Seq(Blocks) /\ Len(queue') = Len(q)
            /\ \A i \in 1 .. Len(q) : queue'[i] = q[i]
        BY <3>1, OutdatedKinds
      <3>3. queue' = q  BY <3>1, <3>2
      <3>4. QED  BY <3>3 DEF q
    <2>3. AllIn /\ connectedPeers' = connectedPeers  BY <1>7, <1>8
    <2>4. /\ Followed(queue, Ends, F)
          /\ ~connected => Has(queue, F)
      BY <2>3 DEF ChoiceInv
    <2>5. Followed(queue', Ends, F) /\ (~connected' => Has(queue', F))
      <3> HIDE DEF F
      <3> QED  BY <1>2, <1>3, <2>1, <2>2, <2>4, OrderTail DEF TypeOK
    <2>6. F' = F  BY <2>3 DEF Fresh
    <2>7. Followed(queue, Ends, F)' /\ (~connected' => Has(queue, F)')
      <3> HIDE DEF F
      <3> QED  BY <2>5, <2>6
    <2>8. QED  BY <2>7
  <1>9. QED  BY <1>6, <1>8 DEF ChoiceInv

\* Every step keeps ChoiceInv.
LEMMA ChoiceNext ==
    ASSUME Cardinality(Peers) >= MaxConnectCount
    PROVE  Inv /\ ChoiceInv /\ [Next]_vars => ChoiceInv'
  <1> SUFFICES ASSUME Inv, ChoiceInv, [Next]_vars  PROVE ChoiceInv'  OBVIOUS
  <1>1. ASSUME NEW p \in Peers, DidConnect(p)  PROVE ChoiceInv'
    BY <1>1, ChoiceDidConnect
  <1>2. ASSUME NEW p \in Peers, Drop(p)  PROVE ChoiceInv'
    BY <1>2, ChoiceDrop
  <1>3. CASE (\E p \in Peers : Misbehave(p)) \/ Connect \/ Disconnect \/ Reconnect \/ RelayedPeers
    BY <1>3, ChoiceCalls
  <1>4. CASE DropDownloadPeer  BY <1>4, ChoiceDropDownloadPeer
  <1>5. CASE UseMasternodeList  BY <1>5, ChoiceUseMasternodeList
  <1>6. CASE Run
    BY <1>6, ChoiceRunConnect, ChoiceRunDisconnect, ChoiceRunRemoveDownload,
       ChoiceRunMisbehaving, ChoiceRunPeerConnected, ChoiceRunDisconnected DEF Run
  <1>7. CASE UNCHANGED vars
    BY <1>7 DEF vars, chosen, ChoiceInv, AllIn, Fresh
  <1>8. QED  BY <1>1, <1>2, <1>3, <1>4, <1>5, <1>6, <1>7 DEF Next

\* When at least as many addresses are known as connections may be held, a download
\* peer is chosen once all that the manager holds are connected and nothing waits
\* (peerConnected:), whatever ended, connected again or misbehaved before.
THEOREM DownloadPeerIsChosen ==
    ASSUME Cardinality(Peers) >= MaxConnectCount
    PROVE  Spec => []ChosenOnceAllConnected
  <1>1. Init => ChoiceInv  BY DEF Init, ChoiceInv, AllIn
  <1>2. ChoiceInv => ChosenOnceAllConnected
    <2> SUFFICES ASSUME ChoiceInv, Quiet, connectedPeers # {}, ReallyConnected = connectedPeers
                 PROVE  connected
      BY DEF ChosenOnceAllConnected
    <2>1. AllIn  BY DEF AllIn, ReallyConnected
    <2>2. ~Has(queue, Fresh(connectedPeers))  BY DEF Quiet, Has
    <2>3. QED  BY <2>1, <2>2 DEF ChoiceInv
  <1>3. Inv /\ ChoiceInv /\ [Next]_vars => ChoiceInv'  BY ChoiceNext
  <1>4. QED  BY <1>1, <1>2, <1>3, InvHolds, PTL DEF Spec
-----------------------------------------------------------------------------
(* Nobody waits in vain for a connection.                                  *)

\* The manager holds peers, and of each that is not connected or connecting the
\* end waits to be handled.
Underway ==
    /\ connectedPeers # {}
    /\ \A p \in connectedPeers : status[p] # "Disconnected" \/ Pends(queue, p)

\* Who wants a connection, has none and was told nothing is waiting for the next
\* attempt, for the main queue to make one, or for a peer.
StrandInv ==
    desired /\ ~connected /\ ~told
        => Has(queue, Connects) \/ reconnects > 0 \/ Underway

\* Nothing that matters happens but that blocks are added and connections end
\* that are told of.
LEMMA StrandKept ==
    ASSUME TypeOK, StrandInv,
           desired' => desired, connected' = connected, told' = told, reconnects' = reconnects,
           Has(queue, Connects) => Has(queue', Connects),
           connectedPeers' = connectedPeers,
           \A p \in connectedPeers : Pends(queue, p) => Pends(queue', p),
           \A p \in connectedPeers :
              status'[p] # "Disconnected" \/ status'[p] = status[p] \/ Pends(queue', p)
    PROVE  StrandInv'
  <1>1. Underway => Underway'
    <2>1. SUFFICES ASSUME Underway, NEW p \in connectedPeers
                   PROVE  status'[p] # "Disconnected" \/ Pends(queue', p)
      BY DEF Underway, Pends
    <2>2. status[p] # "Disconnected" \/ Pends(queue, p)  BY <2>1 DEF Underway
    <2>3. QED  BY <2>2
  <1>2. QED  BY <1>1 DEF StrandInv, Has

\* One block is added, of the end of a connection if one ends.
LEMMA StrandAdd ==
    ASSUME TypeOK, StrandInv, NEW q \in Seq(Blocks), NEW b \in Blocks,
           queue' = Append(q, b), b.kind # "connect",
           desired' => desired, connected' = connected, told' = told, reconnects' = reconnects,
           connectedPeers' = connectedPeers,
           Has(queue, Connects) => Has(q, Connects),
           \A p \in connectedPeers : Pends(queue, p) => Pends(q, p),
           \/ status' = status
           \/ \E x \in Peers : \/ status' = [status EXCEPT ![x] = "Connected"]
                               \/ /\ status' = [status EXCEPT ![x] = "Disconnected"]
                                  /\ b.kind = "disconnected" /\ b.peer = x
    PROVE  StrandInv'
  <1>1. \A p : Pends(q, p) => Pends(queue', p)  BY PendsAppend
  <1>2. b \notin {}  OBVIOUS
  <1>3. Has(q, Connects) => Has(queue', Connects)
    BY <1>2, OrderAppend
  <1>4. \A p \in connectedPeers :
           status'[p] # "Disconnected" \/ status'[p] = status[p] \/ Pends(queue', p)
    <2>1. SUFFICES ASSUME NEW p \in connectedPeers, status'[p] = "Disconnected",
                          status'[p] # status[p]
                   PROVE  Pends(queue', p)
      OBVIOUS
    <2>2. p \in Peers /\ status' # status  BY <2>1 DEF TypeOK
    <2>3. PICK x \in Peers : \/ status' = [status EXCEPT ![x] = "Connected"]
                             \/ /\ status' = [status EXCEPT ![x] = "Disconnected"]
                                /\ b.kind = "disconnected" /\ b.peer = x
      BY <2>2
    <2>4. CASE status' = [status EXCEPT ![x] = "Connected"]
      BY <2>1, <2>2, <2>4 DEF TypeOK
    <2>5. CASE status' = [status EXCEPT ![x] = "Disconnected"]
               /\ b.kind = "disconnected" /\ b.peer = x
      <3>1. x = p  BY <2>1, <2>2, <2>5 DEF TypeOK
      <3>2. QED  BY <2>5, <3>1, PendsAppend
    <2>6. QED  BY <2>3, <2>4, <2>5
  <1>5. QED  BY <1>1, <1>3, <1>4, StrandKept

\* What the threads of the peers do.
LEMMA StrandThreads ==
    ASSUME TypeOK, StrandInv, NEW p \in Peers, DidConnect(p) \/ Drop(p) \/ Misbehave(p)
    PROVE  StrandInv'
  <1>1. queue \in Seq(Blocks)  BY DEF TypeOK
  <1>2. /\ desired' = desired /\ connected' = connected /\ told' = told
        /\ reconnects' = reconnects /\ connectedPeers' = connectedPeers
    BY DEF DidConnect, Drop, Misbehave, chosen
  <1>3. CASE DidConnect(p)
    <2> DEFINE b == Block("peerConnected", p, "none")
    <2>1. b \in Blocks  BY BlockTypes, CallBlocks DEF PeerKinds
    <2>2. b.kind # "connect"  BY DEF Block
    <2>3. queue' = Append(queue, b) /\ status' = [status EXCEPT ![p] = "Connected"]
      BY <1>3 DEF DidConnect
    <2> HIDE DEF b
    <2>4. QED  BY <1>1, <1>2, <2>1, <2>2, <2>3, StrandAdd
  <1>4. CASE Drop(p)
    <2>1. PICK error \in Errors : queue' = Append(queue, Ended(p, error))
      BY <1>4 DEF Drop
    <2> DEFINE b == Ended(p, error)
    <2>2. b \in Blocks /\ b.kind = "disconnected" /\ b.peer = p  BY EndedFields
    <2>3. queue' = Append(queue, b) /\ status' = [status EXCEPT ![p] = "Disconnected"]
      BY <1>4, <2>1 DEF Drop
    <2> HIDE DEF b
    <2>4. QED  BY <1>1, <1>2, <2>2, <2>3, StrandAdd
  <1>5. CASE Misbehave(p)
    <2> DEFINE b == Block("misbehaving", p, "none")
    <2>1. b \in Blocks  BY CallBlocks
    <2>2. b.kind # "connect"  BY DEF Block
    <2>3. queue' = Append(queue, b) /\ status' = status
      BY <1>5 DEF Misbehave
    <2> HIDE DEF b
    <2>4. QED  BY <1>1, <1>2, <2>1, <2>2, <2>3, StrandAdd
  <1>6. QED  BY <1>3, <1>4, <1>5

\* A connect waits at the end of the queue.
LEMMA StrandWaits == Waits(queue') => StrandInv'
  BY DEF Waits, StrandInv

\* What is asked for on other threads.
LEMMA StrandCalls ==
    ASSUME TypeOK, StrandInv,
           Connect \/ Disconnect \/ Reconnect \/ RelayedPeers \/ DropDownloadPeer
    PROVE  StrandInv'
  <1>1. queue \in Seq(Blocks)  BY DEF TypeOK
  <1>2. CASE Connect
    BY <1>1, <1>2, ConnectLast, StrandWaits DEF Connect
  <1>3. CASE Disconnect
    BY <1>3 DEF Disconnect, StrandInv
  <1>4. CASE Reconnect
    <2>1. CASE desired
      BY <1>1, <1>4, <2>1, ConnectLast, StrandWaits DEF Reconnect
    <2>2. CASE ~desired
      BY <1>4, <2>2 DEF Reconnect, StrandInv
    <2>3. QED  BY <2>1, <2>2
  <1>5. CASE RelayedPeers
    BY <1>5, StrandKept DEF RelayedPeers, chosen
  <1>6. CASE DropDownloadPeer
    BY <1>6 DEF DropDownloadPeer, StrandInv, chosen
  <1>7. QED  BY <1>2, <1>3, <1>4, <1>5, <1>6

\* useMasternodeList: leaves the wish for a connection only to those it does not
\* disconnect.
LEMMA StrandUseMasternodeList ==
    ASSUME TypeOK, StrandInv, UseMasternodeList
    PROVE  StrandInv'
  <1>1. CASE connected
    BY <1>1 DEF UseMasternodeList, StrandInv, chosen
  <1>2. CASE ~connected /\ ~(desired /\ peers = {})
    BY <1>2 DEF UseMasternodeList, StrandInv
  <1>3. CASE ~connected /\ desired /\ peers = {}
    <2>1. queue' = queue \o <<>> \o <<>>  BY <1>3 DEF UseMasternodeList
    <2>2. queue' = queue  BY <2>1 DEF TypeOK
    <2>3. QED  BY <1>3, <2>2, StrandKept DEF UseMasternodeList, chosen
  <1>4. QED  BY <1>1, <1>2, <1>3

\* connect keeps no peer that is not connected, and picks others; when there are
\* none the user is told.
LEMMA StrandRunConnect ==
    ASSUME TypeOK, RunConnect
    PROVE  StrandInv'
  <1> DEFINE alive == connectedPeers \ Dead
  <1>1. PICK more \in SUBSET (Known \ alive) :
              /\ connectedPeers' = alive \cup more
              /\ status' = [p \in Peers |->
                               IF p \in more THEN "Connecting" ELSE status[p]]
              /\ told' = (told \/ connectedPeers' = {})
    BY DEF RunConnect
  <1>2. \A p \in connectedPeers' : status'[p] # "Disconnected"
    <2>1. SUFFICES ASSUME NEW p \in alive \cup more  PROVE status'[p] # "Disconnected"
      BY <1>1
    <2>2. p \in Peers  BY <1>1 DEF TypeOK, Known
    <2>3. QED  BY <1>1, <2>2 DEF Dead
  <1>3. connectedPeers' # {} => Underway'  BY <1>2 DEF Underway
  <1>4. QED  BY <1>1, <1>3 DEF StrandInv

\* A block that runs leaves the queue, and another is added, or none.
LEMMA StrandRun ==
    ASSUME TypeOK, StrandInv, queue # <<>>,
           Head(queue).kind # "connect", Head(queue).kind # "disconnected",
           desired' = desired, connected' = connected, told' = told, reconnects' = reconnects,
           connectedPeers' = connectedPeers,
           \/ queue' = Tail(queue) /\ status' = status
           \/ \E x \in Peers, error \in Errors :
                 /\ queue' = Append(Tail(queue), Ended(x, error))
                 /\ status' = [status EXCEPT ![x] = "Disconnected"]
    PROVE  StrandInv'
  <1> DEFINE q == Tail(queue)
  <1>1. q \in Seq(Blocks) /\ \A p : Pends(queue, p) => Pends(q, p)  BY Dequeue
  <1>2. Has(queue, Connects) => Has(q, Connects)
    <2>1. Head(queue) \notin Connects  BY DEF Connects
    <2>2. QED  BY <2>1, OrderTail DEF TypeOK
  <1> HIDE DEF q
  <1>3. CASE queue' = q /\ status' = status
    BY <1>1, <1>2, <1>3, StrandKept
  <1>4. CASE \E x \in Peers, error \in Errors :
                 /\ queue' = Append(q, Ended(x, error))
                 /\ status' = [status EXCEPT ![x] = "Disconnected"]
    <2>1. PICK x \in Peers, error \in Errors :
                 /\ queue' = Append(q, Ended(x, error))
                 /\ status' = [status EXCEPT ![x] = "Disconnected"]
      BY <1>4
    <2> DEFINE b == Ended(x, error)
    <2>2. b \in Blocks /\ b.kind = "disconnected" /\ b.peer = x  BY EndedFields
    <2>3. queue' = Append(q, b)  BY <2>1
    <2> HIDE DEF b
    <2>4. QED  BY <1>1, <1>2, <2>1, <2>2, <2>3, StrandAdd
  <1>5. QED  BY <1>3, <1>4 DEF q

\* The block of disconnectDownloadPeerForError:
LEMMA StrandRunRemoveDownload ==
    ASSUME TypeOK, StrandInv, RunRemoveDownload
    PROVE  StrandInv'
  <1>1. /\ queue # <<>> /\ Head(queue).kind = "removeDownload"
        /\ IF Head(queue).error = "none"
           THEN queue' = Append(Tail(queue), Block("connect", Nobody, "none"))
           ELSE queue' = Tail(queue) /\ desired' = desired
        /\ connected' = connected /\ told' = told /\ reconnects' = reconnects
        /\ connectedPeers' = connectedPeers /\ status' = status
    BY DEF RunRemoveDownload, Runs, chosen
  <1>2. CASE Head(queue).error = "none"
    BY <1>1, <1>2, Dequeue, ConnectLast, StrandWaits
  <1>3. CASE Head(queue).error # "none"
    BY <1>1, <1>3, StrandRun
  <1>4. QED  BY <1>2, <1>3

\* A delegate's finding that a peer misbehaves.
LEMMA StrandRunMisbehaving ==
    ASSUME TypeOK, RunMisbehaving
    PROVE  StrandInv'
  <1>1. queue # <<>> /\ Head(queue).kind = "misbehaving" /\ Replace(Head(queue).peer)
    BY DEF RunMisbehaving, Runs
  <1>2. Head(queue).peer \in Peers
    BY <1>1, Dequeue, AboutAPeer DEF PeerKinds
  <1>3. QED  BY <1>1, <1>2, LimitReplace, StrandWaits

\* A peer that has connected is chosen, or leaves all as it was, or is sent away.
LEMMA StrandRunPeerConnected ==
    ASSUME TypeOK, StrandInv, RunPeerConnected
    PROVE  StrandInv'
  <1> DEFINE p == Head(queue).peer
  <1>1. /\ queue # <<>> /\ Head(queue).kind = "peerConnected"
        /\ desired' = desired /\ told' = told /\ reconnects' = reconnects
        /\ connectedPeers' = connectedPeers
    BY DEF RunPeerConnected, Runs
  <1>2. p \in Peers  BY <1>1, Dequeue, AboutAPeer DEF PeerKinds
  <1>3. CASE Gone(p)  BY <1>1, <1>3, StrandRun DEF Gone, chosen
  <1>4. CASE Unsuitable(p)
    <2>1. /\ queue' = Append(Tail(queue), Ended(p, "protocol"))
          /\ status' = [status EXCEPT ![p] = "Disconnected"] /\ connected' = connected
      BY <1>4 DEF Unsuitable, chosen
    <2>2. QED  BY <1>1, <1>2, <2>1, CallBlocks, StrandRun
  <1>5. CASE AlreadyConnected(p)
    BY <1>5 DEF AlreadyConnected, StrandInv, chosen
  <1>6. CASE TooFew(p)  BY <1>1, <1>6, StrandRun DEF TooFew, chosen
  <1>7. CASE Choose(p)
    BY <1>7 DEF Choose, StrandInv
  <1>8. QED
    <2>1. \/ Gone(p) \/ Unsuitable(p) \/ AlreadyConnected(p) \/ TooFew(p) \/ Choose(p)
      BY DEF RunPeerConnected
    <2>2. QED  BY <1>3, <1>4, <1>5, <1>6, <1>7, <2>1

\* The end of a connection is answered with another attempt, or with a word to the
\* user; where neither happens the limit was passed, and LimitInv holds.
LEMMA StrandRunDisconnected ==
    ASSUME TypeOK, LimitInv, RunDisconnected
    PROVE  StrandInv'
  <1> DEFINE p     == Head(queue).peer
             error == Head(queue).error
             b     == BookAfter(p, error)
  <1>1. queue # <<>> /\ Head(queue).kind = "disconnected"
    BY DEF RunDisconnected, Runs
  <1>2. p \in Peers  BY <1>1, Dequeue, AboutAPeer DEF PeerKinds
  <1>3. LimitInv'  BY LimitRunDisconnected
  <1>4. CASE error = "protocol"
    BY <1>1, <1>2, <1>4, LimitReplace, StrandWaits DEF RunDisconnected
  <1>5. CASE GivesUp
    BY <1>5 DEF RunDisconnected, GiveUp, StrandInv
  <1>6. CASE error # "protocol" /\ ~GivesUp
    <2>1. SUFFICES ASSUME desired', ~connected', ~told'
                   PROVE  Has(queue', Connects) \/ reconnects' > 0
      BY DEF StrandInv, Has
    <2>2. reconnects' = IF connectFailures' < MaxConnectFailures
                        THEN reconnects + 1 ELSE reconnects
      BY <1>6 DEF RunDisconnected, TryAgain
    <2>3. connectFailures' \in Nat
      BY DEF RunDisconnected, FailuresAfter, TypeOK
    <2>4. CASE connectFailures' < MaxConnectFailures
      BY <2>2, <2>4 DEF TypeOK
    <2>5. CASE connectFailures' >= MaxConnectFailures
      BY <1>3, <2>1, <2>5 DEF LimitInv, Has
    <2>6. QED  BY <2>3, <2>4, <2>5
  <1>7. QED  BY <1>4, <1>5, <1>6

\* Every step keeps StrandInv.
LEMMA StrandNext == TypeOK /\ LimitInv /\ StrandInv /\ [Next]_vars => StrandInv'
  <1> SUFFICES ASSUME TypeOK, LimitInv, StrandInv, [Next]_vars  PROVE StrandInv'  OBVIOUS
  <1>1. CASE \E p \in Peers : DidConnect(p) \/ Drop(p) \/ Misbehave(p)
    BY <1>1, StrandThreads
  <1>2. CASE Connect \/ Disconnect \/ Reconnect \/ RelayedPeers \/ DropDownloadPeer
    BY <1>2, StrandCalls
  <1>3. CASE UseMasternodeList  BY <1>3, StrandUseMasternodeList
  <1>4. CASE RunDisconnect
    <2>1. desired' = desired  BY <1>4 DEF RunDisconnect
    <2>2. CASE desired  BY <1>4, <2>2, LimitRunDisconnect, StrandWaits
    <2>3. CASE ~desired  BY <2>1, <2>3 DEF StrandInv
    <2>4. QED  BY <2>2, <2>3
  <1>5. CASE RunConnect \/ RunRemoveDownload \/ RunMisbehaving \/ RunPeerConnected \/ RunDisconnected
    BY <1>5, StrandRunConnect, StrandRunRemoveDownload, StrandRunMisbehaving,
       StrandRunPeerConnected, StrandRunDisconnected
  <1>6. CASE UNCHANGED vars
    BY <1>6, StrandKept DEF vars
  <1>7. QED  BY <1>1, <1>2, <1>3, <1>4, <1>5, <1>6 DEF Next, Run

\* With enough addresses: who wants a connection, has none and was not told of a
\* failure is below the limit of failures and has one being made when nothing
\* waits to be handled.  The loss of a peer
\* is answered by another attempt or by a word to the user (disconnectedWithError:,
\* connect), and the connection of all of them by a choice (peerConnected:).
THEOREM NobodyIsStranded ==
    ASSUME Cardinality(Peers) >= MaxConnectCount
    PROVE  Spec => []NotStranded
  <1>1. Init => LimitInv /\ StrandInv  BY DEF Init, LimitInv, StrandInv
  <1>2. TypeOK /\ StrandInv /\ ToldAtLimit /\ ChosenOnceAllConnected => NotStranded
    <2> SUFFICES ASSUME TypeOK, StrandInv, ToldAtLimit, ChosenOnceAllConnected,
                        Quiet, desired, ~connected, ~told,
                        \A p \in Peers : status[p] # "Connecting"
                 PROVE  FALSE
      BY DEF NotStranded
    <2>1. ~Has(queue, Connects) /\ ~(reconnects > 0) /\ \A p : ~Pends(queue, p)
      BY DEF Quiet, Has, Pends
    <2>2. connectedPeers # {} /\ \A p \in connectedPeers : status[p] # "Disconnected"
      BY <2>1 DEF StrandInv, Underway
    <2>3. \A p \in connectedPeers : status[p] = "Connected"
      BY <2>2 DEF TypeOK
    <2>4. ReallyConnected = connectedPeers  BY <2>3 DEF ReallyConnected
    <2>5. QED  BY <2>2, <2>4 DEF ChosenOnceAllConnected
  <1>3. Spec => []ChosenOnceAllConnected  BY DownloadPeerIsChosen
  <1>4. TypeOK /\ LimitInv /\ StrandInv /\ [Next]_vars => LimitInv' /\ StrandInv'
    BY LimitNext, StrandNext
  <1>5. QED  BY <1>1, <1>2, <1>3, <1>4, TypeCorrect, UserIsTold, PTL DEF Spec

=============================================================================
