--------------------------- MODULE DSPeersProofs ---------------------------
(***************************************************************************)
(* Proofs about the peer manager (DSPeers), for any set of addresses, any  *)
(* number of connections and any bounds: the types, that no connection is  *)
(* forgotten or made beyond the limit, and that a download peer that is    *)
(* gone is a download peer whose end is still to be heard of.              *)
(***************************************************************************)
EXTENDS DSPeers, FiniteSetTheorems, SequenceTheorems, TLAPS

USE PeersAssumption

\* EndPending, of any queue: so that a queue and its successor compare.
Pends(q, p) == \E i \in 1 .. Len(q) : q[i].kind = "disconnected" /\ q[i].peer = p

-----------------------------------------------------------------------------
(* The blocks of the networking queue.                                     *)

\* A block that is about nobody, and one that is about a peer.
LEMMA BlockTypes ==
    ASSUME NEW error \in Errors
    PROVE  /\ \A kind \in OwnKinds : Block(kind, Nobody, error) \in Blocks
           /\ \A kind \in PeerKinds, p \in Peers : Block(kind, p, error) \in Blocks
  BY DEF Block, Blocks

\* The block that tells of the end of a connection.
LEMMA EndedFields ==
    ASSUME NEW p \in Peers, NEW error \in Errors
    PROVE  /\ Ended(p, error) \in Blocks
           /\ Ended(p, error).kind = "disconnected"
           /\ Ended(p, error).peer = p
  <1>1. "disconnected" \in PeerKinds  BY DEF PeerKinds
  <1>2. Ended(p, error) \in Blocks  BY <1>1, BlockTypes DEF Ended
  <1>3. QED  BY <1>2 DEF Ended, Block

\* A block whose kind says so is about a peer.
LEMMA AboutAPeer ==
    ASSUME NEW b \in Blocks, b.kind \in PeerKinds
    PROVE  b.peer \in Peers /\ b.error \in Errors
  BY DEF Blocks, OwnKinds, PeerKinds

\* Blocks added at the end leave what pends, and pend themselves.
LEMMA PendsConcat ==
    ASSUME NEW q \in Seq(Blocks), NEW r \in Seq(Blocks), NEW p
    PROVE  /\ q \o r \in Seq(Blocks)
           /\ Pends(q, p) => Pends(q \o r, p)
           /\ Pends(r, p) => Pends(q \o r, p)
  <1>1. q \o r \in Seq(Blocks)  OBVIOUS
  <1>2. /\ Len(q \o r) = Len(q) + Len(r)
        /\ \A i \in 1 .. Len(q) : (q \o r)[i] = q[i]
        /\ \A i \in 1 .. Len(r) : (q \o r)[Len(q) + i] = r[i]
    OBVIOUS
  <1>3. ASSUME Pends(q, p)  PROVE Pends(q \o r, p)
    <2>1. PICK i \in 1 .. Len(q) : q[i].kind = "disconnected" /\ q[i].peer = p
      BY <1>3 DEF Pends
    <2>2. i \in 1 .. Len(q \o r) /\ (q \o r)[i] = q[i]  BY <1>2
    <2>3. QED  BY <2>1, <2>2 DEF Pends
  <1>4. ASSUME Pends(r, p)  PROVE Pends(q \o r, p)
    <2>1. PICK i \in 1 .. Len(r) : r[i].kind = "disconnected" /\ r[i].peer = p
      BY <1>4 DEF Pends
    <2>2. Len(q) + i \in 1 .. Len(q \o r) /\ (q \o r)[Len(q) + i] = r[i]  BY <1>2
    <2>3. QED  BY <2>1, <2>2 DEF Pends
  <1>5. QED  BY <1>1, <1>3, <1>4

\* One more block leaves what pends, and pends when it tells of an end.
LEMMA PendsAppend ==
    ASSUME NEW q \in Seq(Blocks), NEW b \in Blocks, NEW p
    PROVE  /\ Append(q, b) \in Seq(Blocks)
           /\ Pends(q, p) => Pends(Append(q, b), p)
           /\ b.kind = "disconnected" /\ b.peer = p => Pends(Append(q, b), p)
  <1>1. <<b>> \in Seq(Blocks)  OBVIOUS
  <1>2. Append(q, b) = q \o <<b>>  OBVIOUS
  <1>3. b.kind = "disconnected" /\ b.peer = p => Pends(<<b>>, p)
    BY DEF Pends
  <1>4. QED  BY <1>1, <1>2, <1>3, PendsConcat

\* The block that runs leaves the others on the queue.
LEMMA PendsTail ==
    ASSUME NEW q \in Seq(Blocks), q # <<>>, NEW p
    PROVE  /\ Tail(q) \in Seq(Blocks)
           /\ Head(q) \in Blocks
           /\ Pends(q, p) /\ ~(Head(q).kind = "disconnected" /\ Head(q).peer = p)
                 => Pends(Tail(q), p)
  <1>1. Tail(q) \in Seq(Blocks) /\ Head(q) \in Blocks  OBVIOUS
  <1>2. ASSUME Pends(q, p), ~(Head(q).kind = "disconnected" /\ Head(q).peer = p)
        PROVE  Pends(Tail(q), p)
    <2>1. PICK i \in 1 .. Len(q) : q[i].kind = "disconnected" /\ q[i].peer = p
      BY <1>2 DEF Pends
    <2>2. i # 1  BY <1>2, <2>1
    <2>3. i - 1 \in 1 .. Len(Tail(q)) /\ Tail(q)[i - 1] = q[i]  BY <2>2
    <2>4. QED  BY <2>1, <2>3 DEF Pends
  <1>3. QED  BY <1>1, <1>2

\* To mark blocks as about older objects changes no kind and no peer.
LEMMA PendsOutdated ==
    ASSUME NEW q \in Seq(Blocks), NEW S, NEW p
    PROVE  /\ Outdated(q, S) \in Seq(Blocks)
           /\ Pends(q, p) => Pends(Outdated(q, S), p)
  <1>1. \A i \in 1 .. Len(q) : /\ [q[i] EXCEPT !.old = TRUE] \in Blocks
                               /\ [q[i] EXCEPT !.old = TRUE].kind = q[i].kind
                               /\ [q[i] EXCEPT !.old = TRUE].peer = q[i].peer
    <2>1. \A i \in 1 .. Len(q) : q[i] \in Blocks  OBVIOUS
    <2>2. QED  BY <2>1 DEF Blocks
  <1>2. DOMAIN q = 1 .. Len(q) /\ Len(q) \in Nat /\ \A i \in 1 .. Len(q) : q[i] \in Blocks
    OBVIOUS
  <1>3. Outdated(q, S) \in [1 .. Len(q) -> Blocks]
    BY <1>1, <1>2 DEF Outdated
  <1>4. Outdated(q, S) \in Seq(Blocks) /\ Len(Outdated(q, S)) = Len(q)
    BY <1>2, <1>3
  <1>5. \A i \in 1 .. Len(q) : /\ Outdated(q, S)[i].kind = q[i].kind
                               /\ Outdated(q, S)[i].peer = q[i].peer
    BY <1>1, <1>2 DEF Outdated
  <1>6. QED  BY <1>4, <1>5 DEF Pends

\* The ends of the connections of a set of peers, in any order.
LEMMA EndsOf ==
    ASSUME NEW S \in SUBSET Peers, NEW order \in Orders(S)
    PROVE  LET ends == [i \in 1 .. Cardinality(S) |-> Ended(order[i], "none")]
           IN  ends \in Seq(Blocks) /\ \A p \in S : Pends(ends, p)
  <1> DEFINE n    == Cardinality(S)
             ends == [i \in 1 .. n |-> Ended(order[i], "none")]
  <1>1. IsFiniteSet(S) /\ n \in Nat  BY FS_Subset, FS_CardinalityType
  <1>2. /\ order \in [1 .. n -> S]
        /\ \A i, j \in 1 .. n : order[i] = order[j] => i = j
    BY DEF Orders
  <1>3. "none" \in Errors  BY DEF Errors
  <1>4. ends \in [1 .. n -> Blocks]  BY <1>2, <1>3, EndedFields
  <1>5. ends \in Seq(Blocks) /\ Len(ends) = n  BY <1>1, <1>4
  <1>6. \A p \in S : \E i \in 1 .. n : order[i] = p
    <2>1. order \in Injection(1 .. n, S)
      BY <1>2 DEF Injection, IsInjective
    <2>2. IsFiniteSet(1 .. n) /\ Cardinality(1 .. n) = n
      BY <1>1, FS_Interval
    <2>3. order \in Surjection(1 .. n, S)
      BY <1>1, <2>1, <2>2, FS_Injection
    <2>4. QED  BY <2>3 DEF Surjection
  <1>7. ASSUME NEW p \in S  PROVE Pends(ends, p)
    <2>1. PICK i \in 1 .. n : order[i] = p  BY <1>6
    <2>2. ends[i] = Ended(p, "none")  BY <2>1
    <2>3. ends[i].kind = "disconnected" /\ ends[i].peer = p
      BY <1>3, <2>2, EndedFields
    <2>4. QED  BY <1>5, <2>3 DEF Pends
  <1>8. QED  BY <1>5, <1>7

-----------------------------------------------------------------------------
(* What is known of the peers.                                             *)

\* What a book of peers may hold.
BookOK(b) ==
    /\ b \in [known : SUBSET Peers, used : SUBSET Peers, bad : SUBSET Peers,
              count : 0 .. MisbehavingThreshold - 1]
    /\ b.used \subseteq b.known

\* The peers that are known, found again or not, are addresses there are.
LEMMA KnownType ==
    ASSUME TypeOK
    PROVE  Known \subseteq Peers /\ KnownUsed \subseteq Known
  BY DEF TypeOK, Known, KnownUsed

\* The book, without a peer, without all, or with a peer noted as misbehaving.
LEMMA BookType ==
    ASSUME TypeOK, NEW p \in Peers
    PROVE  BookOK(Book) /\ BookOK(Without(p)) /\ BookOK(Noted(p))
  <1>1. BookOK(Book)  BY DEF TypeOK, BookOK, Book
  <1>2. BookOK(Without(p))
    BY <1>1, KnownType DEF BookOK, Without, Book
  <1>3. CASE misbehavingCount + 1 >= MisbehavingThreshold
    <2>1. Noted(p) = [known |-> {}, used |-> {}, bad |-> {}, count |-> 0]
      BY <1>3 DEF Noted, Forgotten, Book
    <2>2. QED  BY <1>1, <1>2, <2>1 DEF BookOK
  <1>4. CASE ~(misbehavingCount + 1 >= MisbehavingThreshold)
    <2>1. Noted(p) = [known |-> Known \ {p}, used |-> KnownUsed \ {p},
                      bad |-> misbehavingPeers \cup {p}, count |-> misbehavingCount + 1]
      BY <1>4 DEF Noted, Without, Book
    <2>2. misbehavingCount + 1 \in 0 .. MisbehavingThreshold - 1
      BY <1>4 DEF TypeOK
    <2>3. misbehavingPeers \cup {p} \in SUBSET Peers  BY DEF TypeOK
    <2>4. BookOK(Noted(p))  BY <2>1, <2>2, <2>3, KnownType DEF BookOK
    <2>5. QED  BY <1>1, <1>2, <2>4
  <1>5. QED  BY <1>3, <1>4

\* A book from which the peers are forgotten.
LEMMA ForgottenType ==
    ASSUME NEW b, BookOK(b)
    PROVE  BookOK(Forgotten(b))
  BY DEF BookOK, Forgotten

\* The part of the type invariant that the book of peers is.
BookTyped == /\ peers \subseteq Peers /\ used \subseteq peers
             /\ misbehavingPeers \subseteq Peers
             /\ misbehavingCount \in 0 .. MisbehavingThreshold - 1

\* To set a book is to set it to what it may hold.
LEMMA SetBookType ==
    ASSUME NEW b, BookOK(b), SetBook(b)
    PROVE  BookTyped'
  BY DEF BookOK, SetBook, BookTyped

-----------------------------------------------------------------------------
(* The invariant, and what most actions keep of it.                        *)

\* DownloadPeerStands, of any values of the variables it reads.
Stands(d, st, q) == d # Nobody => st[d] = "Connected" \/ Pends(q, d)

Inv == TypeOK /\ ConnectionsAreHeld /\ DownloadPeerStands

\* DownloadPeerStands is Stands, now and after a step.
LEMMA StandsIs ==
    /\ DownloadPeerStands <=> Stands(downloadPeer, status, queue)
    /\ DownloadPeerStands' <=> Stands(downloadPeer', status', queue')
  BY DEF DownloadPeerStands, Stands, EndPending, Pends

\* The connections are still held when no peer comes to life and the manager
\* holds the same ones.
LEMMA StillHeld ==
    ASSUME ConnectionsAreHeld, connectedPeers' = connectedPeers,
           \A p \in Peers : status'[p] # "Disconnected" => status[p] # "Disconnected"
    PROVE  ConnectionsAreHeld'
  BY DEF ConnectionsAreHeld, Live

\* One connection ends and says so: the download peer stands as before.
LEMMA EndStands ==
    ASSUME TypeOK, NEW p \in Peers, NEW q \in Seq(Blocks), NEW error \in Errors,
           Stands(downloadPeer, status, q)
    PROVE  /\ [status EXCEPT ![p] = "Disconnected"]
                 \in [Peers -> {"Disconnected", "Connecting", "Connected"}]
           /\ \A x \in Peers : [status EXCEPT ![p] = "Disconnected"][x] # "Disconnected"
                                   => status[x] # "Disconnected"
           /\ Append(q, Ended(p, error)) \in Seq(Blocks)
           /\ \A d \in {downloadPeer} \cup {x \in Peers : status[x] = "Connected"} :
                 Stands(d, [status EXCEPT ![p] = "Disconnected"], Append(q, Ended(p, error)))
  <1> DEFINE st == [status EXCEPT ![p] = "Disconnected"]
             r  == Append(q, Ended(p, error))
  <1>1. Ended(p, error) \in Blocks /\ Ended(p, error).kind = "disconnected"
                                   /\ Ended(p, error).peer = p
    BY EndedFields
  <1>2. r \in Seq(Blocks)  BY <1>1
  <1>3. \A d : (Pends(q, d) \/ d = p) => Pends(r, d)
    BY <1>1, PendsAppend
  <1>4. \A x \in Peers : st[x] = IF x = p THEN "Disconnected" ELSE status[x]
    BY DEF TypeOK
  <1>5. ASSUME NEW d \in {downloadPeer} \cup {x \in Peers : status[x] = "Connected"}
        PROVE  Stands(d, st, r)
    <2>1. SUFFICES ASSUME d # Nobody, d # p  PROVE st[d] = "Connected" \/ Pends(r, d)
      BY <1>3 DEF Stands
    <2>2. d \in Peers  BY <2>1 DEF TypeOK
    <2>3. status[d] = "Connected" \/ Pends(q, d)  BY <2>1 DEF Stands
    <2>4. QED  BY <1>3, <1>4, <2>1, <2>2, <2>3
  <1>6. QED
    <2>1. st \in [Peers -> {"Disconnected", "Connecting", "Connected"}]  BY DEF TypeOK
    <2>2. QED  BY <1>2, <1>4, <1>5, <2>1

-----------------------------------------------------------------------------
(* The invariant at the start, and kept by what the peers' threads and the *)
(* application do.                                                         *)

\* Nothing is connected at the start.
LEMMA InvInit == Init => Inv
  <1> SUFFICES ASSUME Init  PROVE Inv  OBVIOUS
  <1>1. TypeOK
    <2>1. status \in [Peers -> {"Disconnected", "Connecting", "Connected"}]
      BY DEF Init
    <2>2. queue \in Seq(Blocks)  BY DEF Init
    <2>3. 0 \in 0 .. MisbehavingThreshold - 1 /\ 0 \in 0 .. MaxFaults /\ 0 \in 0 .. MaxCalls
      OBVIOUS
    <2>4. connected \in BOOLEAN /\ (connected <=> downloadPeer # Nobody)
      BY DEF Init
    <2>5. QED  BY <2>1, <2>2, <2>3, <2>4 DEF Init, TypeOK
  <1>2. Cardinality({}) = 0  BY FS_EmptySet
  <1>3. ConnectionsAreHeld
    BY <1>2 DEF Init, ConnectionsAreHeld, Live
  <1>4. QED  BY <1>1, <1>3 DEF Init, Inv, DownloadPeerStands

\* didConnect
LEMMA InvDidConnect ==
    ASSUME Inv, NEW p \in Peers, DidConnect(p)
    PROVE  Inv'
  <1> DEFINE b == Block("peerConnected", p, "none")
  <1>1. b \in Blocks
    <2>1. "peerConnected" \in PeerKinds /\ "none" \in Errors  BY DEF PeerKinds, Errors
    <2>2. QED  BY <2>1, BlockTypes
  <1>2. Append(queue, b) \in Seq(Blocks) /\ \A d : Pends(queue, d) => Pends(Append(queue, b), d)
    BY <1>1, PendsAppend DEF Inv, TypeOK
  <1>3. TypeOK'
    BY <1>2 DEF Inv, TypeOK, DidConnect, book, chosen, app
  <1>4. ConnectionsAreHeld'
    BY DEF Inv, TypeOK, DidConnect, ConnectionsAreHeld, Live
  <1>5. DownloadPeerStands'
    <2>1. Stands(downloadPeer, status, queue)  BY StandsIs DEF Inv
    <2>2. Stands(downloadPeer', status', queue')
      BY <1>2, <2>1 DEF Inv, TypeOK, DidConnect, Stands, chosen
    <2>3. QED  BY <2>2, StandsIs
  <1>6. QED  BY <1>3, <1>4, <1>5 DEF Inv

\* disconnectWithError: on the peer's thread
LEMMA InvDrop ==
    ASSUME Inv, NEW p \in Peers, Drop(p)
    PROVE  Inv'
  <1>1. PICK error \in Errors : queue' = Append(queue, Ended(p, error))
    BY DEF Drop
  <1>2. status' = [status EXCEPT ![p] = "Disconnected"]  BY DEF Drop
  <1>3. Stands(downloadPeer, status, queue)  BY StandsIs DEF Inv
  <1>4. /\ status' \in [Peers -> {"Disconnected", "Connecting", "Connected"}]
        /\ \A x \in Peers : status'[x] # "Disconnected" => status[x] # "Disconnected"
        /\ queue' \in Seq(Blocks)
        /\ Stands(downloadPeer, status', queue')
    BY <1>1, <1>2, <1>3, EndStands DEF Inv, TypeOK
  <1>5. TypeOK'
    BY <1>4 DEF Inv, TypeOK, Drop, Fault, book, chosen, app
  <1>6. ConnectionsAreHeld'  BY <1>4, StillHeld DEF Inv, Drop
  <1>7. DownloadPeerStands'  BY <1>4, StandsIs DEF Drop, chosen
  <1>8. QED  BY <1>5, <1>6, <1>7 DEF Inv

\* Steps that only add blocks, as those of the application, keep the
\* connections and the download peer.
LEMMA InvAdd ==
    ASSUME Inv, TypeOK', UNCHANGED <<status, connectedPeers, downloadPeer>>,
           \A d : Pends(queue, d) => Pends(queue', d)
    PROVE  Inv'
  <1>1. ConnectionsAreHeld'  BY StillHeld DEF Inv
  <1>2. DownloadPeerStands'  BY StandsIs DEF Inv, Stands
  <1>3. QED  BY <1>1, <1>2 DEF Inv

\* The blocks that callers leave on the queue.
LEMMA CallBlocks ==
    /\ \A kind \in {"connect", "disconnect", "removeDownload"}, error \in Errors :
          Block(kind, Nobody, error) \in Blocks
    /\ \A p \in Peers : Block("misbehaving", p, "none") \in Blocks
    /\ "none" \in Errors /\ "network" \in Errors /\ "protocol" \in Errors
  <1>1. "none" \in Errors /\ "network" \in Errors /\ "protocol" \in Errors
    BY DEF Errors
  <1>2. OwnKinds = {"connect", "disconnect", "removeDownload"} /\ "misbehaving" \in PeerKinds
    BY DEF OwnKinds, PeerKinds
  <1>3. QED  BY <1>1, <1>2, BlockTypes

\* One block more.
LEMMA OneMore ==
    ASSUME TypeOK, NEW b \in Blocks
    PROVE  /\ Append(queue, b) \in Seq(Blocks)
           /\ \A d : Pends(queue, d) => Pends(Append(queue, b), d)
  BY PendsAppend DEF TypeOK

\* A delegate is handed a message that shows the peer to misbehave.
LEMMA InvMisbehave ==
    ASSUME Inv, NEW p \in Peers, Misbehave(p)
    PROVE  Inv'
  <1>1. /\ queue' \in Seq(Blocks)
        /\ \A d : Pends(queue, d) => Pends(queue', d)
    BY CallBlocks, OneMore DEF Inv, Misbehave
  <1>2. TypeOK'
    BY <1>1 DEF Inv, TypeOK, Misbehave, Fault, book, chosen, app
  <1>3. QED  BY <1>1, <1>2, InvAdd DEF Misbehave, chosen

\* connect and disconnect
LEMMA InvCalls ==
    ASSUME Inv, Connect \/ Disconnect
    PROVE  Inv'
  <1>1. /\ queue' \in Seq(Blocks)
        /\ \A d : Pends(queue, d) => Pends(queue', d)
    BY CallBlocks, OneMore DEF Inv, Connect, Disconnect
  <1>2. TypeOK'
    <2>1. CASE Connect
      <3>1. desired' \in BOOLEAN /\ wanted' \in BOOLEAN /\ told' \in BOOLEAN
        BY <2>1 DEF Connect, Inv, TypeOK
      <3>2. calls' \in 0 .. MaxCalls
        BY <2>1 DEF Connect, Call, Inv, TypeOK
      <3>3. UNCHANGED <<status, connectedPeers, book, connectFailures, chosen,
                        masternodeList, reconnects, faults>>
        BY <2>1 DEF Connect
      <3>4. QED  BY <1>1, <3>1, <3>2, <3>3 DEF Inv, TypeOK, book, chosen
    <2>2. CASE Disconnect
      <3>1. desired' \in BOOLEAN /\ wanted' \in BOOLEAN /\ told' \in BOOLEAN
        BY <2>2 DEF Disconnect, Inv, TypeOK
      <3>2. calls' \in 0 .. MaxCalls
        BY <2>2 DEF Disconnect, Call, Inv, TypeOK
      <3>3. UNCHANGED <<status, connectedPeers, book, connectFailures, chosen,
                        masternodeList, reconnects, faults>>
        BY <2>2 DEF Disconnect
      <3>4. QED  BY <1>1, <3>1, <3>2, <3>3 DEF Inv, TypeOK, book, chosen
    <2>3. QED  BY <2>1, <2>2
  <1>3. QED  BY <1>1, <1>2, InvAdd DEF Connect, Disconnect, chosen

\* useMasternodeList:
LEMMA InvUseMasternodeList ==
    ASSUME Inv, UseMasternodeList
    PROVE  Inv'
  <1> DEFINE q1 == IF peers = {} THEN <<>> ELSE <<Block("disconnect", Nobody, "none")>>
             q2 == IF connected THEN <<Block("connect", Nobody, "none")>> ELSE <<>>
  <1>1. q1 \in Seq(Blocks) /\ q2 \in Seq(Blocks)  BY CallBlocks
  <1>2. queue' = (queue \o q1) \o q2  BY DEF UseMasternodeList
  <1>3. queue \in Seq(Blocks)  BY DEF Inv, TypeOK
  <1>4. /\ queue \o q1 \in Seq(Blocks)
        /\ \A d : Pends(queue, d) => Pends(queue \o q1, d)
    BY <1>1, <1>3, PendsConcat
  <1>5. /\ queue' \in Seq(Blocks)
        /\ \A d : Pends(queue, d) => Pends(queue', d)
    BY <1>1, <1>2, <1>4, PendsConcat
  <1>6. TypeOK'
    BY <1>5 DEF Inv, TypeOK, UseMasternodeList, Call, chosen
  <1>7. QED  BY <1>5, <1>6, InvAdd DEF UseMasternodeList, chosen

\* disconnectDownloadPeerForError:
LEMMA InvDropDownloadPeer ==
    ASSUME Inv, DropDownloadPeer
    PROVE  Inv'
  <1>1. PICK error \in {"none", "protocol"} :
           /\ IF downloadPeer \in Live /\ ~downloadOld
              THEN /\ status' = [status EXCEPT ![downloadPeer] = "Disconnected"]
                   /\ queue' = queue \o <<Ended(downloadPeer, error),
                                          Block("removeDownload", Nobody, error)>>
              ELSE /\ queue' = Append(queue, Block("removeDownload", Nobody, error))
                   /\ UNCHANGED status
           /\ wanted' = (wanted \/ error = "none")
    BY DEF DropDownloadPeer
  <1> DEFINE b == Block("removeDownload", Nobody, error)
  <1>2. error \in Errors /\ b \in Blocks  BY CallBlocks DEF Errors
  <1>3. Stands(downloadPeer, status, queue)  BY StandsIs DEF Inv
  <1>4. CASE ~(downloadPeer \in Live /\ ~downloadOld)
    <2>1. queue' = Append(queue, b) /\ status' = status  BY <1>1, <1>4
    <2>2. queue' \in Seq(Blocks) /\ \A d : Pends(queue, d) => Pends(queue', d)
      BY <1>2, <2>1, OneMore DEF Inv
    <2>3. TypeOK'
      BY <1>1, <2>1, <2>2 DEF Inv, TypeOK, DropDownloadPeer, Fault, book, chosen
    <2>4. QED  BY <2>1, <2>2, <2>3, InvAdd DEF DropDownloadPeer, chosen
  <1>5. CASE downloadPeer \in Live /\ ~downloadOld
    <2>1. downloadPeer \in Peers  BY <1>5 DEF Live
    <2> DEFINE e == Ended(downloadPeer, error)
               r == Append(queue, e)
    <2>2. status' = [status EXCEPT ![downloadPeer] = "Disconnected"]
      BY <1>1, <1>5
    <2>3. e \in Blocks  BY <1>2, <2>1, EndedFields
    <2>4. queue' = Append(r, b)
      BY <1>1, <1>2, <1>5, <2>3 DEF Inv, TypeOK
    <2>5. /\ status' \in [Peers -> {"Disconnected", "Connecting", "Connected"}]
          /\ \A x \in Peers : status'[x] # "Disconnected" => status[x] # "Disconnected"
          /\ r \in Seq(Blocks)
          /\ Stands(downloadPeer, status', r)
      BY <1>2, <1>3, <2>1, <2>2, EndStands DEF Inv, TypeOK
    <2>6. queue' \in Seq(Blocks) /\ \A d : Pends(r, d) => Pends(queue', d)
      BY <1>2, <2>4, <2>5, PendsAppend
    <2>7. TypeOK'
      BY <1>1, <2>5, <2>6 DEF Inv, TypeOK, DropDownloadPeer, Fault, book, chosen
    <2>8. ConnectionsAreHeld'  BY <2>5, StillHeld DEF Inv, DropDownloadPeer
    <2>9. Stands(downloadPeer, status', queue')  BY <2>5, <2>6 DEF Stands
    <2>10. DownloadPeerStands'  BY <2>9, StandsIs DEF DropDownloadPeer, chosen
    <2>11. QED  BY <2>7, <2>8, <2>10 DEF Inv
  <1>6. QED  BY <1>4, <1>5

\* The attempt to reconnect on the main queue.
LEMMA InvReconnect ==
    ASSUME Inv, Reconnect
    PROVE  Inv'
  <1>1. /\ queue' \in Seq(Blocks)
        /\ \A d : Pends(queue, d) => Pends(queue', d)
    <2>1. CASE desired
      BY <2>1, CallBlocks, OneMore DEF Inv, Reconnect
    <2>2. CASE ~desired
      BY <2>2 DEF Inv, TypeOK, Reconnect
    <2>3. QED  BY <2>1, <2>2
  <1>2. TypeOK'
    BY <1>1 DEF Inv, TypeOK, Reconnect, book, chosen, app
  <1>3. QED  BY <1>1, <1>2, InvAdd DEF Reconnect, chosen

\* relayedPeers:
LEMMA InvRelayedPeers ==
    ASSUME Inv, RelayedPeers
    PROVE  Inv'
  <1>1. TypeOK'
    BY KnownType DEF Inv, TypeOK, RelayedPeers, chosen, app, KnownUsed
  <1>2. QED  BY <1>1, InvAdd DEF RelayedPeers, chosen

-----------------------------------------------------------------------------
(* The invariant is kept by the blocks of the networking queue.            *)

\* The block that runs leaves the queue; only an end that pends may be it.
LEMMA Dequeue ==
    ASSUME TypeOK, queue # <<>>
    PROVE  /\ Tail(queue) \in Seq(Blocks)
           /\ Head(queue) \in Blocks
           /\ \A d : Head(queue).kind # "disconnected" /\ Pends(queue, d)
                        => Pends(Tail(queue), d)
           /\ \A d : Head(queue).peer # d /\ Pends(queue, d) => Pends(Tail(queue), d)
  BY PendsTail DEF TypeOK

\* The block of connect.
LEMMA InvRunConnect ==
    ASSUME Inv, RunConnect
    PROVE  Inv'
  <1> DEFINE alive  == connectedPeers \ Dead
             others == Known \ alive
             room   == Cardinality(alive) < MaxConnectCount
             same   == IF room THEN KnownUsed ELSE used
  <1>1. PICK more \in SUBSET others :
           /\ Cardinality(alive) + Cardinality(more) <= MaxConnectCount
           /\ more # others => Cardinality(alive) + Cardinality(more) = MaxConnectCount
           /\ connectFailures' = IF connectFailures >= MaxConnectFailures THEN 0 ELSE connectFailures
           /\ connectedPeers' = alive \cup more
           /\ status' = [p \in Peers |-> IF p \in more THEN "Connecting" ELSE status[p]]
           /\ peers' = IF room THEN Known ELSE peers
           /\ used' = same \cup more
           /\ queue' = Outdated(Tail(queue), more \ same)
           /\ downloadOld' = (downloadOld \/ downloadPeer \in more \ same)
           /\ told' = (told \/ connectedPeers' = {})
    BY DEF RunConnect
  <1>2. queue # <<>> /\ Head(queue).kind = "connect"  BY DEF RunConnect, Runs
  <1>3. /\ alive \subseteq Peers /\ more \subseteq Peers /\ alive \cap more = {}
        /\ Live \subseteq alive
    BY KnownType DEF Inv, TypeOK, ConnectionsAreHeld, Dead, Live
  <1>4. IsFiniteSet(alive) /\ IsFiniteSet(more)
        /\ Cardinality(alive) \in Nat /\ Cardinality(more) \in Nat
    BY <1>3, FS_Subset, FS_CardinalityType
  <1>5. Cardinality(alive \cup more) <= MaxConnectCount
    <2>1. Cardinality(alive \cup more)
             = Cardinality(alive) + Cardinality(more) - Cardinality(alive \cap more)
      BY <1>4, FS_Union
    <2>2. Cardinality(alive \cap more) = 0  BY <1>3, FS_EmptySet
    <2>3. QED  BY <1>1, <1>4, <2>1, <2>2
  <1>6. /\ queue' \in Seq(Blocks)
        /\ \A d : Pends(queue, d) => Pends(queue', d)
    BY <1>1, <1>2, Dequeue, PendsOutdated DEF Inv
  <1>7. TypeOK'
    <2>1. status' \in [Peers -> {"Disconnected", "Connecting", "Connected"}]
      BY <1>1 DEF Inv, TypeOK
    <2>2. peers' \subseteq Peers /\ used' \subseteq peers'
      <3>1. more # {} => room
        <4>1. more # {} => Cardinality(more) # 0  BY <1>4, FS_EmptySet
        <4>2. QED  BY <1>1, <1>4, <4>1
      <3>2. CASE room
        BY <1>1, <3>2, KnownType DEF Inv
      <3>3. CASE ~room
        BY <1>1, <3>1, <3>3 DEF Inv, TypeOK
      <3>4. QED  BY <3>2, <3>3
    <2>3. connectFailures' \in Nat  BY <1>1 DEF Inv, TypeOK
    <2>4. downloadOld' \in BOOLEAN /\ told' \in BOOLEAN  BY <1>1
    <2>5. connectedPeers' \subseteq Peers  BY <1>1, <1>3
    <2>6. UNCHANGED <<misbehavingPeers, misbehavingCount, downloadPeer, connected,
                      desired, reconnects, faults, app>>
      BY DEF RunConnect
    <2>7. QED  BY <1>6, <2>1, <2>2, <2>3, <2>4, <2>5, <2>6 DEF Inv, TypeOK, app
  <1>8. ConnectionsAreHeld'
    <2>1. ASSUME NEW p \in Peers, status'[p] # "Disconnected"  PROVE p \in connectedPeers'
      <3>1. p \in more \/ status[p] # "Disconnected"  BY <1>1, <2>1
      <3>2. p \in more \/ p \in Live  BY <3>1 DEF Live
      <3>3. QED  BY <1>1, <1>3, <3>2
    <2>2. Live' \subseteq connectedPeers'  BY <2>1 DEF Live
    <2>3. QED  BY <1>1, <1>5, <2>2 DEF ConnectionsAreHeld
  <1>9. DownloadPeerStands'
    <2>1. Stands(downloadPeer, status, queue)  BY StandsIs DEF Inv
    <2>2. SUFFICES ASSUME downloadPeer # Nobody
                   PROVE  status'[downloadPeer] = "Connected" \/ Pends(queue', downloadPeer)
      BY StandsIs DEF Stands, RunConnect
    <2>3. downloadPeer \in Peers  BY <2>2 DEF Inv, TypeOK
    <2>4. CASE status[downloadPeer] = "Connected"
      <3>1. downloadPeer \in Live  BY <2>3, <2>4 DEF Live
      <3>2. downloadPeer \notin more  BY <1>3, <3>1
      <3>3. QED  BY <1>1, <2>3, <2>4, <3>2
    <2>5. CASE Pends(queue, downloadPeer)  BY <1>6, <2>5
    <2>6. QED  BY <2>1, <2>2, <2>4, <2>5 DEF Stands
  <1>10. QED  BY <1>7, <1>8, <1>9 DEF Inv

\* The block of disconnect.
LEMMA InvRunDisconnect ==
    ASSUME Inv, RunDisconnect
    PROVE  Inv'
  <1>1. DisconnectAll  BY DEF RunDisconnect
  <1>2. PICK silent \in SUBSET {p \in connectedPeers : status[p] = "Connecting"} :
           \E order \in Orders({p \in connectedPeers : status[p] # "Disconnected"} \ silent) :
              /\ status' = [p \in Peers |->
                               IF p \in connectedPeers THEN "Disconnected" ELSE status[p]]
              /\ queue' = Tail(queue)
                    \o [i \in 1 .. Cardinality({p \in connectedPeers :
                                                   status[p] # "Disconnected"} \ silent)
                           |-> Ended(order[i], "none")]
    BY <1>1 DEF DisconnectAll
  <1> DEFINE heard == {p \in connectedPeers : status[p] # "Disconnected"} \ silent
  <1>3. PICK order \in Orders(heard) :
              /\ status' = [p \in Peers |->
                               IF p \in connectedPeers THEN "Disconnected" ELSE status[p]]
              /\ queue' = Tail(queue)
                    \o [i \in 1 .. Cardinality(heard) |-> Ended(order[i], "none")]
    BY <1>2
  <1> DEFINE ends == [i \in 1 .. Cardinality(heard) |-> Ended(order[i], "none")]
  <1>4. heard \in SUBSET Peers  BY DEF Inv, TypeOK
  <1>5. ends \in Seq(Blocks) /\ \A p \in heard : Pends(ends, p)
    BY <1>4, EndsOf
  <1>6. queue # <<>> /\ Head(queue).kind = "disconnect"  BY DEF RunDisconnect, Runs
  <1>7. /\ queue' \in Seq(Blocks)
        /\ \A d : Pends(queue, d) => Pends(queue', d)
        /\ \A d : Pends(ends, d) => Pends(queue', d)
    <2>1. queue' = Tail(queue) \o ends  BY <1>3
    <2>2. Tail(queue) \in Seq(Blocks) /\ \A d : Pends(queue, d) => Pends(Tail(queue), d)
      BY <1>6, Dequeue DEF Inv
    <2> HIDE DEF ends
    <2>3. QED  BY <1>5, <2>1, <2>2, PendsConcat
  <1>8. /\ status' \in [Peers -> {"Disconnected", "Connecting", "Connected"}]
        /\ \A x \in Peers : status'[x] # "Disconnected" => status[x] # "Disconnected"
    BY <1>3 DEF Inv, TypeOK
  <1>9. TypeOK'
    BY <1>7, <1>8 DEF Inv, TypeOK, RunDisconnect, book, chosen, app
  <1>10. ConnectionsAreHeld'  BY <1>8, StillHeld DEF Inv, RunDisconnect
  <1>11. DownloadPeerStands'
    <2>1. Stands(downloadPeer, status, queue)  BY StandsIs DEF Inv
    <2>2. SUFFICES ASSUME downloadPeer # Nobody  PROVE Pends(queue', downloadPeer)
      BY StandsIs DEF Stands, RunDisconnect, chosen
    <2>3. CASE status[downloadPeer] = "Connected"
      <3>1. downloadPeer \in Live  BY <2>2, <2>3 DEF Inv, TypeOK, Live
      <3>2. downloadPeer \in heard  BY <2>3, <3>1 DEF Inv, ConnectionsAreHeld
      <3>3. QED  BY <1>5, <1>7, <3>2
    <2>4. CASE Pends(queue, downloadPeer)  BY <1>7, <2>4
    <2>5. QED  BY <2>1, <2>2, <2>3, <2>4 DEF Stands
  <1>12. QED  BY <1>9, <1>10, <1>11 DEF Inv

\* The block of disconnectDownloadPeerForError:
LEMMA InvRunRemoveDownload ==
    ASSUME Inv, RunRemoveDownload
    PROVE  Inv'
  <1>1. queue # <<>> /\ Head(queue).kind = "removeDownload"
    BY DEF RunRemoveDownload, Runs
  <1>2. Tail(queue) \in Seq(Blocks) /\ \A d : Pends(queue, d) => Pends(Tail(queue), d)
    BY <1>1, Dequeue DEF Inv
  <1>3. Block("connect", Nobody, "none") \in Blocks  BY CallBlocks
  <1>4. /\ queue' \in Seq(Blocks) /\ desired' \in BOOLEAN
        /\ \A d : Pends(queue, d) => Pends(queue', d)
    <2>1. CASE Head(queue).error = "none"
      <3>1. desired' = TRUE /\ queue' = Append(Tail(queue), Block("connect", Nobody, "none"))
        BY <2>1 DEF RunRemoveDownload
      <3>2. QED  BY <1>2, <1>3, <3>1, PendsAppend
    <2>2. CASE Head(queue).error # "none"
      BY <1>2, <2>2 DEF RunRemoveDownload, Inv, TypeOK
    <2>3. QED  BY <2>1, <2>2
  <1>5. BookTyped'
    <2>1. CASE downloadPeer = Nobody
      <3>1. SetBook(Book)  BY <2>1 DEF RunRemoveDownload
      <3>2. QED  BY <3>1 DEF SetBook, Book, BookTyped, Inv, TypeOK
    <2>2. CASE downloadPeer # Nobody
      <3>1. SetBook(Without(downloadPeer)) /\ downloadPeer \in Peers
        BY <2>2 DEF RunRemoveDownload, Inv, TypeOK
      <3>2. QED  BY <3>1, BookType, SetBookType DEF Inv
    <2>3. QED  BY <2>1, <2>2
  <1>6. TypeOK'
    BY <1>4, <1>5 DEF Inv, TypeOK, BookTyped, RunRemoveDownload, chosen, app
  <1>7. QED  BY <1>4, <1>6, InvAdd DEF RunRemoveDownload, chosen

\* peerMisbehaving: ends at most the connection of p, which it tells.
LEMMA ReplaceKeeps ==
    ASSUME TypeOK, queue # <<>>, NEW p \in Peers, Replace(p),
           NEW d \in Peers \cup {Nobody}, Stands(d, status, Tail(queue))
    PROVE  /\ status' \in [Peers -> {"Disconnected", "Connecting", "Connected"}]
           /\ \A x \in Peers : status'[x] # "Disconnected" => status[x] # "Disconnected"
           /\ queue' \in Seq(Blocks)
           /\ desired' \in BOOLEAN
           /\ Stands(d, status', queue')
  <1> DEFINE ends == ~Head(queue).old /\ p \in Live
             e    == IF ends THEN <<Ended(p, "protocol")>> ELSE <<>>
             c    == Block("connect", Nobody, "none")
             mid  == Tail(queue) \o e
  <1>1. Tail(queue) \in Seq(Blocks)  BY Dequeue
  <1>2. c \in Blocks /\ "protocol" \in Errors  BY CallBlocks
  <1>3. Ended(p, "protocol") \in Blocks  BY <1>2, EndedFields
  <1>4. e \in Seq(Blocks) /\ <<c>> \in Seq(Blocks)  BY <1>2, <1>3
  <1>5. ends => Pends(e, p)
    <2>1. SUFFICES ASSUME ends  PROVE Pends(e, p)  OBVIOUS
    <2>2. e = <<Ended(p, "protocol")>>  BY <2>1
    <2>3. Len(e) = 1 /\ e[1] = Ended(p, "protocol")  BY <2>2
    <2>4. e[1].kind = "disconnected" /\ e[1].peer = p  BY <1>2, <2>3, EndedFields
    <2>5. 1 \in 1 .. Len(e)  BY <2>3
    <2>6. QED  BY <2>4, <2>5 DEF Pends
  <1>6. /\ status' = IF ends THEN [status EXCEPT ![p] = "Disconnected"] ELSE status
        /\ queue' = mid \o <<c>>
        /\ desired' = TRUE
    BY DEF Replace
  <1> HIDE DEF e, c
  <1>7. /\ mid \in Seq(Blocks)
        /\ \A x : Pends(Tail(queue), x) \/ Pends(e, x) => Pends(mid, x)
    BY <1>1, <1>4, PendsConcat
  <1> HIDE DEF mid, ends
  <1>8. /\ queue' \in Seq(Blocks)
        /\ \A x : Pends(mid, x) => Pends(queue', x)
    BY <1>4, <1>6, <1>7, PendsConcat
  <1>9. /\ status' \in [Peers -> {"Disconnected", "Connecting", "Connected"}]
        /\ \A x \in Peers : status'[x] # "Disconnected" => status[x] # "Disconnected"
        /\ \A x \in Peers : status'[x] = status[x] \/ (ends /\ x = p)
    BY <1>6 DEF TypeOK
  <1>10. Stands(d, status', queue')
    <2>1. SUFFICES ASSUME d # Nobody  PROVE status'[d] = "Connected" \/ Pends(queue', d)
      BY DEF Stands
    <2>2. status[d] = "Connected" \/ Pends(Tail(queue), d)  BY <2>1 DEF Stands
    <2>3. QED  BY <1>5, <1>7, <1>8, <1>9, <2>1, <2>2
  <1>11. QED  BY <1>6, <1>8, <1>9, <1>10

\* A delegate's finding that a peer misbehaves.
LEMMA InvRunMisbehaving ==
    ASSUME Inv, RunMisbehaving
    PROVE  Inv'
  <1> DEFINE p == Head(queue).peer
  <1>1. queue # <<>> /\ Head(queue).kind = "misbehaving"
    BY DEF RunMisbehaving, Runs
  <1>2. p \in Peers
    BY <1>1, Dequeue, AboutAPeer DEF Inv, PeerKinds
  <1>3. SetBook(Noted(p)) /\ Replace(p)  BY DEF RunMisbehaving
  <1>4. Stands(downloadPeer, status, Tail(queue))
    BY <1>1, Dequeue, StandsIs DEF Inv, Stands
  <1>5. /\ status' \in [Peers -> {"Disconnected", "Connecting", "Connected"}]
        /\ \A x \in Peers : status'[x] # "Disconnected" => status[x] # "Disconnected"
        /\ queue' \in Seq(Blocks)
        /\ desired' \in BOOLEAN
        /\ Stands(downloadPeer, status', queue')
    BY <1>1, <1>2, <1>3, <1>4, ReplaceKeeps DEF Inv, TypeOK
  <1>6. BookTyped'  BY <1>2, <1>3, BookType, SetBookType DEF Inv
  <1>7. UNCHANGED <<connectedPeers, connectFailures, chosen, reconnects, told, faults, app>>
    BY DEF RunMisbehaving
  <1>8. TypeOK'
    BY <1>5, <1>6, <1>7 DEF Inv, TypeOK, BookTyped, chosen, app
  <1>9. ConnectionsAreHeld'  BY <1>5, <1>7, StillHeld DEF Inv
  <1>10. DownloadPeerStands'  BY <1>5, <1>7, StandsIs DEF chosen
  <1>11. QED  BY <1>8, <1>9, <1>10 DEF Inv

\* peerConnected: when no peer is chosen.
LEMMA NoChoice ==
    ASSUME Inv, NEW p \in Peers, Runs("peerConnected"),
           Gone(p) \/ Unsuitable(p) \/ AlreadyConnected(p) \/ TooFew(p)
    PROVE  /\ status' \in [Peers -> {"Disconnected", "Connecting", "Connected"}]
           /\ \A x \in Peers : status'[x] # "Disconnected" => status[x] # "Disconnected"
           /\ queue' \in Seq(Blocks)
           /\ connectFailures' \in Nat
           /\ faults' \in 0 .. MaxFaults
           /\ UNCHANGED chosen
           /\ Stands(downloadPeer, status', queue')
  <1>1. queue # <<>> /\ Head(queue).kind = "peerConnected"  BY DEF Runs
  <1>2. Stands(downloadPeer, status, Tail(queue)) /\ Tail(queue) \in Seq(Blocks)
    BY <1>1, Dequeue, StandsIs DEF Inv, Stands
  <1>3. CASE Unsuitable(p)
    <2>1. "protocol" \in Errors  BY CallBlocks
    <2>2. /\ status' = [status EXCEPT ![p] = "Disconnected"]
          /\ queue' = Append(Tail(queue), Ended(p, "protocol"))
          /\ connectFailures' = 0 /\ UNCHANGED chosen
          /\ Fault
      BY <1>3 DEF Unsuitable
    <2>3. /\ status' \in [Peers -> {"Disconnected", "Connecting", "Connected"}]
          /\ \A x \in Peers : status'[x] # "Disconnected" => status[x] # "Disconnected"
          /\ queue' \in Seq(Blocks)
          /\ Stands(downloadPeer, status', queue')
      BY <1>2, <2>1, <2>2, EndStands DEF Inv
    <2>4. faults' \in 0 .. MaxFaults  BY <2>2 DEF Fault, Inv, TypeOK
    <2>5. QED  BY <2>2, <2>3, <2>4
  <1>4. CASE Gone(p) \/ AlreadyConnected(p) \/ TooFew(p)
    <2>1. /\ queue' = Tail(queue) /\ connectFailures' \in {0, connectFailures}
          /\ UNCHANGED <<status, chosen, faults>>
      BY <1>4 DEF Gone, AlreadyConnected, TooFew
    <2>2. QED  BY <1>2, <2>1 DEF Inv, TypeOK, Stands
  <1>5. QED  BY <1>3, <1>4

\* peerConnected: when the best peer is chosen; it is connected, or it is the
\* download peer before it whose end is told.
LEMMA ChoiceStands ==
    ASSUME Inv, NEW p \in Peers, Runs("peerConnected"), Choose(p)
    PROVE  /\ status' \in [Peers -> {"Disconnected", "Connecting", "Connected"}]
           /\ \A x \in Peers : status'[x] # "Disconnected" => status[x] # "Disconnected"
           /\ queue' \in Seq(Blocks)
           /\ downloadPeer' \in Peers
           /\ Stands(downloadPeer', status', queue')
  <1>1. PICK best \in ReallyConnected :
          LET ends == downloadPeer \in Live /\ ~downloadOld
          IN  /\ status' = IF ends THEN [status EXCEPT ![downloadPeer] = "Disconnected"]
                           ELSE status
              /\ queue' = Tail(queue)
                          \o (IF ends THEN <<Ended(downloadPeer, "none")>> ELSE <<>>)
              /\ downloadPeer' = best
    BY DEF Choose
  <1>2. best \in Peers /\ status[best] = "Connected"
    BY DEF ReallyConnected, Inv, TypeOK
  <1>3. queue # <<>> /\ Head(queue).kind = "peerConnected"  BY DEF Runs
  <1>4. Stands(downloadPeer, status, Tail(queue)) /\ Tail(queue) \in Seq(Blocks)
    BY <1>3, Dequeue, StandsIs DEF Inv, Stands
  <1>5. CASE downloadPeer \in Live /\ ~downloadOld
    <2>1. downloadPeer \in Peers /\ "none" \in Errors  BY <1>5, CallBlocks DEF Live
    <2>2. Ended(downloadPeer, "none") \in Blocks  BY <2>1, EndedFields
    <2>3. /\ status' = [status EXCEPT ![downloadPeer] = "Disconnected"]
          /\ queue' = Append(Tail(queue), Ended(downloadPeer, "none"))
          /\ downloadPeer' = best
      BY <1>1, <1>4, <1>5, <2>2
    <2>4. best \in {downloadPeer} \cup {x \in Peers : status[x] = "Connected"}
      BY <1>2
    <2>5. QED  BY <1>2, <1>4, <2>1, <2>3, <2>4, EndStands DEF Inv
  <1>6. CASE ~(downloadPeer \in Live /\ ~downloadOld)
    <2>1. status' = status /\ queue' = Tail(queue) /\ downloadPeer' = best
      BY <1>1, <1>4, <1>6
    <2>2. QED  BY <1>2, <1>4, <2>1 DEF Inv, TypeOK, Stands
  <1>7. QED  BY <1>5, <1>6

\* The block that didConnect left.
LEMMA InvRunPeerConnected ==
    ASSUME Inv, RunPeerConnected
    PROVE  Inv'
  <1> DEFINE p == Head(queue).peer
  <1>1. Runs("peerConnected") /\ queue # <<>> /\ Head(queue).kind = "peerConnected"
    BY DEF RunPeerConnected, Runs
  <1>2. p \in Peers
    BY <1>1, Dequeue, AboutAPeer DEF Inv, PeerKinds
  <1>3. UNCHANGED <<connectedPeers, book, desired, reconnects, told, app>>
    BY DEF RunPeerConnected
  <1>4. \/ Gone(p) \/ Unsuitable(p) \/ AlreadyConnected(p) \/ TooFew(p)
        \/ Choose(p)
    BY DEF RunPeerConnected
  <1>5. /\ status' \in [Peers -> {"Disconnected", "Connecting", "Connected"}]
        /\ \A x \in Peers : status'[x] # "Disconnected" => status[x] # "Disconnected"
        /\ queue' \in Seq(Blocks)
        /\ connectFailures' \in Nat
        /\ faults' \in 0 .. MaxFaults
        /\ downloadPeer' \in Peers \cup {Nobody} /\ downloadOld' \in BOOLEAN
        /\ connected' \in BOOLEAN /\ (connected' <=> downloadPeer' # Nobody)
        /\ Stands(downloadPeer', status', queue')
    <2>1. CASE Gone(p) \/ Unsuitable(p) \/ AlreadyConnected(p) \/ TooFew(p)
      <3>1. /\ status' \in [Peers -> {"Disconnected", "Connecting", "Connected"}]
            /\ \A x \in Peers : status'[x] # "Disconnected" => status[x] # "Disconnected"
            /\ queue' \in Seq(Blocks)
            /\ connectFailures' \in Nat
            /\ faults' \in 0 .. MaxFaults
            /\ UNCHANGED chosen
            /\ Stands(downloadPeer, status', queue')
        BY <1>1, <1>2, <2>1, NoChoice
      <3>2. downloadPeer' = downloadPeer /\ downloadOld' = downloadOld /\ connected' = connected
        BY <3>1 DEF chosen
      <3>3. /\ downloadPeer \in Peers \cup {Nobody} /\ downloadOld \in BOOLEAN
            /\ connected \in BOOLEAN /\ (connected <=> downloadPeer # Nobody)
        BY DEF Inv, TypeOK
      <3>4. QED  BY <3>1, <3>2, <3>3
    <2>2. CASE Choose(p)
      <3>1. /\ status' \in [Peers -> {"Disconnected", "Connecting", "Connected"}]
            /\ \A x \in Peers : status'[x] # "Disconnected" => status[x] # "Disconnected"
            /\ queue' \in Seq(Blocks)
            /\ downloadPeer' \in Peers
            /\ Stands(downloadPeer', status', queue')
        BY <1>1, <1>2, <2>2, ChoiceStands
      <3>2. connectFailures' = 0 /\ downloadOld' = FALSE /\ connected' = TRUE /\ faults' = faults
        BY <2>2 DEF Choose
      <3>3. faults \in 0 .. MaxFaults  BY DEF Inv, TypeOK
      <3>4. QED  BY <3>1, <3>2, <3>3
    <2>3. QED  BY <1>4, <2>1, <2>2
  <1>6. TypeOK'  BY <1>3, <1>5 DEF Inv, TypeOK, book, app
  <1>7. ConnectionsAreHeld'  BY <1>3, <1>5, StillHeld DEF Inv
  <1>8. DownloadPeerStands'  BY <1>5, StandsIs
  <1>9. QED  BY <1>6, <1>7, <1>8 DEF Inv

\* The block that tells of the end of a connection.
LEMMA InvRunDisconnected ==
    ASSUME Inv, RunDisconnected
    PROVE  Inv'
  <1> DEFINE p     == Head(queue).peer
             error == Head(queue).error
             b     == BookAfter(p, error)
  <1>1. queue # <<>> /\ Head(queue).kind = "disconnected"
    BY DEF RunDisconnected, Runs
  <1>2. p \in Peers /\ error \in Errors
    BY <1>1, Dequeue, AboutAPeer DEF Inv, PeerKinds
  <1>3. /\ IF error = "protocol"
           THEN Replace(p)
           ELSE queue' = Tail(queue) /\ UNCHANGED <<status, desired>>
        /\ connectFailures' = FailuresAfter(p, error)
        /\ connected' = (connected /\ downloadPeer # p)
        /\ downloadPeer' = IF downloadPeer = p THEN Nobody ELSE downloadPeer
        /\ downloadOld' = (downloadOld /\ downloadPeer # p)
        /\ IF GivesUp THEN GiveUp(b) ELSE TryAgain(b)
        /\ UNCHANGED <<connectedPeers, faults, app>>
    BY DEF RunDisconnected
  <1>4. /\ downloadPeer' \in Peers \cup {Nobody} /\ downloadOld' \in BOOLEAN
        /\ connected' \in BOOLEAN /\ (connected' <=> downloadPeer' # Nobody)
    BY <1>2, <1>3 DEF Inv, TypeOK
  <1>5. Stands(downloadPeer', status, Tail(queue))
    <2>1. Stands(downloadPeer, status, queue)  BY StandsIs DEF Inv
    <2>2. CASE downloadPeer = p  BY <1>3, <2>2 DEF Stands
    <2>3. CASE downloadPeer # p
      <3>1. Pends(queue, downloadPeer) => Pends(Tail(queue), downloadPeer)
        BY <1>1, <2>3, Dequeue DEF Inv
      <3>2. downloadPeer' = downloadPeer  BY <1>3, <2>3
      <3>3. QED  BY <2>1, <3>1, <3>2 DEF Stands
    <2>4. QED  BY <2>2, <2>3
  <1>6. /\ status' \in [Peers -> {"Disconnected", "Connecting", "Connected"}]
        /\ \A x \in Peers : status'[x] # "Disconnected" => status[x] # "Disconnected"
        /\ queue' \in Seq(Blocks)
        /\ desired' \in BOOLEAN
        /\ Stands(downloadPeer', status', queue')
    <2>1. CASE error = "protocol"
      <3>1. Replace(p)  BY <1>3, <2>1
      <3>2. TypeOK  BY DEF Inv
      <3>3. QED  BY <1>1, <1>2, <1>4, <1>5, <3>1, <3>2, ReplaceKeeps
    <2>2. CASE error # "protocol"
      <3>1. queue' = Tail(queue) /\ status' = status /\ desired' = desired
        BY <1>3, <2>2
      <3>2. Tail(queue) \in Seq(Blocks)  BY <1>1, Dequeue DEF Inv
      <3>3. QED  BY <1>5, <3>1, <3>2 DEF Inv, TypeOK
    <2>3. QED  BY <2>1, <2>2
  <1>7. connectFailures' \in Nat
    BY <1>3 DEF Inv, TypeOK, FailuresAfter
  <1>8. BookOK(b)
    <2>1. BookOK(Book) /\ BookOK(Without(p)) /\ BookOK(Noted(p))
      BY <1>2, BookType DEF Inv
    <2>2. b \in {Book, Without(p), Noted(p)}  BY DEF BookAfter
    <2>3. QED  BY <2>1, <2>2
  <1> HIDE DEF b
  <1>9. BookTyped' /\ reconnects' \in Nat /\ told' \in BOOLEAN
    <2>1. CASE GiveUp(b)
      <3>1. BookOK(Forgotten(b))  BY <1>8, ForgottenType
      <3>2. BookTyped'  BY <2>1, <3>1, SetBookType DEF GiveUp
      <3>3. QED  BY <2>1, <3>2 DEF GiveUp, Inv, TypeOK
    <2>2. CASE TryAgain(b)
      <3>1. BookTyped'  BY <1>8, <2>2, SetBookType DEF TryAgain
      <3>2. reconnects' \in {reconnects, reconnects + 1} /\ told' = told
        BY <2>2 DEF TryAgain
      <3>3. QED  BY <3>1, <3>2 DEF Inv, TypeOK
    <2>3. QED  BY <1>3, <2>1, <2>2
  <1>10. TypeOK'
    BY <1>3, <1>4, <1>6, <1>7, <1>9 DEF Inv, TypeOK, BookTyped, app
  <1>11. ConnectionsAreHeld'  BY <1>3, <1>6, StillHeld DEF Inv
  <1>12. DownloadPeerStands'  BY <1>6, StandsIs
  <1>13. QED  BY <1>10, <1>11, <1>12 DEF Inv

-----------------------------------------------------------------------------
(* The theorems.                                                           *)

\* Every step keeps the invariant.
LEMMA InvNext == Inv /\ [Next]_vars => Inv'
  <1> SUFFICES ASSUME Inv, [Next]_vars  PROVE Inv'  OBVIOUS
  <1>1. CASE \E p \in Peers : DidConnect(p) \/ Drop(p) \/ Misbehave(p)
    BY <1>1, InvDidConnect, InvDrop, InvMisbehave
  <1>2. CASE Connect \/ Disconnect  BY <1>2, InvCalls
  <1>3. CASE DropDownloadPeer  BY <1>3, InvDropDownloadPeer
  <1>4. CASE UseMasternodeList  BY <1>4, InvUseMasternodeList
  <1>5. CASE Reconnect  BY <1>5, InvReconnect
  <1>6. CASE RelayedPeers  BY <1>6, InvRelayedPeers
  <1>7. CASE Run
    BY <1>7, InvRunConnect, InvRunDisconnect, InvRunRemoveDownload,
       InvRunMisbehaving, InvRunPeerConnected, InvRunDisconnected DEF Run
  <1>8. CASE UNCHANGED vars
    <2>1. TypeOK'  BY <1>8 DEF Inv, TypeOK, vars
    <2>2. QED  BY <1>8, <2>1, InvAdd DEF vars
  <1>9. QED  BY <1>1, <1>2, <1>3, <1>4, <1>5, <1>6, <1>7, <1>8 DEF Next

\* The invariant holds throughout.
LEMMA InvHolds == Spec => []Inv
  BY InvInit, InvNext, PTL DEF Spec

\* The variables have their types: the download peer is there exactly when the
\* manager is connected, what it knows of the peers is kept together.
THEOREM TypeCorrect == Spec => []TypeOK
  BY InvHolds, PTL DEF Inv

\* However connects, disconnects, faults and replacements interleave, every
\* connection there is is one the manager holds, and it holds no more than it
\* may (connect and its purge of dead connections).
THEOREM ConnectionsHeld == Spec => []ConnectionsAreHeld
  BY InvHolds, PTL DEF Inv

\* A download peer is connected, or its end is still to be handled: the
\* manager never waits for one that is gone (peerConnected:,
\* peer:disconnectedWithError:).
THEOREM DownloadPeerIsReal == Spec => []DownloadPeerStands
  BY InvHolds, PTL DEF Inv

=============================================================================
