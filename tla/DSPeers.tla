------------------------------ MODULE DSPeers ------------------------------
(***************************************************************************)
(* The connections of a chain's peer manager (DSPeerManager) and of its    *)
(* peers (DSPeer).  The application asks to connect or to disconnect; the  *)
(* manager keeps up to MaxConnectCount connections, chooses one of them as *)
(* the download peer, replaces those that end, gives up after              *)
(* MaxConnectFailures failures and tells the user of it.                   *)
(*                                                                         *)
(* Three kinds of thread interleave.  A peer's own thread moves its status *)
(* and hands what happened to the networking queue, a serial queue of      *)
(* blocks; the blocks run one at a time and change the manager's state;    *)
(* the main queue runs the attempts to reconnect.  What a block reads may  *)
(* have changed since it was dispatched.                                   *)
(*                                                                         *)
(* A peer is its address: two DSPeer objects with one address are equal    *)
(* (DSPeer isEqual:).  Peers that are discovered again are new objects, so *)
(* a block may be about an older object than the one now connected; such a *)
(* block is marked.  Heights, ping times and the random choice of peers to *)
(* try are arbitrary choices here.                                         *)
(***************************************************************************)
EXTENDS Naturals, FiniteSets, Sequences

CONSTANTS Peers,                 \* the addresses that can be discovered
          Nobody,                \* no download peer
          MaxConnectCount,       \* 5, or 1 with a trusted peer
          MaxConnectFailures,    \* 20
          MisbehavingThreshold,  \* 20 on the main net
          MaxFaults,             \* bound: connections that end, offences
          MaxCalls               \* bound: calls of the application

ASSUME PeersAssumption ==
    /\ IsFiniteSet(Peers)
    /\ Nobody \notin Peers
    /\ MaxConnectCount \in Nat \ {0}
    /\ MaxConnectFailures \in Nat \ {0}
    /\ MisbehavingThreshold \in Nat \ {0}
    /\ MaxFaults \in Nat
    /\ MaxCalls \in Nat

VARIABLES
    status,            \* of each peer: Disconnected, Connecting or Connected
    connectedPeers,    \* mutableConnectedPeers
    peers,             \* _peers; nil is the empty set
    used,              \* those of them whose object was connected last
    misbehavingPeers, misbehavingCount,
    connectFailures,
    downloadPeer,
    downloadOld,       \* it is an older object than the one last connected
    connected,         \* a download peer has been chosen
    desired,           \* desiredState = Connected
    masternodeList,    \* a masternode list is used to find peers
    queue,             \* the blocks of the networking queue
    reconnects,        \* blocks of the main queue that may reconnect
    told,              \* the user was told that connecting failed
    wanted,            \* what the application asked for last
    faults, calls      \* how much of the two bounds is used

book  == <<peers, used, misbehavingPeers, misbehavingCount>>
chosen == <<downloadPeer, downloadOld, connected>>
app   == <<masternodeList, wanted, calls>>
vars  == <<status, connectedPeers, peers, used, misbehavingPeers,
           misbehavingCount, connectFailures, downloadPeer, downloadOld,
           connected, desired, masternodeList, queue, reconnects, told,
           wanted, faults, calls>>

Errors == {"none", "network", "protocol"}
OwnKinds  == {"connect", "disconnect", "removeDownload"}
PeerKinds == {"peerConnected", "disconnected", "misbehaving"}

Block(kind, p, error) == [kind |-> kind, peer |-> p, error |-> error, old |-> FALSE]

\* What a block is about: nobody, or a peer, possibly an older object of it.
Blocks == [kind : OwnKinds, peer : {Nobody}, error : Errors, old : BOOLEAN]
          \cup [kind : PeerKinds, peer : Peers, error : Errors, old : BOOLEAN]

Ended(p, error) == Block("disconnected", p, error)

Live == {p \in Peers : status[p] # "Disconnected"}

\* Mutant: the status of the peers is not looked at.
AllTried == connectedPeers

ReallyConnected == {p \in connectedPeers : status[p] = "Connected"}

\* Mutant: a connection that is being made is taken for a dead one.
NotYetConnected == {p \in connectedPeers : status[p] # "Connected"}

\* Mutant: dead connections are kept.
NoneDead == {}

Dead == {p \in connectedPeers : status[p] = "Disconnected"}

\* The end of a connection of p waits to be handled.
EndPending(p) ==
    \E i \in 1 .. Len(queue) : queue[i].kind = "disconnected" /\ queue[i].peer = p

\* [DSPeerManager peers]: with too few of them, the saved ones and those of
\* the DNS seeds or of the masternode list are taken again.
FindAgain == Cardinality(peers) < MaxConnectCount
Known     == IF FindAgain THEN Peers ELSE peers
KnownUsed == IF FindAgain THEN {} ELSE used

\* The blocks about the peers in S, who got a new object.
Outdated(blocks, S) ==
    [i \in DOMAIN blocks |-> IF blocks[i].peer \in S
                             THEN [blocks[i] EXCEPT !.old = TRUE] ELSE blocks[i]]

Init ==
    /\ status = [p \in Peers |-> "Disconnected"]
    /\ connectedPeers = {} /\ peers = {} /\ used = {}
    /\ misbehavingPeers = {} /\ misbehavingCount = 0
    /\ connectFailures = 0
    /\ downloadPeer = Nobody /\ downloadOld = FALSE /\ connected = FALSE
    /\ desired = FALSE
    /\ masternodeList = FALSE
    /\ queue = <<>> /\ reconnects = 0
    /\ told = FALSE /\ wanted = FALSE
    /\ faults = 0 /\ calls = 0

-----------------------------------------------------------------------------
(* The threads of the peers.                                               *)

Fault == faults < MaxFaults /\ faults' = faults + 1

\* [DSPeer didConnect]
DidConnect(p) ==
    /\ status[p] = "Connecting"
    /\ status' = [status EXCEPT ![p] = "Connected"]
    /\ queue' = Append(queue, Block("peerConnected", p, "none"))
    /\ UNCHANGED <<connectedPeers, book, connectFailures, chosen,
                   desired, reconnects, told, faults, app>>

\* [DSPeer disconnectWithError:] on the peer's thread: the other side closes
\* the stream (no error), the connection fails or times out, or the peer
\* breaks the protocol.
Drop(p) ==
    /\ status[p] # "Disconnected"
    /\ Fault
    /\ \E error \in Errors : queue' = Append(queue, Ended(p, error))
    /\ status' = [status EXCEPT ![p] = "Disconnected"]
    /\ UNCHANGED <<connectedPeers, book, connectFailures, chosen,
                   desired, reconnects, told, app>>

\* A message that shows the peer to misbehave (a bad block, a spork, a
\* masternode list, too many orphans) is handed to a delegate.
Misbehave(p) ==
    /\ status[p] = "Connected"
    /\ Fault
    /\ queue' = Append(queue, Block("misbehaving", p, "none"))
    /\ UNCHANGED <<status, connectedPeers, book, connectFailures, chosen, desired, reconnects, told, app>>

-----------------------------------------------------------------------------
(* What the application and the sync ask for, on whatever thread.          *)

Call == calls < MaxCalls /\ calls' = calls + 1

\* [DSChainManager startSync], rescans: [DSPeerManager connect].
Connect ==
    /\ Call
    /\ desired' = TRUE /\ wanted' = TRUE /\ told' = FALSE
    /\ queue' = Append(queue, Block("connect", Nobody, "none"))
    /\ UNCHANGED <<status, connectedPeers, book, connectFailures, chosen, masternodeList, reconnects, faults>>

\* [DSChainManager stopSync]: [DSPeerManager disconnect].
Disconnect ==
    /\ Call
    /\ desired' = FALSE /\ wanted' = FALSE
    /\ queue' = Append(queue, Block("disconnect", Nobody, "none"))
    /\ UNCHANGED <<status, connectedPeers, book, connectFailures, chosen, masternodeList, reconnects,
                   told, faults>>

\* [DSPeerManager disconnectDownloadPeerForError:], when the sync times out
\* (syncTimeout) or the chain is scanned again (syncBlocksRescan).
DropDownloadPeer ==
    /\ Fault
    /\ connected
    /\ \E error \in {"none", "protocol"} :
          /\ IF downloadPeer \in Live /\ ~downloadOld
             THEN /\ status' = [status EXCEPT ![downloadPeer] = "Disconnected"]
                  /\ queue' = queue \o <<Ended(downloadPeer, error),
                                         Block("removeDownload", Nobody, error)>>
             ELSE /\ queue' = Append(queue, Block("removeDownload", Nobody, error))
                  /\ UNCHANGED status
          /\ wanted' = (wanted \/ error = "none")
    /\ UNCHANGED <<connectedPeers, book, connectFailures, chosen,
                   desired, masternodeList, reconnects, told,
                   calls>>

\* [DSPeerManager useMasternodeList:withConnectivityNonce:], called once, when
\* the first masternode list has come in and some peer is connected.
UseMasternodeList ==
    /\ Call
    /\ ~masternodeList /\ masternodeList' = TRUE
    /\ ReallyConnected # {}
    /\ peers' = IF peers = {} THEN Peers ELSE Peers \ misbehavingPeers
    /\ used' = {}
    /\ desired' = (connected \/ (desired /\ peers = {}))
    /\ queue' = queue
          \o (IF peers = {} THEN <<>> ELSE <<Block("disconnect", Nobody, "none")>>)
          \o (IF connected THEN <<Block("connect", Nobody, "none")>> ELSE <<>>)
    /\ UNCHANGED <<status, connectedPeers, misbehavingPeers, misbehavingCount,
                   connectFailures, chosen,
                   reconnects, told, wanted, faults>>

\* The block that disconnectedWithError: left on the main queue.
Reconnect ==
    /\ reconnects > 0
    /\ reconnects' = reconnects - 1
    /\ IF desired
       THEN queue' = Append(queue, Block("connect", Nobody, "none"))
       ELSE UNCHANGED queue
    /\ UNCHANGED <<status, connectedPeers, book, connectFailures, chosen, desired, told, faults, app>>

-----------------------------------------------------------------------------
(* The blocks of the networking queue.                                     *)

Runs(kind) == queue # <<>> /\ Head(queue).kind = kind

\* The peers of S in the order in which a set is enumerated: any.
Orders(S) ==
    {f \in [1 .. Cardinality(S) -> S] : \A i, j \in 1 .. Cardinality(S) : f[i] = f[j] => i = j}

\* [peer disconnect] for every connected peer.  One whose thread has not
\* started yet (runLoop is nil) is disconnected without a word.
DisconnectAll ==
    \E silent \in SUBSET {p \in connectedPeers : status[p] = "Connecting"} :
       LET heard == {p \in connectedPeers : status[p] # "Disconnected"} \ silent
       IN  \E order \in Orders(heard) :
              /\ status' = [p \in Peers |->
                               IF p \in connectedPeers THEN "Disconnected" ELSE status[p]]
              /\ queue' = Tail(queue)
                    \o [i \in 1 .. Cardinality(heard) |-> Ended(order[i], "none")]

\* The block of connect: dead connections make room, peers that are not
\* connected are picked until there are enough of them.
RunConnect ==
    /\ Runs("connect")
    /\ LET alive  == connectedPeers \ Dead
           others == Known \ alive
           room   == Cardinality(alive) < MaxConnectCount
           same   == IF room THEN KnownUsed ELSE used
       IN  \E more \in SUBSET others :
              /\ Cardinality(alive) + Cardinality(more) <= MaxConnectCount
              /\ more # others => Cardinality(alive) + Cardinality(more) = MaxConnectCount
              /\ connectFailures' = IF connectFailures >= MaxConnectFailures THEN 0 ELSE connectFailures
              /\ connectedPeers' = alive \cup more
              /\ status' = [p \in Peers |->
                               IF p \in more THEN "Connecting" ELSE status[p]]
              /\ peers' = IF room THEN Known ELSE peers
              /\ used' = same \cup more
              /\ queue' = Outdated(Tail(queue), more \ same)
              /\ downloadOld' = (downloadOld \/ downloadPeer \in more \ same)
              /\ told' = (told \/ connectedPeers' = {})
    /\ UNCHANGED <<misbehavingPeers, misbehavingCount, downloadPeer, connected,
                   desired, reconnects, faults, app>>

\* The block of disconnect.
RunDisconnect ==
    /\ Runs("disconnect")
    /\ DisconnectAll
    /\ connectFailures' = IF connectedPeers = {} THEN connectFailures ELSE MaxConnectFailures
    /\ UNCHANGED <<connectedPeers, book, chosen, desired,
                   reconnects, told, faults, app>>

Book == [known |-> peers, used |-> used, bad |-> misbehavingPeers,
         count |-> misbehavingCount]

SetBook(b) == /\ peers' = b.known /\ used' = b.used
              /\ misbehavingPeers' = b.bad /\ misbehavingCount' = b.count

\* [self.peers removeObject:p]
Without(p) == [Book EXCEPT !.known = Known \ {p}, !.used = KnownUsed \ {p}]

Forgotten(b) == [b EXCEPT !.known = {}, !.used = {}, !.bad = {}]

\* Mutant: one more misbehaviour than the threshold.
NotedLate(p) ==
    IF misbehavingCount + 1 > MisbehavingThreshold
    THEN [Forgotten(Book) EXCEPT !.count = 0]
    ELSE [Without(p) EXCEPT !.bad = @ \cup {p}, !.count = @ + 1]

\* p is noted as misbehaving; when that happened often enough everything that
\* is known of the peers is forgotten.
Noted(p) ==
    IF misbehavingCount + 1 >= MisbehavingThreshold
    THEN [Forgotten(Book) EXCEPT !.count = 0]
    ELSE [Without(p) EXCEPT !.bad = @ \cup {p}, !.count = @ + 1]

\* The block of disconnectDownloadPeerForError:; a rescan connects again.
RunRemoveDownload ==
    /\ Runs("removeDownload")
    /\ SetBook(IF downloadPeer = Nobody THEN Book ELSE Without(downloadPeer))
    /\ IF Head(queue).error = "none"
       THEN /\ desired' = TRUE
            /\ queue' = Append(Tail(queue), Block("connect", Nobody, "none"))
       ELSE queue' = Tail(queue) /\ UNCHANGED desired
    /\ UNCHANGED <<status, connectedPeers, connectFailures, chosen,
                   reconnects, told, faults, app>>

\* The end of [DSPeerManager peerMisbehaving:errorMessage:]: p's connection is
\* ended unless the object reported is an old one, and a connect follows,
\* whatever state is desired.
Replace(p) ==
    LET ends == ~Head(queue).old /\ p \in Live
    IN  /\ status' = IF ends THEN [status EXCEPT ![p] = "Disconnected"] ELSE status
        /\ queue' = Tail(queue) \o (IF ends THEN <<Ended(p, "protocol")>> ELSE <<>>)
                                \o <<Block("connect", Nobody, "none")>>
        /\ desired' = TRUE

\* A delegate has found that the peer misbehaves.
RunMisbehaving ==
    /\ Runs("misbehaving")
    /\ LET p == Head(queue).peer
       IN  SetBook(Noted(p)) /\ Replace(p)
    /\ UNCHANGED <<connectedPeers, connectFailures, chosen,
                   reconnects, told, faults, app>>

\* [DSPeerManager peer:relayedPeers:]: a peer tells addresses, here all there are.
RelayedPeers ==
    /\ ~masternodeList
    /\ ReallyConnected # {}
    /\ peers' = Peers \ misbehavingPeers
    /\ used' = KnownUsed \ misbehavingPeers
    /\ UNCHANGED <<status, connectedPeers, misbehavingPeers, misbehavingCount,
                   connectFailures, chosen, desired,
                   queue, reconnects, told, faults, app>>

-----------------------------------------------------------------------------
(* [DSPeerManager peerConnected:], which didConnect left on the queue.     *)

\* The object that connected is no longer connected: nothing happens.
Gone(p) ==
    /\ status[p] # "Connected" \/ Head(queue).old
    /\ queue' = Tail(queue)
    /\ UNCHANGED <<status, connectFailures, chosen, faults>>

\* It lacks services or is behind.
Unsuitable(p) ==
    /\ status[p] = "Connected" /\ ~Head(queue).old
    /\ Fault
    /\ connectFailures' = 0
    /\ status' = [status EXCEPT ![p] = "Disconnected"]
    /\ queue' = Append(Tail(queue), Ended(p, "protocol"))
    /\ UNCHANGED <<chosen>>

\* There is a download peer, and this one does not know more blocks.
AlreadyConnected(p) ==
    /\ status[p] = "Connected" /\ ~Head(queue).old
    /\ connected
    /\ connectFailures' = 0
    /\ queue' = Tail(queue)
    /\ UNCHANGED <<status, chosen, faults>>

\* Mutant: a choice waits for more peers than there may be.
TooFewUpToMax(p) ==
    /\ status[p] = "Connected" /\ ~Head(queue).old
    /\ Cardinality(ReallyConnected) <= MaxConnectCount
    /\ connectFailures' = 0
    /\ queue' = Tail(queue)
    /\ UNCHANGED <<status, chosen, faults>>

\* A choice waits until MaxConnectCount peers are connected.
TooFew(p) ==
    /\ status[p] = "Connected" /\ ~Head(queue).old
    /\ Cardinality(ReallyConnected) < MaxConnectCount
    /\ connectFailures' = 0
    /\ queue' = Tail(queue)
    /\ UNCHANGED <<status, chosen, faults>>

\* The best peer becomes the download peer; the one before it, which may be
\* the same, is disconnected first.
Choose(p) ==
    /\ status[p] = "Connected" /\ ~Head(queue).old
    /\ Cardinality(ReallyConnected) >= MaxConnectCount
    /\ connectFailures' = 0
    /\ \E best \in ReallyConnected :
          LET ends == downloadPeer \in Live /\ ~downloadOld
          IN  /\ status' = IF ends THEN [status EXCEPT ![downloadPeer] = "Disconnected"]
                           ELSE status
              /\ queue' = Tail(queue)
                          \o (IF ends THEN <<Ended(downloadPeer, "none")>> ELSE <<>>)
              /\ downloadPeer' = best
    /\ downloadOld' = FALSE /\ connected' = TRUE
    /\ UNCHANGED faults

RunPeerConnected ==
    /\ Runs("peerConnected")
    /\ LET p == Head(queue).peer
       IN  \/ Gone(p)
           \/ Unsuitable(p)
           \/ AlreadyConnected(p)
           \/ TooFew(p)
           \/ Choose(p)
    /\ UNCHANGED <<connectedPeers, book, desired, reconnects, told, app>>

-----------------------------------------------------------------------------
(* [DSPeerManager peer:disconnectedWithError:].                            *)

\* The book when the connection of p has ended with this error.
BookAfter(p, error) ==
    CASE error = "protocol" -> Noted(p)
      [] error = "network"  -> Without(p)
      [] OTHER              -> Book

\* The failures in a row, not more than the maximum when the download peer goes.
FailuresAfter(p, error) ==
    LET failures == IF error = "network" THEN connectFailures + 1 ELSE connectFailures
    IN  IF downloadPeer = p /\ failures > MaxConnectFailures
        THEN MaxConnectFailures ELSE failures

\* Mutant: one more failure than the maximum.
GivesUpLate == ~connected' /\ connectFailures' > MaxConnectFailures

\* Too many failures and no download peer.
GivesUp == ~connected' /\ connectFailures' = MaxConnectFailures

\* After too many failures the user is told, the peers are
\* found anew at the next attempt.
GiveUp(b) ==
    /\ SetBook(Forgotten(b))
    /\ told' = TRUE
    /\ UNCHANGED reconnects

\* Another attempt is left to the main queue, unless there were too many.
TryAgain(b) ==
    /\ SetBook(b)
    /\ reconnects' = IF connectFailures' < MaxConnectFailures
                     THEN reconnects + 1 ELSE reconnects
    /\ UNCHANGED told

RunDisconnected ==
    /\ Runs("disconnected")
    /\ LET p     == Head(queue).peer
           error == Head(queue).error
           b     == BookAfter(p, error)
       IN  /\ IF error = "protocol"
              THEN Replace(p)
              ELSE queue' = Tail(queue) /\ UNCHANGED <<status, desired>>
           /\ connectFailures' = FailuresAfter(p, error)
           /\ connected' = (connected /\ downloadPeer # p)
           /\ downloadPeer' = IF downloadPeer = p THEN Nobody ELSE downloadPeer
           /\ downloadOld' = (downloadOld /\ downloadPeer # p)
           /\ IF GivesUp THEN GiveUp(b) ELSE TryAgain(b)
    /\ UNCHANGED <<connectedPeers, faults, app>>

-----------------------------------------------------------------------------

Run == \/ RunConnect \/ RunDisconnect \/ RunRemoveDownload
       \/ RunMisbehaving \/ RunPeerConnected \/ RunDisconnected

Next == \/ \E p \in Peers : DidConnect(p) \/ Drop(p) \/ Misbehave(p)
        \/ Connect \/ Disconnect \/ DropDownloadPeer
        \/ UseMasternodeList \/ Reconnect \/ RelayedPeers
        \/ Run

\* The queues run what they hold, and a connection is made or fails.
Fairness == /\ WF_vars(Run)
            /\ WF_vars(Reconnect)
            /\ \A p \in Peers : WF_vars(DidConnect(p))

Spec == Init /\ [][Next]_vars

FairSpec == Spec /\ Fairness

-----------------------------------------------------------------------------
(* Properties.                                                             *)

TypeOK ==
    /\ status \in [Peers -> {"Disconnected", "Connecting", "Connected"}]
    /\ connectedPeers \subseteq Peers /\ peers \subseteq Peers /\ used \subseteq peers
    /\ misbehavingPeers \subseteq Peers /\ misbehavingCount \in 0 .. MisbehavingThreshold - 1
    /\ connectFailures \in Nat
    /\ downloadPeer \in Peers \cup {Nobody} /\ downloadOld \in BOOLEAN
    /\ connected \in BOOLEAN /\ (connected <=> downloadPeer # Nobody)
    /\ desired \in BOOLEAN /\ masternodeList \in BOOLEAN
    /\ told \in BOOLEAN /\ wanted \in BOOLEAN
    /\ queue \in Seq(Blocks) /\ reconnects \in Nat
    /\ faults \in 0 .. MaxFaults /\ calls \in 0 .. MaxCalls

\* A connection that is being made or stands is one the manager holds, and it
\* holds no more of them than it may (connect and the purge in it).
ConnectionsAreHeld ==
    Live \subseteq connectedPeers /\ Cardinality(connectedPeers) <= MaxConnectCount

\* The download peer is connected, or the manager has yet to hear that it is
\* not (peerConnected: against disconnectWithError: and the reconnection of
\* the same peer in between).
DownloadPeerStands ==
    downloadPeer # Nobody =>
        status[downloadPeer] = "Connected" \/ EndPending(downloadPeer)

Quiet == queue = <<>> /\ reconnects = 0

\* Once every peer that the manager holds is connected and nothing waits to be
\* handled, one of them is the download peer ("we didn't connect to all
\* connected peers yet", peerConnected:).
ChosenOnceAllConnected ==
    Quiet /\ connectedPeers # {} /\ ReallyConnected = connectedPeers => connected

\* When failures keep the manager from trying again and it still wants
\* one, the user has been told: "notify user of network
\* problems after this many connect failures in a row".
ToldAtLimit ==
    Quiet /\ desired /\ ~connected /\ connectFailures >= MaxConnectFailures
        => told

\* Who wants a connection, has none and was not told that it failed does not
\* wait in vain: the failures are below the limit and a connection is being made
\* (the reconnection that disconnectedWithError: leaves, against the ends, purges
\* and limits before it).
NotStranded ==
    /\ ToldAtLimit
    /\ Quiet /\ desired /\ ~connected /\ ~told
          => \E p \in Peers : status[p] = "Connecting"

\* After the application has asked to disconnect, and all that was under way
\* has been handled, nothing is connected ("prevent futher automatic reconnect
\* attempts", disconnect).
StaysDisconnected == Quiet /\ ~wanted => Live = {}

\* Who asks to connect gets a download peer or is told that it failed, unless
\* that is no longer asked for.
Settles == desired ~> connected \/ told \/ ~desired

=============================================================================
