------------------------ MODULE DSMasternodesProofs ------------------------
(***************************************************************************)
(* Proofs about DSMasternodes.  What the handlers do is written as         *)
(* functions of the state, so that a lemma says of each what it leaves: a  *)
(* state that is sound again, one in which something will ask for the      *)
(* lists that are still queued, and one in which the sync has something to *)
(* wait for.                                                               *)
(***************************************************************************)
EXTENDS DSMasternodes, FiniteSetTheorems, WellFoundedInduction, TLAPS

\* What every handler may rely on.  The last conjunct is what makes Driven
\* inductive: a dequeue that finds lists in retrieval leaves it to the observer.
Sound(m) ==
    /\ m \in Managers
    /\ m.download => m.connected
    /\ m.wire # {} => m.download
    /\ Cardinality(m.late) <= 1
    /\ m.inRetrieval # {} => m.observer # None \/ m.neglected

\* Driven, of any state.
Watches(m) ==
    m.queue # {} => m.observer # None \/ "dequeue" \in m.pending \/ m.neglected

IInv ==
    /\ Sound(mn) /\ Watches(mn)
    /\ chain \in Chains /\ troubles \in 0 .. MaxTroubles

-----------------------------------------------------------------------------
(* Least and highest elements.                                             *)

\* A set of natural numbers has a least one.
LEMMA LeastNatural ==
  ASSUME NEW S \in SUBSET Nat, S # {}
  PROVE  \E a \in S : \A x \in S : a <= x
<1> DEFINE R == {ss \in Nat \X Nat : ss[1] < ss[2]}
<1>1. IsWellFoundedOn(R, Nat)
  BY NatLessThanWellFounded, Zenon DEF OpToRel
<1>2. \E a \in S : \A x \in S : ~(<<x, a>> \in R)
  <2> HIDE DEF R
  <2> QED BY <1>1, WFMin, Zenon
<1>3. ASSUME NEW a \in S, NEW x \in S, ~(<<x, a>> \in R)
      PROVE  a <= x
  <2>1. a \in Nat /\ x \in Nat
    OBVIOUS
  <2>2. ~(x < a)
    BY <2>1, <1>3
  <2> QED
    BY <2>1, <2>2
<1> HIDE DEF R
<1> QED
  BY <1>2, <1>3, Zenon

\* The block that is chosen as the highest is one of them, and none is higher.
LEMMA HighestIsOne ==
  ASSUME NEW S \in SUBSET Blocks, S # {}
  PROVE  /\ Highest(S) \in S /\ Highest(S) \in Blocks
         /\ \A x \in S : x <= Highest(S)
<1> DEFINE D == {MaxHeight - x : x \in S}
<1>1. MaxHeight \in Nat
  BY MasternodesAssumption
<1>2. D \in SUBSET Nat /\ D # {}
  <2>1. \A x \in S : MaxHeight - x \in Nat
    BY <1>1 DEF Blocks
  <2>2. PICK x \in S : TRUE
    OBVIOUS
  <2>3. MaxHeight - x \in D
    BY <2>2
  <2>4. D \subseteq Nat
    BY <2>1
  <2> QED
    BY <2>3, <2>4
<1>3. PICK d \in D : \A y \in D : d <= y
  <2> HIDE DEF D
  <2> QED BY <1>2, LeastNatural
<1>4. PICK b \in S : d = MaxHeight - b
  OBVIOUS
<1>5. ASSUME NEW x \in S
      PROVE  x <= b
  <2>1. MaxHeight - b <= MaxHeight - x
    BY <1>3, <1>4
  <2> QED
    BY <2>1, <1>1 DEF Blocks
<1> QED
  BY <1>5 DEF Highest

\* The answer that comes first is one of those under way.
LEMMA FirstIsOne ==
  ASSUME NEW W \in SUBSET Answers, W # {}
  PROVE  First(W) \in W
<1> DEFINE D == {a.block : a \in W}
<1>1. D \in SUBSET Nat /\ D # {}
  BY MasternodesAssumption DEF Answers, Blocks
<1>2. PICK d \in D : \A y \in D : d <= y
  <2> HIDE DEF D
  <2> QED BY <1>1, LeastNatural
<1>3. PICK a \in W : d = a.block
  OBVIOUS
<1>4. \A x \in W : a.block <= x.block
  BY <1>2, <1>3
<1> QED
  BY <1>4 DEF First

\* Sets of blocks are finite.
LEMMA BlocksFinite ==
  ASSUME NEW S \in SUBSET Blocks
  PROVE  Cardinality(S) \in Nat
<1>1. IsFiniteSet(Blocks)
  BY FS_Interval, MasternodesAssumption DEF Blocks
<1> QED
  BY <1>1, FS_Subset, FS_CardinalityType

\* At most one answer is late.
LEMMA OneLate ==
  /\ Cardinality({}) <= 1
  /\ \A a : Cardinality({a}) <= 1
BY FS_EmptySet, FS_Singleton

-----------------------------------------------------------------------------
(* The connection.                                                         *)

\* A lost download peer leaves what is wanted and what drives it.
LEMMA DisconnectedSound ==
  ASSUME NEW m, Sound(m)
  PROVE  /\ Sound(Disconnected(m))
         /\ ~Disconnected(m).download
         /\ Disconnected(m).queue = m.queue
         /\ Disconnected(m).inRetrieval = m.inRetrieval
         /\ Disconnected(m).observer = m.observer
         /\ Disconnected(m).pending = m.pending
         /\ Disconnected(m).neglected = m.neglected
<1> DEFINE d == Disconnected(m)
<1>1. m \in Managers
  BY DEF Sound
<1>2. d.late \in SUBSET Answers /\ Cardinality(d.late) <= 1
  <2>1. CASE m.wire = {}
    BY <2>1, <1>1 DEF Disconnected, Sound, Managers
  <2>2. CASE m.wire # {}
    <3>1. First(m.wire) \in Answers
      BY <2>2, <1>1, FirstIsOne DEF Managers
    <3>2. d.late = {First(m.wire)}
      BY <2>2, <1>1 DEF Disconnected, Managers
    <3> QED
      BY <3>1, <3>2, OneLate
  <2> QED
    BY <2>1, <2>2
<1>3. d.busy \in [answer : Answers, sent : BOOLEAN] \cup {None}
  <2>1. d.busy = IF m.busy = None THEN None ELSE [m.busy EXCEPT !.sent = FALSE]
    BY <1>1 DEF Disconnected, Managers
  <2>2. m.busy \in [answer : Answers, sent : BOOLEAN] \cup {None}
    BY <1>1 DEF Managers
  <2> QED
    BY <2>1, <2>2
<1>4. d = [m EXCEPT !.download = FALSE, !.wire = {}, !.late = d.late, !.busy = d.busy]
  BY <1>1 DEF Disconnected, Managers
<1>5. d \in Managers
  <2> HIDE DEF d
  <2> QED BY <1>1, <1>2, <1>3, <1>4 DEF Managers
<1>6. /\ ~d.download /\ d.wire = {}
      /\ d.queue = m.queue /\ d.inRetrieval = m.inRetrieval
      /\ d.observer = m.observer /\ d.pending = m.pending
      /\ d.neglected = m.neglected
  <2> HIDE DEF d
  <2> QED BY <1>1, <1>4 DEF Managers
<1> QED
  BY <1>2, <1>5, <1>6 DEF Sound

\* When all peers are disconnected.
LEMMA AllDisconnectedSound ==
  ASSUME NEW m, Sound(m)
  PROVE  /\ Sound(AllDisconnected(m))
         /\ AllDisconnected(m).queue = m.queue
         /\ AllDisconnected(m).inRetrieval = m.inRetrieval
         /\ AllDisconnected(m).observer = m.observer
         /\ AllDisconnected(m).pending = m.pending
         /\ AllDisconnected(m).neglected = m.neglected
<1> DEFINE d == Disconnected(m)
           a == [d EXCEPT !.connected = FALSE, !.wanted = FALSE]
<1>1. /\ Sound(d) /\ ~d.download
      /\ d.queue = m.queue /\ d.inRetrieval = m.inRetrieval
      /\ d.observer = m.observer /\ d.pending = m.pending
      /\ d.neglected = m.neglected
  BY DisconnectedSound
<1>2. AllDisconnected(m) = a
  BY DEF AllDisconnected
<1> HIDE DEF d
<1>3. d \in Managers
  BY <1>1 DEF Sound
<1>4. /\ a \in Managers
      /\ ~a.download /\ a.wire = d.wire /\ a.late = d.late
      /\ a.queue = d.queue /\ a.inRetrieval = d.inRetrieval
      /\ a.observer = d.observer /\ a.pending = d.pending
      /\ a.neglected = d.neglected
  BY <1>3, <1>1 DEF Managers
<1> HIDE DEF a
<1>5. Sound(a)
  BY <1>1, <1>4 DEF Sound
<1> QED
  BY <1>1, <1>2, <1>4, <1>5

\* The chain manager, told that the lists are there, leaves the queue alone.
LEMMA FinishedSound ==
  ASSUME NEW m, Sound(m)
  PROVE  Sound(Finished(m)) /\ Finished(m).queue = m.queue
<1>1. m \in Managers
  BY DEF Sound
<1> DEFINE next == IF m.phase = "InitialTerminalBlocks" THEN "ChainSync" ELSE m.phase
<1>2. next \in Phases
  BY <1>1 DEF Managers, Phases
<1>3. CASE ~m.connected
  <2> DEFINE f == [m EXCEPT !.phase = next, !.wanted = TRUE]
  <2>1. Finished(m) = f
    BY <1>3 DEF Finished
  <2> HIDE DEF next
  <2>2. Sound(f) /\ f.queue = m.queue
    BY <1>1, <1>2 DEF Sound, Managers
  <2> QED
    BY <2>1, <2>2
<1>4. CASE m.connected /\ ~m.usesList /\ m.current # None
  <2> DEFINE a == AllDisconnected(m)
             f == [a EXCEPT !.usesList = TRUE, !.wanted = m.download]
  <2>1. Finished(m) = f
    BY <1>4 DEF Finished, MasternodeListUsed
  <2>2. Sound(a) /\ a.queue = m.queue
    BY AllDisconnectedSound
  <2> HIDE DEF a
  <2>3. a \in Managers /\ m.download \in BOOLEAN
    BY <1>1, <2>2 DEF Sound, Managers
  <2>4. /\ f \in Managers /\ f.queue = a.queue
        /\ f.download = a.download /\ f.connected = a.connected
        /\ f.wire = a.wire /\ f.late = a.late
        /\ f.inRetrieval = a.inRetrieval /\ f.observer = a.observer
        /\ f.neglected = a.neglected
    BY <2>3 DEF Managers
  <2> HIDE DEF f
  <2>5. Sound(f)
    BY <2>2, <2>4 DEF Sound
  <2> QED
    BY <2>1, <2>2, <2>4, <2>5
<1>5. CASE m.connected /\ ~(~m.usesList /\ m.current # None)
  <2> DEFINE f == [m EXCEPT !.phase = next, !.pending = @ \cup {"start"}]
  <2>1. Finished(m) = f \/ Finished(m) = m
    BY <1>5 DEF Finished
  <2> HIDE DEF next
  <2>2. Sound(f) /\ f.queue = m.queue
    BY <1>1, <1>2 DEF Sound, Managers
  <2> QED
    BY <2>1, <2>2
<1> QED
  BY <1>3, <1>4, <1>5

-----------------------------------------------------------------------------
(* Asking for lists.                                                       *)

\* A kept list leaves what drives the queue alone.
LEMMA KeptSound ==
  ASSUME NEW m, Sound(m), NEW S \in SUBSET Blocks
  PROVE  /\ Sound(Kept(m, S))
         /\ Kept(m, S).queue = m.queue
         /\ Kept(m, S).observer = m.observer
         /\ Kept(m, S).download = m.download
         /\ Kept(m, S).inRetrieval = m.inRetrieval
<1>1. m \in Managers
  BY DEF Sound
<1> DEFINE cur == IF m.lastQueried \in S THEN m.lastQueried ELSE m.current
           sav == m.saving \/ ~(S \subseteq m.known)
           rem == m.removing \/ m.lastQueried \in S
           k   == [m EXCEPT !.current = cur, !.known = @ \cup S,
                            !.saving = sav, !.removing = rem]
<1>2. cur \in Blocks \cup {None} /\ sav \in BOOLEAN /\ rem \in BOOLEAN
  BY <1>1 DEF Managers
<1>3. Kept(m, S) = k
  BY <1>1 DEF Kept, Managers
<1> HIDE DEF cur, sav, rem
<1>4. k \in Managers
  BY <1>1, <1>2 DEF Managers
<1>5. /\ k.queue = m.queue /\ k.observer = m.observer
      /\ k.download = m.download /\ k.connected = m.connected
      /\ k.wire = m.wire /\ k.late = m.late
      /\ k.inRetrieval = m.inRetrieval /\ k.neglected = m.neglected
  BY <1>1 DEF Managers
<1> HIDE DEF k
<1>6. Sound(k)
  BY <1>4, <1>5 DEF Sound
<1> QED
  BY <1>3, <1>5, <1>6

\* An observer that was just started is one.
LEMMA ObservedSound ==
  ASSUME NEW m, m \in Managers,
         m.download => m.connected, m.wire # {} => m.download,
         Cardinality(m.late) <= 1
  PROVE  /\ Sound(Observed(m)) /\ Watches(Observed(m))
         /\ Observed(m).queue = m.queue
<1> DEFINE ob == [waiting |-> m.inRetrieval, count |-> Cardinality(m.known)]
           o  == [m EXCEPT !.observer = ob]
<1>1. ob \in [waiting : SUBSET Blocks, count : Nat]
  BY BlocksFinite DEF Managers
<1>2. ob # None
  BY <1>1, MasternodesAssumption
<1>3. Observed(m) = o
  BY DEF Observed
<1> HIDE DEF ob
<1>4. /\ o \in Managers /\ o.observer = ob
      /\ o.download = m.download /\ o.connected = m.connected
      /\ o.wire = m.wire /\ o.late = m.late /\ o.queue = m.queue
  BY <1>1 DEF Managers
<1> QED
  BY <1>2, <1>3, <1>4 DEF Sound, Watches

\* A list is asked for as a difference from a block.
LEMMA BaseIsBlock ==
  ASSUME NEW m \in Managers, NEW b \in Blocks
  PROVE  Base(m, b) \in Blocks
<1>1. 0 \in Blocks
  BY MasternodesAssumption DEF Blocks
<1>2. {0} \cup {x \in m.known \cup m.queue : x < b} \in SUBSET Blocks
  BY <1>1 DEF Managers
<1> QED
  BY <1>2, HighestIsOne DEF Base

\* Asking starts an observer.
LEMMA RequestedSound ==
  ASSUME NEW m, Sound(m), m.download, NEW c \in Chains
  PROVE  Sound(Requested(m, c)) /\ Watches(Requested(m, c))
<1> DEFINE files == m.queue \cap c.has \cap FileLists
           asks  == (m.queue \cap c.has) \ FileLists
           k     == Kept(m, files)
           w     == {[base |-> Base(m, b), block |-> b] : b \in asks}
           sent  == [k EXCEPT !.queue = @ \cap c.has, !.inRetrieval = asks,
                              !.wire = w, !.neglected = FALSE]
<1>1. m \in Managers
  BY DEF Sound
<1>2. files \in SUBSET Blocks /\ asks \in SUBSET Blocks
  BY <1>1 DEF Managers
<1>3. w \in SUBSET Answers
  BY <1>1, <1>2, BaseIsBlock DEF Answers
<1>4. Requested(m, c) = Observed(sent)
  BY DEF Requested
<1>5. Sound(k) /\ k.download = m.download
  BY <1>2, KeptSound
<1> HIDE DEF k, w, asks
<1>k. k \in Managers
  BY <1>5 DEF Sound
<1>s. sent \in Managers
  <2>1. k.queue \cap c.has \in SUBSET Blocks
    BY <1>k DEF Managers
  <2> QED
    BY <2>1, <1>2, <1>3, <1>k DEF Managers
<1>6. /\ sent \in Managers
      /\ sent.download = k.download /\ sent.connected = k.connected
      /\ sent.late = k.late
  BY <1>s, <1>k DEF Managers
<1>7. sent.download => sent.connected
  BY <1>5, <1>6 DEF Sound
<1>8. sent.download /\ Cardinality(sent.late) <= 1
  BY <1>5, <1>6 DEF Sound
<1> HIDE DEF sent
<1> QED
  BY <1>4, <1>6, <1>7, <1>8, ObservedSound

\* After a dequeue something will ask for what is queued, whatever was before:
\* a retry, the observer that goes with the lists in retrieval, or nothing as
\* the manager is offline.
LEMMA DequeuedSound ==
  ASSUME NEW m, Sound(m), NEW c \in Chains
  PROVE  Sound(Dequeued(m, c)) /\ Watches(Dequeued(m, c))
<1>1. m \in Managers
  BY DEF Sound
<1>2. CASE m.queue = {}
  <2>1. Dequeued(m, c) = Finished(m)
    BY <1>2 DEF Dequeued
  <2> QED
    BY <2>1, <1>2, FinishedSound DEF Watches
<1>3. CASE m.queue # {} /\ m.inRetrieval # {}
  BY <1>3 DEF Dequeued, Sound, Watches
<1>4. CASE m.queue # {} /\ m.inRetrieval = {} /\ m.download
  <2>1. Dequeued(m, c) = Requested(m, c)
    BY <1>4 DEF Dequeued
  <2> QED
    BY <2>1, <1>4, RequestedSound
<1>5. CASE m.queue # {} /\ m.inRetrieval = {} /\ ~m.download
  <2> DEFINE r == [m EXCEPT !.pending = @ \cup {"dequeue"}]
             n == [m EXCEPT !.neglected = TRUE]
  <2>1. Dequeued(m, c) \in {r, n}
    BY <1>5 DEF Dequeued
  <2>2. Sound(r) /\ "dequeue" \in r.pending
    BY <1>1 DEF Sound, Managers
  <2>3. Sound(n) /\ n.neglected
    BY <1>1 DEF Sound, Managers
  <2> QED
    BY <2>1, <2>2, <2>3 DEF Watches
<1> QED
  BY <1>2, <1>3, <1>4, <1>5

\* A list that is wanted is queued, and the queue goes on being driven.
LEMMA GotRecentSound ==
  ASSUME NEW m, Sound(m), Watches(m), NEW c \in Chains, NEW ago \in Nat
  PROVE  Sound(GotRecent(m, c, ago)) /\ Watches(GotRecent(m, c, ago))
<1>1. m \in Managers
  BY DEF Sound
<1> DEFINE b     == IF c.tip > ago THEN c.tip - ago ELSE 0
           added == [m EXCEPT !.lastQueried = b,
                              !.queried = @ \cup {b},
                              !.queue = @ \cup {b}]
<1>2. b \in Blocks
  <2>1. c.tip \in 0 .. MaxHeight /\ MaxHeight \in Nat
    BY MasternodesAssumption DEF Chains, Blocks
  <2> QED
    BY <2>1 DEF Blocks
<1>3. GotRecent(m, c, ago) \in
         {m, added, IF m.queue = {} THEN Dequeued(added, c) ELSE added}
  BY DEF GotRecent
<1>4. GotRecent(m, c, ago) = m
      \/ GotRecent(m, c, ago) = IF m.queue = {} THEN Dequeued(added, c) ELSE added
  BY DEF GotRecent
<1> HIDE DEF b
<1>5. added \in Managers
  BY <1>1, <1>2 DEF Managers
<1>6. /\ added.download = m.download /\ added.connected = m.connected
      /\ added.wire = m.wire /\ added.late = m.late
      /\ added.inRetrieval = m.inRetrieval /\ added.neglected = m.neglected
      /\ added.observer = m.observer /\ added.pending = m.pending
  BY <1>1 DEF Managers
<1> HIDE DEF added
<1>7. Sound(added)
  BY <1>5, <1>6 DEF Sound
<1>8. CASE m.queue = {}
  BY <1>4, <1>7, <1>8, DequeuedSound
<1>9. CASE m.queue # {}
  <2>1. Watches(added)
    BY <1>6, <1>9 DEF Watches
  <2> QED
    BY <1>4, <1>7, <1>9, <2>1
<1> QED
  BY <1>8, <1>9

\* Both calls of it.
LEMMA CaredSound ==
  ASSUME NEW m, Sound(m), Watches(m), NEW c \in Chains
  PROVE  Sound(Cared(m, c)) /\ Watches(Cared(m, c))
<1>1. Recent \in Nat /\ 0 \in Nat
  BY MasternodesAssumption
<1>2. Sound(GotRecent(m, c, Recent)) /\ Watches(GotRecent(m, c, Recent))
  BY <1>1, GotRecentSound
<1> QED
  BY <1>1, <1>2, GotRecentSound DEF Cared

\* A new sync phase changes nothing of it.
LEMMA PhaseSound ==
  ASSUME NEW m, Sound(m), Watches(m), NEW p \in Phases
  PROVE  Sound([m EXCEPT !.phase = p]) /\ Watches([m EXCEPT !.phase = p])
<1> DEFINE f == [m EXCEPT !.phase = p]
<1>1. m \in Managers
  BY DEF Sound
<1>2. f \in Managers
  BY <1>1 DEF Managers
<1>3. /\ f.download = m.download /\ f.connected = m.connected
      /\ f.wire = m.wire /\ f.late = m.late /\ f.queue = m.queue
      /\ f.inRetrieval = m.inRetrieval /\ f.neglected = m.neglected
      /\ f.observer = m.observer /\ f.pending = m.pending
  BY <1>1 DEF Managers
<1> HIDE DEF f
<1>4. Sound(f) /\ Watches(f)
  BY <1>2, <1>3 DEF Sound, Watches
<1> QED
  BY <1>4 DEF f

\* The end of the sync.
LEMMA SyncFinishedSound ==
  ASSUME NEW m, Sound(m), Watches(m), NEW c \in Chains
  PROVE  Sound(SyncFinished(m, c)) /\ Watches(SyncFinished(m, c))
<1>1. "Synced" \in Phases
  BY DEF Phases
<1> QED
  BY <1>1, PhaseSound, CaredSound DEF SyncFinished

\* The start of the sync.
LEMMA StartedSound ==
  ASSUME NEW m, Sound(m), Watches(m), NEW c \in Chains
  PROVE  Sound(Started(m, c)) /\ Watches(Started(m, c))
<1>1. "InitialTerminalBlocks" \in Phases /\ "ChainSync" \in Phases
  BY DEF Phases
<1> DEFINE h == [m EXCEPT !.phase = "InitialTerminalBlocks"]
           s == [m EXCEPT !.phase = "ChainSync"]
<1>2. Sound(h) /\ Watches(h) /\ Sound(s) /\ Watches(s)
  BY <1>1, PhaseSound
<1>3. Started(m, c) \in {h, Cared(h, c), s}
  BY DEF Started
<1> HIDE DEF h, s
<1>4. Sound(Cared(h, c)) /\ Watches(Cared(h, c))
  BY <1>2, CaredSound
<1> QED
  BY <1>2, <1>3, <1>4

\* What is wiped needs nobody to ask for it.
LEMMA WipedSound ==
  ASSUME NEW m, Sound(m)
  PROVE  /\ Sound(Wiped(m)) /\ Wiped(m).queue = {}
<1> DEFINE w == [m EXCEPT !.known = {}, !.current = None, !.queue = {},
                          !.inRetrieval = {}]
<1>1. m \in Managers
  BY DEF Sound
<1>2. w \in Managers
  BY <1>1 DEF Managers
<1>3. /\ w.download = m.download /\ w.connected = m.connected
      /\ w.wire = m.wire /\ w.late = m.late
      /\ w.inRetrieval = {} /\ w.queue = {}
  BY <1>1 DEF Managers
<1> HIDE DEF w
<1>4. Sound(w)
  BY <1>2, <1>3 DEF Sound
<1> QED
  BY <1>3, <1>4 DEF Wiped, w

-----------------------------------------------------------------------------
(* Answers.                                                                *)

\* An issue asks again, or starts from scratch.
LEMMA IssueSound ==
  ASSUME NEW m, Sound(m), NEW c \in Chains,
         NEW sent \in BOOLEAN, NEW again \in BOOLEAN
  PROVE  Sound(Issue(m, c, sent, again)) /\ Watches(Issue(m, c, sent, again))
<1> DEFINE d       == IF sent THEN Disconnected(m) ELSE m
           dropped == [d EXCEPT !.wanted = TRUE]
           scratch == [dropped EXCEPT !.queue = {}, !.known = {}, !.faulty = 0]
           count   == IF again /\ dropped.faulty > 0 THEN dropped.faulty
                      ELSE dropped.faulty + 1
           noted   == [dropped EXCEPT !.faulty = count]
<1>1. Sound(d)
  BY DisconnectedSound
<1>f. d.faulty = m.faulty /\ m.faulty \in 0 .. MaxFaultyPeers
  BY DEF Disconnected, Sound, Managers
<1>2. Issue(m, c, sent, again)
        = IF m.faulty >= MaxFaultyPeers THEN GotRecent(scratch, c, 0)
          ELSE Dequeued(noted, c)
  BY DEF Issue
<1> HIDE DEF d
<1>3. d \in Managers
  BY <1>1 DEF Sound
<1>4. dropped \in Managers /\ dropped.faulty = m.faulty
  BY <1>3, <1>f DEF Managers
<1>5. /\ dropped.download = d.download /\ dropped.connected = d.connected
      /\ dropped.wire = d.wire /\ dropped.late = d.late
      /\ dropped.inRetrieval = d.inRetrieval /\ dropped.neglected = d.neglected
      /\ dropped.observer = d.observer
  BY <1>3 DEF Managers
<1> HIDE DEF dropped
<1>6. Sound(dropped)
  BY <1>1, <1>4, <1>5 DEF Sound
<1>7. CASE m.faulty >= MaxFaultyPeers
  <2>1. 0 \in 0 .. MaxFaultyPeers /\ 0 \in Nat
    BY MasternodesAssumption
  <2>2. scratch \in Managers
    BY <1>4, <2>1 DEF Managers
  <2>3. /\ scratch.download = dropped.download /\ scratch.queue = {}
        /\ scratch.connected = dropped.connected
        /\ scratch.wire = dropped.wire /\ scratch.late = dropped.late
        /\ scratch.inRetrieval = dropped.inRetrieval
        /\ scratch.neglected = dropped.neglected
        /\ scratch.observer = dropped.observer
    BY <1>4 DEF Managers
  <2> HIDE DEF scratch
  <2>4. Sound(scratch) /\ Watches(scratch)
    BY <1>6, <2>2, <2>3 DEF Sound, Watches
  <2> QED
    BY <1>2, <1>7, <2>1, <2>4, GotRecentSound
<1>8. CASE ~(m.faulty >= MaxFaultyPeers)
  <2>1. count \in 0 .. MaxFaultyPeers
    BY <1>4, <1>f, <1>8, MasternodesAssumption
  <2> HIDE DEF count
  <2>2. noted \in Managers
    BY <1>4, <2>1 DEF Managers
  <2>3. /\ noted.download = dropped.download
        /\ noted.connected = dropped.connected
        /\ noted.wire = dropped.wire /\ noted.late = dropped.late
        /\ noted.inRetrieval = dropped.inRetrieval
        /\ noted.neglected = dropped.neglected
        /\ noted.observer = dropped.observer
    BY <1>4 DEF Managers
  <2> HIDE DEF noted
  <2>4. Sound(noted)
    BY <1>6, <2>2, <2>3 DEF Sound
  <2> QED
    BY <1>2, <1>8, <2>4, DequeuedSound
<1> QED
  BY <1>7, <1>8

\* What neither the connection nor the queue is touched by stays sound.
LEMMA Untouched ==
  ASSUME NEW m, Sound(m), NEW n \in Managers,
         n.download = m.download, n.connected = m.connected, n.late = m.late,
         n.wire \in {{}, m.wire}, n.inRetrieval \subseteq m.inRetrieval,
         n.observer = m.observer, n.neglected = m.neglected
  PROVE  /\ Sound(n)
         /\ Watches(m) /\ n.queue = m.queue /\ n.pending = m.pending => Watches(n)
<1>1. Sound(n)
  BY DEF Sound
<1> QED
  BY <1>1 DEF Watches

\* An answer that arrives is taken, or is an issue.
LEMMA HandledSound ==
  ASSUME NEW m, Sound(m), Watches(m), NEW c \in Chains, NEW a \in Answers,
         NEW sent \in BOOLEAN, NEW again \in BOOLEAN
  PROVE  Sound(Handled(m, c, a, sent, again)) /\ Watches(Handled(m, c, a, sent, again))
<1> DEFINE b    == a.block
           got  == [m EXCEPT !.inRetrieval = @ \ {b}]
           took == [got EXCEPT !.processing = b, !.busy = [answer |-> a, sent |-> sent]]
<1>1. m \in Managers /\ b \in Blocks
  BY DEF Sound, Answers
<1>2. Handled(m, c, a, sent, again) \in {m, got, Issue(got, c, sent, again), took}
  BY DEF Handled
<1>3. got \in Managers
  BY <1>1 DEF Managers
<1>4. /\ got.download = m.download /\ got.connected = m.connected
      /\ got.wire = m.wire /\ got.late = m.late
      /\ got.inRetrieval \subseteq m.inRetrieval /\ got.queue = m.queue
      /\ got.observer = m.observer /\ got.neglected = m.neglected
      /\ got.pending = m.pending
  BY <1>1 DEF Managers
<1> HIDE DEF got
<1>5. Sound(got) /\ Watches(got)
  BY <1>3, <1>4, Untouched
<1>6. took \in Managers
  <2>1. [answer |-> a, sent |-> sent] \in [answer : Answers, sent : BOOLEAN]
    OBVIOUS
  <2> QED
    BY <1>1, <1>3, <2>1 DEF Managers
<1>7. /\ took.download = got.download /\ took.connected = got.connected
      /\ took.wire = got.wire /\ took.late = got.late
      /\ took.inRetrieval = got.inRetrieval /\ took.queue = got.queue
      /\ took.observer = got.observer /\ took.neglected = got.neglected
      /\ took.pending = got.pending
  BY <1>3 DEF Managers
<1> HIDE DEF took
<1>8. Sound(took) /\ Watches(took)
  BY <1>5, <1>6, <1>7, Untouched
<1>9. /\ Sound(Issue(got, c, sent, again))
      /\ Watches(Issue(got, c, sent, again))
  BY <1>5, IssueSound
<1> QED
  BY <1>2, <1>5, <1>8, <1>9

\* An answer to what was wiped asks again for what is queued.
LEMMA WipedMeanwhileSound ==
  ASSUME NEW m, Sound(m), NEW c \in Chains
  PROVE  Sound(WipedMeanwhile(m, c)) /\ Watches(WipedMeanwhile(m, c))
<1> DEFINE n == [m EXCEPT !.inRetrieval = {}]
<1>1. m \in Managers
  BY DEF Sound
<1>2. n \in Managers
  BY <1>1 DEF Managers
<1>3. /\ n.download = m.download /\ n.connected = m.connected
      /\ n.wire = m.wire /\ n.late = m.late /\ n.inRetrieval = {}
      /\ n.observer = m.observer /\ n.neglected = m.neglected
  BY <1>1 DEF Managers
<1> HIDE DEF n
<1>4. Sound(n)
  BY <1>2, <1>3, Untouched
<1> QED
  BY <1>4, DequeuedSound DEF WipedMeanwhile, n

\* A valid list is kept, or its quorums' lists are asked for first.
LEMMA ValidSound ==
  ASSUME NEW m, Sound(m), NEW c \in Chains, NEW b \in Blocks
  PROVE  Sound(Valid(m, c, b)) /\ Watches(Valid(m, c, b))
<1> DEFINE needed == {q \in Quorums[b] \cap c.has : q \notin m.known}
           done   == [m EXCEPT !.processing = None]
           k      == Kept(done, {b})
           more   == [done EXCEPT !.queue = @ \cup needed]
           less   == [k EXCEPT !.queue = @ \ {b}, !.faulty = 0]
<1>1. m \in Managers
  BY DEF Sound
<1>2. needed \in SUBSET Blocks
  BY DEF Chains
<1>3. Valid(m, c, b) \in {Dequeued(more, c), Dequeued(less, c)}
  BY DEF Valid
<1> HIDE DEF needed
<1>4. done \in Managers
  BY <1>1 DEF Managers
<1>5. /\ done.download = m.download /\ done.connected = m.connected
      /\ done.wire = m.wire /\ done.late = m.late
      /\ done.inRetrieval = m.inRetrieval
      /\ done.observer = m.observer /\ done.neglected = m.neglected
  BY <1>1 DEF Managers
<1> HIDE DEF done
<1>6. Sound(done)
  BY <1>4, <1>5, Untouched
<1>7. Sound(more)
  <2>1. more \in Managers
    BY <1>2, <1>4 DEF Managers
  <2>2. /\ more.download = done.download /\ more.connected = done.connected
        /\ more.wire = done.wire /\ more.late = done.late
        /\ more.inRetrieval = done.inRetrieval
        /\ more.observer = done.observer /\ more.neglected = done.neglected
    BY <1>4 DEF Managers
  <2> HIDE DEF more
  <2> QED
    BY <1>6, <2>1, <2>2, Untouched
<1>8. Sound(less)
  <2>1. Sound(k)
    BY <1>6, KeptSound
  <2>2. k \in Managers /\ 0 \in 0 .. MaxFaultyPeers
    BY <2>1, MasternodesAssumption DEF Sound
  <2> HIDE DEF k
  <2>3. less \in Managers
    BY <2>2 DEF Managers
  <2>4. /\ less.download = k.download /\ less.connected = k.connected
        /\ less.wire = k.wire /\ less.late = k.late
        /\ less.inRetrieval = k.inRetrieval
        /\ less.observer = k.observer /\ less.neglected = k.neglected
    BY <2>2 DEF Managers
  <2> HIDE DEF less
  <2> QED
    BY <2>1, <2>3, <2>4, Untouched
<1> HIDE DEF more, less
<1> QED
  BY <1>3, <1>7, <1>8, DequeuedSound

-----------------------------------------------------------------------------
(* The steps.                                                              *)

\* Only the invariant of the managers is at stake in a step: the chain and the
\* bound have their types whatever is done.
LEMMA ChainTyped ==
  ASSUME IInv, Next
  PROVE  chain' \in Chains /\ troubles' \in 0 .. MaxTroubles
<1>1. MaxHeight \in Nat /\ MaxTroubles \in Nat
  BY MasternodesAssumption
<1>2. chain \in Chains /\ troubles \in 0 .. MaxTroubles
  BY DEF IInv
<1>3. troubles' \in 0 .. MaxTroubles
  <2>1. Trouble => troubles' \in 0 .. MaxTroubles
    BY <1>1, <1>2 DEF Trouble
  <2>2. Trouble \/ troubles' = troubles
    BY DEF Next, Environment, Arrivals, Store, Application, PeerConnects, PeerLost,
           OthersLost, AnswerLost, BlockForgotten, HeadersArrive, BlocksArrive,
           BlockArrives, RunStart, RunDequeue, RunCurrent, ObserverFires, Relayed,
           Processed, Saved, OldRemoved, StartSync, StopSync, WipeMasternodeData,
           RequestList
  <2> QED
    BY <2>1, <2>2, <1>2
<1>4. chain' \in Chains
  <2>1. CASE UNCHANGED chain
    BY <2>1, <1>2
  <2>2. CASE PeerConnects
    <3>1. PICK h \in chain.best .. MaxHeight : chain' = [chain EXCEPT !.best = h]
      BY <2>2 DEF PeerConnects
    <3>2. h \in Blocks
      BY <1>1, <1>2 DEF Chains, Blocks
    <3> QED
      BY <1>2, <3>1, <3>2 DEF Chains
  <2>3. CASE HeadersArrive
    <3>1. chain.tip .. chain.best \in SUBSET Blocks
      BY <1>1, <1>2 DEF Chains, Blocks
    <3> QED
      BY <1>2, <2>3, <3>1 DEF HeadersArrive, Chains
  <2>4. CASE BlocksArrive
    BY <1>2, <2>4 DEF BlocksArrive, Chains
  <2>5. CASE BlockArrives
    <3> DEFINE t == chain.tip + 1
               s == IF chain.syncTip = chain.tip THEN t ELSE chain.syncTip
               b == IF chain.best < t THEN t ELSE chain.best
    <3>1. t \in Blocks
      BY <1>1, <1>2, <2>5 DEF BlockArrives, Chains, Blocks
    <3>2. s \in Blocks /\ b \in Blocks
      BY <1>2, <3>1 DEF Chains
    <3>3. chain' = [chain EXCEPT !.tip = t, !.syncTip = s, !.best = b,
                                 !.has = @ \cup {t},
                                 !.terminal = @ \cup {t}]
      BY <1>2, <2>5 DEF BlockArrives, Chains
    <3> HIDE DEF t, s, b
    <3> QED
      BY <1>2, <3>1, <3>2, <3>3 DEF Chains
  <2>6. CASE BlockForgotten
    BY <1>2, <2>6 DEF BlockForgotten, Chains
  <2> QED
    BY <2>1, <2>2, <2>3, <2>4, <2>5, <2>6
       DEF Next, Environment, Arrivals, Store, Application, PeerLost, OthersLost,
           AnswerLost, RunStart, RunDequeue, RunCurrent, ObserverFires, Relayed,
           Processed, Saved, OldRemoved, StartSync, StopSync, WipeMasternodeData,
           RequestList
<1> QED
  BY <1>3, <1>4

\* A download peer is chosen.
LEMMA PeerConnectsSound ==
  ASSUME IInv, PeerConnects
  PROVE  Sound(mn') /\ Watches(mn')
<1> DEFINE m == [mn EXCEPT !.download = TRUE, !.connected = TRUE]
           s == [m EXCEPT !.pending = @ \cup {"start"}]
<1>1. Sound(mn) /\ Watches(mn) /\ mn \in Managers /\ chain \in Chains
  BY DEF IInv, Sound
<1>2. mn' \in {SyncFinished(m, chain), s}
  BY DEF PeerConnects
<1>3. m \in Managers
  BY <1>1 DEF Managers
<1>4. /\ m.download /\ m.connected /\ m.late = mn.late
      /\ m.inRetrieval = mn.inRetrieval /\ m.queue = mn.queue
      /\ m.observer = mn.observer /\ m.neglected = mn.neglected
      /\ m.pending = mn.pending
  BY <1>1 DEF Managers
<1> HIDE DEF m
<1>5. Sound(m) /\ Watches(m)
  BY <1>1, <1>3, <1>4 DEF Sound, Watches
<1>6. s \in Managers
  BY <1>3 DEF Managers
<1>7. /\ s.download = m.download /\ s.connected = m.connected
      /\ s.wire = m.wire /\ s.late = m.late /\ s.queue = m.queue
      /\ s.inRetrieval = m.inRetrieval /\ s.observer = m.observer
      /\ s.neglected = m.neglected /\ m.pending \subseteq s.pending
  BY <1>3 DEF Managers
<1> HIDE DEF s
<1>8. Sound(s) /\ Watches(s)
  BY <1>5, <1>6, <1>7 DEF Sound, Watches
<1> QED
  BY <1>1, <1>2, <1>5, <1>8, SyncFinishedSound

\* Peers, answers and blocks are lost.
LEMMA EnvironmentSound ==
  ASSUME IInv, Environment
  PROVE  Sound(mn') /\ Watches(mn')
<1>1. Sound(mn) /\ Watches(mn) /\ mn \in Managers
  BY DEF IInv, Sound
<1>2. CASE PeerLost
  <2>1. mn' = Disconnected(mn)
    BY <1>2 DEF PeerLost
  <2> QED
    BY <1>1, <2>1, DisconnectedSound DEF Watches
<1>3. CASE OthersLost
  <2> DEFINE n == [mn EXCEPT !.connected = FALSE]
  <2>1. mn' = n /\ ~mn.download
    BY <1>3 DEF OthersLost
  <2>2. n \in Managers
    BY <1>1 DEF Managers
  <2>3. /\ n.download = mn.download /\ n.wire = mn.wire /\ n.late = mn.late
        /\ n.inRetrieval = mn.inRetrieval /\ n.queue = mn.queue
        /\ n.observer = mn.observer /\ n.neglected = mn.neglected
        /\ n.pending = mn.pending
    BY <1>1 DEF Managers
  <2> HIDE DEF n
  <2> QED
    BY <1>1, <2>1, <2>2, <2>3 DEF Sound, Watches
<1>4. CASE AnswerLost
  <2>1. \/ mn.wire # {} /\ mn' = [mn EXCEPT !.wire = @ \ {First(mn.wire)}]
        \/ mn' = [mn EXCEPT !.late = {}]
    BY <1>4 DEF AnswerLost
  <2>2. mn' \in Managers
    BY <1>1, <2>1 DEF Managers
  <2>3. /\ mn'.download = mn.download /\ mn'.connected = mn.connected
        /\ mn'.wire \subseteq mn.wire /\ mn'.late \in {mn.late, {}}
        /\ mn'.inRetrieval = mn.inRetrieval /\ mn'.queue = mn.queue
        /\ mn'.observer = mn.observer /\ mn'.neglected = mn.neglected
        /\ mn'.pending = mn.pending
    BY <1>1, <2>1 DEF Managers
  <2>4. Cardinality(mn'.late) <= 1
    BY <1>1, <2>3, OneLate DEF Sound
  <2> QED
    BY <1>1, <2>2, <2>3, <2>4 DEF Sound, Watches
<1>5. CASE BlockForgotten
  BY <1>1, <1>5 DEF BlockForgotten
<1> QED
  BY <1>2, <1>3, <1>4, <1>5 DEF Environment

\* Headers and blocks arrive.
LEMMA ArrivalsSound ==
  ASSUME IInv, Arrivals
  PROVE  Sound(mn') /\ Watches(mn')
<1>1. Sound(mn) /\ Watches(mn) /\ mn \in Managers
  BY DEF IInv, Sound
<1>2. chain' \in Chains
  BY ChainTyped DEF Next
<1>3. Sound(Cared(mn, chain')) /\ Watches(Cared(mn, chain'))
  BY <1>1, <1>2, CaredSound
<1>4. /\ Sound(SyncFinished(mn, chain')) /\ Watches(SyncFinished(mn, chain'))
      /\ Sound(SyncFinished(Cared(mn, chain'), chain'))
      /\ Watches(SyncFinished(Cared(mn, chain'), chain'))
  BY <1>1, <1>2, <1>3, SyncFinishedSound
<1> DEFINE n == [mn EXCEPT !.pending = @ \cup {"current"}]
<1>5. n \in Managers
  BY <1>1 DEF Managers
<1>6. /\ n.download = mn.download /\ n.connected = mn.connected
      /\ n.wire = mn.wire /\ n.late = mn.late /\ n.queue = mn.queue
      /\ n.inRetrieval = mn.inRetrieval /\ n.observer = mn.observer
      /\ n.neglected = mn.neglected /\ mn.pending \subseteq n.pending
  BY <1>1 DEF Managers
<1>7. mn' \in {mn, n, Cared(mn, chain'), SyncFinished(mn, chain'),
               SyncFinished(Cared(mn, chain'), chain')}
  BY DEF Arrivals, HeadersArrive, BlocksArrive, BlockArrives
<1> HIDE DEF n
<1>8. Sound(n) /\ Watches(n)
  BY <1>1, <1>5, <1>6 DEF Sound, Watches
<1> QED
  BY <1>1, <1>3, <1>4, <1>7, <1>8

\* A block of the networking queue that has run is not in it; only the retry
\* of a dequeue drives the queue of the lists.
LEMMA RanSound ==
  ASSUME IInv, NEW b
  PROVE  Sound(Ran(b)) /\ (b # "dequeue" => Watches(Ran(b)))
<1>1. Sound(mn) /\ Watches(mn) /\ mn \in Managers
  BY DEF IInv, Sound
<1> DEFINE r == [mn EXCEPT !.pending = @ \ {b}]
<1>2. r \in Managers
  BY <1>1 DEF Managers
<1>3. /\ r.download = mn.download /\ r.connected = mn.connected
      /\ r.wire = mn.wire /\ r.late = mn.late /\ r.queue = mn.queue
      /\ r.inRetrieval = mn.inRetrieval /\ r.observer = mn.observer
      /\ r.neglected = mn.neglected /\ r.pending = mn.pending \ {b}
  BY <1>1 DEF Managers
<1> HIDE DEF r
<1>4. Sound(r)
  BY <1>1, <1>2, <1>3, Untouched
<1>5. b # "dequeue" => Watches(r)
  BY <1>1, <1>3 DEF Watches
<1> QED
  BY <1>4, <1>5 DEF Ran, r

\* They run.
LEMMA RunsSound ==
  ASSUME IInv, RunStart \/ RunDequeue \/ RunCurrent
  PROVE  Sound(mn') /\ Watches(mn')
<1>1. chain \in Chains /\ 0 \in Nat
  BY DEF IInv
<1>2. CASE RunStart
  BY <1>1, <1>2, RanSound, StartedSound DEF RunStart
<1>3. CASE RunDequeue
  BY <1>1, <1>3, RanSound, DequeuedSound DEF RunDequeue
<1>4. CASE RunCurrent
  BY <1>1, <1>4, RanSound, GotRecentSound DEF RunCurrent
<1> QED
  BY <1>2, <1>3, <1>4

\* The observer ends only where nothing is queued, and asks again or goes on
\* otherwise.
LEMMA ObserverFiresSound ==
  ASSUME IInv, ObserverFires
  PROVE  Sound(mn') /\ Watches(mn')
<1>1. Sound(mn) /\ mn \in Managers /\ chain \in Chains
  BY DEF IInv, Sound
<1>2. CASE mn.queue = {}
  <2> DEFINE n == [mn EXCEPT !.observer = None,
                             !.neglected = @ \/ mn.inRetrieval # {}]
  <2>1. mn' = n
    BY <1>2 DEF ObserverFires
  <2>2. n \in Managers
    BY <1>1 DEF Managers
  <2>3. /\ n.download = mn.download /\ n.connected = mn.connected
        /\ n.wire = mn.wire /\ n.late = mn.late /\ n.queue = mn.queue
        /\ n.inRetrieval = mn.inRetrieval
        /\ mn.inRetrieval # {} => n.neglected
    BY <1>1 DEF Managers
  <2> HIDE DEF n
  <2> QED
    BY <1>1, <1>2, <2>1, <2>2, <2>3 DEF Sound, Watches
<1>3. CASE mn.queue # {} /\ ~NothingChanged(mn)
  BY <1>1, <1>3, ObservedSound DEF ObserverFires, Sound
<1>4. CASE mn.queue # {} /\ NothingChanged(mn)
  <2> DEFINE d    == Disconnected(mn)
             gone == [d EXCEPT !.observer = None, !.inRetrieval = {}]
  <2>1. mn' = Dequeued(gone, chain)
    BY <1>4 DEF ObserverFires
  <2>2. Sound(d)
    BY <1>1, DisconnectedSound
  <2> HIDE DEF d
  <2>3. d \in Managers
    BY <2>2 DEF Sound
  <2>4. gone \in Managers
    BY <2>3 DEF Managers
  <2>5. /\ gone.download = d.download /\ gone.connected = d.connected
        /\ gone.wire = d.wire /\ gone.late = d.late
        /\ gone.inRetrieval = {}
    BY <2>3 DEF Managers
  <2> HIDE DEF gone
  <2>6. Sound(gone)
    BY <2>2, <2>4, <2>5 DEF Sound
  <2> QED
    BY <1>1, <2>1, <2>6, DequeuedSound
<1> QED
  BY <1>2, <1>3, <1>4

\* Answers arrive and are processed.
LEMMA AnswersSound ==
  ASSUME IInv, Relayed \/ Processed
  PROVE  Sound(mn') /\ Watches(mn')
<1>1. Sound(mn) /\ Watches(mn) /\ mn \in Managers /\ chain \in Chains
  BY DEF IInv, Sound
<1>2. CASE Relayed
  <2>1. PICK again \in BOOLEAN :
           \/ /\ mn.wire # {}
              /\ mn' = Handled([mn EXCEPT !.wire = @ \ {First(mn.wire)}], chain,
                               First(mn.wire), TRUE, again)
           \/ \E a \in mn.late :
                 mn' = Handled([mn EXCEPT !.late = {}], chain, a, FALSE, again)
    BY <1>2 DEF Relayed
  <2> DEFINE w == [mn EXCEPT !.wire = @ \ {First(mn.wire)}]
             l == [mn EXCEPT !.late = {}]
  <2>2. w \in Managers /\ l \in Managers
    BY <1>1 DEF Managers
  <2>3. /\ w.download = mn.download /\ w.connected = mn.connected
        /\ w.wire \subseteq mn.wire /\ w.late = mn.late
        /\ w.inRetrieval = mn.inRetrieval /\ w.queue = mn.queue
        /\ w.observer = mn.observer /\ w.neglected = mn.neglected
        /\ w.pending = mn.pending
    BY <1>1 DEF Managers
  <2>4. /\ l.download = mn.download /\ l.connected = mn.connected
        /\ l.wire = mn.wire /\ l.late = {}
        /\ l.inRetrieval = mn.inRetrieval /\ l.queue = mn.queue
        /\ l.observer = mn.observer /\ l.neglected = mn.neglected
        /\ l.pending = mn.pending
    BY <1>1 DEF Managers
  <2> HIDE DEF w, l
  <2>5. Sound(w) /\ Watches(w)
    BY <1>1, <2>2, <2>3 DEF Sound, Watches
  <2>6. Sound(l) /\ Watches(l)
    BY <1>1, <2>2, <2>4, OneLate DEF Sound, Watches
  <2>7. mn.wire \in SUBSET Answers /\ mn.late \in SUBSET Answers
    BY <1>1 DEF Managers
  <2>8. CASE mn.wire # {} /\ mn' = Handled(w, chain, First(mn.wire), TRUE, again)
    BY <1>1, <2>5, <2>7, <2>8, FirstIsOne, HandledSound
  <2>9. CASE \E a \in mn.late : mn' = Handled(l, chain, a, FALSE, again)
    BY <1>1, <2>6, <2>7, <2>9, HandledSound
  <2> QED
    BY <2>1, <2>8, <2>9 DEF w, l
<1>3. CASE Processed
  <2> DEFINE b    == mn.busy.answer.block
             idle == [mn EXCEPT !.busy = None]
             done == [idle EXCEPT !.processing = None]
  <2>1. mn.busy \in [answer : Answers, sent : BOOLEAN]
    BY <1>1, <1>3 DEF Processed, Managers
  <2>2. b \in Blocks /\ mn.busy.sent \in BOOLEAN
    BY <2>1 DEF Answers
  <2>3. \/ mn' \in {idle, WipedMeanwhile(idle, chain), Valid(idle, chain, b)}
        \/ \E again \in BOOLEAN : mn' = Issue(done, chain, mn.busy.sent, again)
    BY <1>3 DEF Processed
  <2> HIDE DEF b
  <2>4. idle \in Managers
    BY <1>1 DEF Managers
  <2>5. /\ idle.download = mn.download /\ idle.connected = mn.connected
        /\ idle.wire = mn.wire /\ idle.late = mn.late
        /\ idle.inRetrieval = mn.inRetrieval /\ idle.queue = mn.queue
        /\ idle.observer = mn.observer /\ idle.neglected = mn.neglected
        /\ idle.pending = mn.pending
    BY <1>1 DEF Managers
  <2> HIDE DEF idle
  <2>6. Sound(idle) /\ Watches(idle)
    BY <1>1, <2>4, <2>5, Untouched
  <2>7. done \in Managers
    BY <2>4 DEF Managers
  <2>8. /\ done.download = idle.download /\ done.connected = idle.connected
        /\ done.wire = idle.wire /\ done.late = idle.late
        /\ done.inRetrieval = idle.inRetrieval
        /\ done.observer = idle.observer /\ done.neglected = idle.neglected
    BY <2>4 DEF Managers
  <2> HIDE DEF done
  <2>9. Sound(done)
    BY <2>6, <2>7, <2>8, Untouched
  <2> QED
    BY <1>1, <2>2, <2>3, <2>6, <2>9, WipedMeanwhileSound, ValidSound, IssueSound
<1> QED
  BY <1>2, <1>3

\* The store: what it wipes is not queued, and what it removes is not either.
LEMMA StoreSound ==
  ASSUME IInv, Store
  PROVE  Sound(mn') /\ Watches(mn')
<1>1. Sound(mn) /\ Watches(mn) /\ mn \in Managers
  BY DEF IInv, Sound
<1>2. ASSUME NEW more \in BOOLEAN
      PROVE  /\ Sound([mn EXCEPT !.saving = more])
             /\ Watches([mn EXCEPT !.saving = more])
  <2> DEFINE n == [mn EXCEPT !.saving = more]
  <2>1. n \in Managers
    BY <1>1, <1>2 DEF Managers
  <2>2. /\ n.download = mn.download /\ n.connected = mn.connected
        /\ n.wire = mn.wire /\ n.late = mn.late
        /\ n.inRetrieval = mn.inRetrieval /\ n.queue = mn.queue
        /\ n.observer = mn.observer /\ n.neglected = mn.neglected
        /\ n.pending = mn.pending
    BY <1>1 DEF Managers
  <2> HIDE DEF n
  <2>3. Sound(n) /\ Watches(n)
    BY <1>1, <2>1, <2>2, Untouched
  <2> QED
    BY <2>3 DEF n
<1>3. ASSUME NEW m, Sound(m)
      PROVE  /\ Sound([Wiped(m) EXCEPT !.pending = @ \cup {"current"}])
             /\ Watches([Wiped(m) EXCEPT !.pending = @ \cup {"current"}])
  <2> DEFINE w == Wiped(m)
             n == [w EXCEPT !.pending = @ \cup {"current"}]
  <2>1. Sound(w) /\ w.queue = {}
    BY <1>3, WipedSound
  <2> HIDE DEF w
  <2>2. w \in Managers
    BY <2>1 DEF Sound
  <2>3. n \in Managers
    BY <2>2 DEF Managers
  <2>4. /\ n.download = w.download /\ n.connected = w.connected
        /\ n.wire = w.wire /\ n.late = w.late
        /\ n.inRetrieval = w.inRetrieval /\ n.queue = {}
        /\ n.observer = w.observer /\ n.neglected = w.neglected
    BY <2>1, <2>2 DEF Managers
  <2> HIDE DEF n
  <2>5. Sound(n) /\ Watches(n)
    BY <2>1, <2>3, <2>4, Untouched DEF Watches
  <2> QED
    BY <2>5 DEF n, w
<1>4. CASE Saved
  <2>1. \E more \in BOOLEAN :
           mn' \in {[mn EXCEPT !.saving = more],
                    [Wiped([mn EXCEPT !.saving = more]) EXCEPT
                        !.pending = @ \cup {"current"}]}
    BY <1>4 DEF Saved
  <2> QED
    BY <1>2, <1>3, <2>1
<1>5. CASE OldRemoved
  <2>1. PICK old : mn' = [mn EXCEPT !.known = @ \ old, !.removing = FALSE]
    BY <1>5 DEF OldRemoved
  <2> DEFINE n == [mn EXCEPT !.known = @ \ old, !.removing = FALSE]
  <2>2. n \in Managers
    BY <1>1 DEF Managers
  <2>3. /\ n.download = mn.download /\ n.connected = mn.connected
        /\ n.wire = mn.wire /\ n.late = mn.late
        /\ n.inRetrieval = mn.inRetrieval /\ n.queue = mn.queue
        /\ n.observer = mn.observer /\ n.neglected = mn.neglected
        /\ n.pending = mn.pending
    BY <1>1 DEF Managers
  <2> HIDE DEF n
  <2>4. Sound(n) /\ Watches(n)
    BY <1>1, <2>2, <2>3, Untouched
  <2> QED
    BY <2>1, <2>4 DEF n
<1> QED
  BY <1>4, <1>5 DEF Store

\* The application.
LEMMA ApplicationSound ==
  ASSUME IInv, Application
  PROVE  Sound(mn') /\ Watches(mn')
<1>1. Sound(mn) /\ Watches(mn) /\ mn \in Managers /\ chain \in Chains
  BY DEF IInv, Sound
<1> DEFINE a == AllDisconnected(mn)
           o == [a EXCEPT !.phase = "Offline"]
<1>2. /\ Sound(a) /\ a.queue = mn.queue /\ a.observer = mn.observer
      /\ a.pending = mn.pending /\ a.neglected = mn.neglected
  BY <1>1, AllDisconnectedSound
<1>3. Sound(o) /\ Watches(o)
  <2>1. Watches(a)
    BY <1>1, <1>2 DEF Watches
  <2> QED
    BY <1>2, <2>1, PhaseSound DEF Phases
<1>4. CASE StartSync
  <2> DEFINE n == [mn EXCEPT !.wanted = TRUE]
  <2>1. n \in Managers
    BY <1>1 DEF Managers
  <2>2. /\ n.download = mn.download /\ n.connected = mn.connected
        /\ n.wire = mn.wire /\ n.late = mn.late
        /\ n.inRetrieval = mn.inRetrieval /\ n.queue = mn.queue
        /\ n.observer = mn.observer /\ n.neglected = mn.neglected
        /\ n.pending = mn.pending
    BY <1>1 DEF Managers
  <2>3. mn' = n
    BY <1>4 DEF StartSync
  <2> HIDE DEF n
  <2> QED
    BY <1>1, <2>1, <2>2, <2>3, Untouched
<1>5. CASE StopSync
  BY <1>3, <1>5 DEF StopSync
<1>6. CASE WipeMasternodeData
  <2>1. mn' = Wiped(o)
    BY <1>6 DEF WipeMasternodeData
  <2> HIDE DEF o
  <2>2. Sound(Wiped(o)) /\ Wiped(o).queue = {}
    BY <1>3, WipedSound
  <2> QED
    BY <2>1, <2>2 DEF Watches
<1>7. CASE RequestList
  <2>1. PICK b \in chain.has : mn' = Dequeued([mn EXCEPT !.lastQueried = b,
                                                         !.queried = @ \cup {b},
                                                         !.queue = @ \cup {b}], chain)
    BY <1>7 DEF RequestList
  <2> DEFINE n == [mn EXCEPT !.lastQueried = b, !.queried = @ \cup {b},
                             !.queue = @ \cup {b}]
  <2>2. b \in Blocks
    BY <1>1 DEF Chains
  <2>3. n \in Managers
    BY <1>1, <2>2 DEF Managers
  <2>4. /\ n.download = mn.download /\ n.connected = mn.connected
        /\ n.wire = mn.wire /\ n.late = mn.late
        /\ n.inRetrieval = mn.inRetrieval
        /\ n.observer = mn.observer /\ n.neglected = mn.neglected
    BY <1>1 DEF Managers
  <2> HIDE DEF n
  <2>5. Sound(n)
    BY <1>1, <2>3, <2>4, Untouched
  <2> QED
    BY <1>1, <2>1, <2>5, DequeuedSound DEF n
<1> QED
  BY <1>4, <1>5, <1>6, <1>7 DEF Application

-----------------------------------------------------------------------------
(* The theorems.                                                           *)

\* At the start nothing is queued.
LEMMA InitCorrect == Init => IInv
<1> SUFFICES ASSUME Init
             PROVE  IInv
  OBVIOUS
<1>1. PICK lists \in {{}, {FirstTip}} :
        mn = [queue |-> {}, inRetrieval |-> {}, known |-> lists,
              current |-> IF lists = {} THEN None ELSE FirstTip,
              lastQueried |-> None, queried |-> {}, processing |-> None,
              busy |-> None, observer |-> None, faulty |-> 0, saving |-> FALSE,
              removing |-> FALSE, pending |-> {}, neglected |-> FALSE,
              phase |-> "Offline", usesList |-> FALSE, wanted |-> FALSE,
              connected |-> FALSE, download |-> FALSE, wire |-> {}, late |-> {}]
  BY DEF Init
<1>2. /\ FirstTip \in Blocks /\ 0 .. FirstTip \in SUBSET Blocks
      /\ 0 \in 0 .. MaxFaultyPeers /\ 0 \in 0 .. MaxTroubles
  BY MasternodesAssumption DEF Blocks
<1>3. mn \in Managers
  BY <1>1, <1>2 DEF Managers, Phases
<1>4. Sound(mn) /\ Watches(mn)
  BY <1>1, <1>3, OneLate DEF Sound, Watches
<1>5. chain \in Chains
  BY <1>2 DEF Init, Chains
<1> QED
  BY <1>2, <1>4, <1>5 DEF Init, IInv

\* Every step leaves the managers sound and the queue driven.
LEMMA StepCorrect == IInv /\ [Next]_vars => IInv'
<1> SUFFICES ASSUME IInv, [Next]_vars
             PROVE  IInv'
  OBVIOUS
<1>1. CASE Next
  <2>1. Sound(mn') /\ Watches(mn')
    BY <1>1, PeerConnectsSound, EnvironmentSound, ArrivalsSound, RunsSound,
       ObserverFiresSound, AnswersSound, StoreSound, ApplicationSound DEF Next
  <2> QED
    BY <1>1, <2>1, ChainTyped DEF IInv
<1>2. CASE UNCHANGED vars
  BY <1>2 DEF IInv, vars
<1> QED
  BY <1>1, <1>2

\* In every reachable state, for every chain, every assignment of quorums and
\* every bound, the managers have their types, only a connected download peer
\* is being asked, and at most one answer is late.
THEOREM TypeCorrect == Spec => []TypeOK
<1>1. IInv => TypeOK
  BY DEF IInv, Sound, TypeOK
<1> QED
  BY <1>1, InitCorrect, StepCorrect, PTL DEF Spec

\* In every reachable state a queue of wanted lists is driven by the observer
\* or by a retry, whatever was lost, wiped or answered late, except in the two
\* ways the model sets apart.
THEOREM QueueIsDriven == Spec => []Driven
<1>1. IInv => Driven
  BY DEF IInv, Watches, Driven
<1> QED
  BY <1>1, InitCorrect, StepCorrect, PTL DEF Spec

-----------------------------------------------------------------------------
(* The sync has something to wait for.  SyncHasNext, of any state of the    *)
(* managers and the chain, and what makes it inductive: nothing above the   *)
(* tip is known or wanted, so that a new tip is always one to ask for.      *)

HasNext(m, c) ==
    m.phase = "InitialTerminalBlocks" /\ m.download
    /\ c.has = 0 .. c.tip /\ 0 < c.tip
        => \/ m.queue # {}
           \/ m.pending \cap {"start", "dequeue"} # {}
           \/ c.tip < c.best
           \/ "current" \in m.pending /\ c.tip \notin m.known

InRange(m, tip) == m.queue \subseteq 0 .. tip /\ m.known \subseteq 0 .. tip

ChainInRange(c) ==
    c \in Chains /\ c.has \subseteq 0 .. c.tip /\ c.tip <= c.best

SyncInv ==
    /\ IInv
    /\ ChainInRange(chain) /\ InRange(mn, chain.tip) /\ HasNext(mn, chain)

\* Both survive what keeps the phase, the connection and the queue, forgets no
\* block of the networking queue, and adds no list.
LEMMA SameKept ==
  ASSUME NEW m, NEW n, NEW c,
         n.phase = m.phase, n.download = m.download, n.queue = m.queue,
         m.pending \subseteq n.pending, n.known \subseteq m.known
  PROVE  /\ HasNext(m, c) => HasNext(n, c)
         /\ InRange(m, c.tip) => InRange(n, c.tip)
BY DEF HasNext, InRange

\* A lost download peer takes nothing but itself.
LEMMA DisconnectedKeeps ==
  ASSUME NEW m \in Managers
  PROVE  /\ Disconnected(m).queue = m.queue /\ Disconnected(m).known = m.known
         /\ Disconnected(m).phase = m.phase /\ Disconnected(m).pending = m.pending
         /\ Disconnected(m).download = FALSE
BY DEF Disconnected, Managers

\* Told that the lists are there, the chain manager leaves the phase or drops
\* the peer.
LEMMA FinishedKeeps ==
  ASSUME NEW m, Sound(m)
  PROVE  /\ Finished(m).queue = m.queue /\ Finished(m).known = m.known
         /\ Finished(m).phase # "InitialTerminalBlocks" \/ ~Finished(m).download
<1>1. m \in Managers /\ (m.download => m.connected)
  BY DEF Sound
<1> DEFINE next == IF m.phase = "InitialTerminalBlocks" THEN "ChainSync" ELSE m.phase
<1>2. next # "InitialTerminalBlocks"
  OBVIOUS
<1>3. CASE ~m.connected
  <2>1. Finished(m) = [m EXCEPT !.phase = next, !.wanted = TRUE]
    BY <1>3 DEF Finished
  <2> HIDE DEF next
  <2> QED
    BY <1>1, <1>2, <2>1 DEF Managers
<1>4. CASE m.connected /\ ~m.usesList /\ m.current # None
  <2> DEFINE d == Disconnected(m)
  <2>1. Finished(m) = [[d EXCEPT !.connected = FALSE, !.wanted = FALSE]
                          EXCEPT !.usesList = TRUE, !.wanted = m.download]
    BY <1>4 DEF Finished, MasternodeListUsed, AllDisconnected
  <2>2. d \in Managers
    BY DisconnectedSound DEF Sound
  <2>3. d.queue = m.queue /\ d.known = m.known /\ d.download = FALSE
    BY <1>1, DisconnectedKeeps
  <2> HIDE DEF d
  <2> QED
    BY <2>1, <2>2, <2>3 DEF Managers
<1>5. CASE m.connected /\ ~(~m.usesList /\ m.current # None)
  <2>1. CASE m.phase = "InitialTerminalBlocks"
    <3>1. Finished(m) = [m EXCEPT !.phase = next, !.pending = @ \cup {"start"}]
      BY <1>5, <2>1 DEF Finished
    <3> HIDE DEF next
    <3> QED
      BY <1>1, <1>2, <3>1 DEF Managers
  <2>2. CASE m.phase # "InitialTerminalBlocks"
    BY <1>5, <2>2 DEF Finished
  <2> QED
    BY <2>1, <2>2
<1> QED
  BY <1>3, <1>4, <1>5

\* Asking takes a list out of the queue only for a missing block, and keeps the
\* lists that the bundle has.
LEMMA RequestedKeeps ==
  ASSUME NEW m \in Managers, NEW c \in Chains
  PROVE  /\ Requested(m, c).queue = m.queue \cap c.has
         /\ Requested(m, c).known \subseteq m.known \cup m.queue
         /\ Requested(m, c).phase = m.phase
<1> DEFINE files == m.queue \cap c.has \cap FileLists
           asks  == (m.queue \cap c.has) \ FileLists
           w     == {[base |-> Base(m, b), block |-> b] : b \in asks}
           k     == Kept(m, files)
           sent  == [k EXCEPT !.queue = @ \cap c.has, !.inRetrieval = asks,
                              !.wire = w, !.neglected = FALSE]
<1>1. Requested(m, c) = Observed(sent)
  BY DEF Requested
<1>2. k.queue = m.queue /\ k.known = m.known \cup files /\ k.phase = m.phase
  BY DEF Kept, Managers
<1>3. /\ DOMAIN k = DOMAIN m
      /\ {"queue", "known", "phase"} \subseteq DOMAIN m
  BY DEF Kept, Managers
<1> HIDE DEF k, w, asks
<1>4. /\ sent.queue = k.queue \cap c.has /\ sent.known = k.known
      /\ sent.phase = k.phase /\ DOMAIN sent = DOMAIN k
  BY <1>3
<1> HIDE DEF sent
<1>5. /\ Observed(sent).queue = sent.queue /\ Observed(sent).known = sent.known
      /\ Observed(sent).phase = sent.phase
  BY <1>3, <1>4 DEF Observed
<1> QED
  BY <1>1, <1>2, <1>4, <1>5

\* After a dequeue the sync has something to wait for, whatever was before.
LEMMA DequeuedHasNext ==
  ASSUME NEW m, Sound(m), NEW c, ChainInRange(c), InRange(m, c.tip)
  PROVE  /\ InRange(Dequeued(m, c), c.tip) /\ HasNext(Dequeued(m, c), c)
         /\ m.queue # {} => Dequeued(m, c).phase = m.phase
<1>1. m \in Managers /\ c \in Chains
  BY DEF Sound, ChainInRange
<1>2. CASE m.queue = {}
  <2>1. Dequeued(m, c) = Finished(m)
    BY <1>2 DEF Dequeued
  <2> QED
    BY <2>1, <1>2, FinishedKeeps DEF InRange, HasNext
<1>3. CASE m.queue # {} /\ m.inRetrieval # {}
  BY <1>3 DEF Dequeued, InRange, HasNext
<1>4. CASE m.queue # {} /\ m.inRetrieval = {} /\ m.download
  <2>1. Dequeued(m, c) = Requested(m, c)
    BY <1>4 DEF Dequeued
  <2>2. PICK n : n = Requested(m, c)
    OBVIOUS
  <2>3. /\ n.queue = m.queue \cap c.has /\ n.known \subseteq m.known \cup m.queue
        /\ n.phase = m.phase
    BY <1>1, <2>2, RequestedKeeps
  <2>4. c.has = 0 .. c.tip => n.queue # {}
    BY <1>4, <2>3 DEF InRange
  <2> QED
    BY <2>1, <2>2, <2>3, <2>4 DEF InRange, HasNext
<1>5. CASE m.queue # {} /\ m.inRetrieval = {} /\ ~m.download
  <2> DEFINE r == [m EXCEPT !.pending = @ \cup {"dequeue"}]
             n == [m EXCEPT !.neglected = TRUE]
  <2>1. Dequeued(m, c) = r \/ Dequeued(m, c) = n
    BY <1>5 DEF Dequeued
  <2>2. r.queue = m.queue /\ r.known = m.known /\ r.phase = m.phase
    BY <1>1 DEF Managers
  <2>3. n.queue = m.queue /\ n.known = m.known /\ n.phase = m.phase
    BY <1>1 DEF Managers
  <2> HIDE DEF r, n
  <2> QED
    BY <1>5, <2>1, <2>2, <2>3 DEF InRange, HasNext
<1> QED
  BY <1>2, <1>3, <1>4, <1>5

\* A call of getRecentMasternodeList does nothing or leaves something to wait
\* for; that for the tip's list does if the list is not known.
LEMMA GotRecentHasNext ==
  ASSUME NEW m, Sound(m), NEW c, ChainInRange(c), InRange(m, c.tip), NEW ago \in Nat
  PROVE  /\ InRange(GotRecent(m, c, ago), c.tip)
         /\ GotRecent(m, c, ago).phase = m.phase
         /\ GotRecent(m, c, ago) = m \/ HasNext(GotRecent(m, c, ago), c)
         /\ ago = 0 /\ c.tip \notin m.known => HasNext(GotRecent(m, c, ago), c)
<1> DEFINE b     == IF c.tip > ago THEN c.tip - ago ELSE 0
           added == [m EXCEPT !.lastQueried = b,
                              !.queried = @ \cup {b},
                              !.queue = @ \cup {b}]
           g     == GotRecent(m, c, ago)
<1>1. m \in Managers /\ c \in Chains
  BY DEF Sound, ChainInRange
<1>t. c.tip \in Nat /\ c.tip \in Blocks
  BY <1>1, MasternodesAssumption DEF Chains, Blocks
<1>2. b \in 0 .. c.tip /\ (ago = 0 => b = c.tip)
  BY <1>t
<1>3. b \in Blocks
  BY <1>2, <1>t, MasternodesAssumption DEF Blocks
<1>4. g = IF (m.queue # {} /\ Highest(m.queue) = b) \/ b \in m.known THEN m
          ELSE IF m.queue = {} THEN Dequeued(added, c) ELSE added
  BY DEF GotRecent
<1> HIDE DEF b, g
<1>5. added \in Managers
  BY <1>1, <1>3 DEF Managers
<1>6. /\ added.download = m.download /\ added.connected = m.connected
      /\ added.wire = m.wire /\ added.late = m.late
      /\ added.inRetrieval = m.inRetrieval /\ added.neglected = m.neglected
      /\ added.observer = m.observer
      /\ added.queue = m.queue \cup {b} /\ added.known = m.known
      /\ added.phase = m.phase
  BY <1>1 DEF Managers
<1> HIDE DEF added
<1>7. Sound(added)
  BY <1>5, <1>6 DEF Sound
<1>8. InRange(added, c.tip)
  BY <1>2, <1>6 DEF InRange
<1>9. HasNext(added, c)
  BY <1>6 DEF HasNext
<1>10. CASE g = m /\ ((m.queue # {} /\ Highest(m.queue) = b) \/ b \in m.known)
  <2>1. ago = 0 /\ c.tip \notin m.known => m.queue # {}
    BY <1>2, <1>10
  <2> QED
    BY <1>10, <2>1 DEF HasNext, g
<1>11. CASE g = Dequeued(added, c)
  BY <1>6, <1>7, <1>8, <1>11, DequeuedHasNext DEF g
<1>12. CASE g = added
  BY <1>6, <1>8, <1>9, <1>12 DEF g
<1> QED
  BY <1>4, <1>10, <1>11, <1>12

\* Both calls of it.
LEMMA CaredHasNext ==
  ASSUME NEW m, Sound(m), Watches(m), NEW c, ChainInRange(c), InRange(m, c.tip)
  PROVE  /\ InRange(Cared(m, c), c.tip)
         /\ Cared(m, c).phase = m.phase
         /\ c.tip \notin m.known => HasNext(Cared(m, c), c)
<1> DEFINE g == GotRecent(m, c, Recent)
<1>1. Recent \in Nat /\ 0 \in Nat /\ c \in Chains
  BY MasternodesAssumption DEF ChainInRange
<1>2. Sound(g)
  BY <1>1, GotRecentSound
<1>3. InRange(g, c.tip) /\ g.phase = m.phase /\ (g = m \/ HasNext(g, c))
  BY <1>1, GotRecentHasNext
<1>4. Cared(m, c) = GotRecent(g, c, 0)
  BY DEF Cared
<1> HIDE DEF g
<1> DEFINE d == GotRecent(g, c, 0)
<1>5. /\ InRange(d, c.tip) /\ d.phase = g.phase
      /\ d = g \/ HasNext(d, c)
      /\ c.tip \notin g.known => HasNext(d, c)
  BY <1>1, <1>2, <1>3, GotRecentHasNext
<1> HIDE DEF d
<1> QED
  BY <1>3, <1>4, <1>5 DEF d

\* The end of the sync.
LEMMA SyncFinishedHasNext ==
  ASSUME NEW m, Sound(m), Watches(m), NEW c, ChainInRange(c), InRange(m, c.tip)
  PROVE  /\ InRange(SyncFinished(m, c), c.tip)
         /\ SyncFinished(m, c).phase = "Synced"
<1> DEFINE f == [m EXCEPT !.phase = "Synced"]
<1>1. Sound(f) /\ Watches(f)
  BY PhaseSound DEF Phases
<1>2. f.queue = m.queue /\ f.known = m.known /\ f.phase = "Synced"
  BY DEF Sound, Managers
<1> HIDE DEF f
<1>3. InRange(f, c.tip)
  BY <1>2 DEF InRange
<1> QED
  BY <1>1, <1>2, <1>3, CaredHasNext DEF SyncFinished, f

\* The start of the sync: there are more headers, or the list of the tip is not
\* known, or the lists are there.
LEMMA StartedHasNext ==
  ASSUME NEW m, Sound(m), Watches(m), NEW c, ChainInRange(c), InRange(m, c.tip)
  PROVE  InRange(Started(m, c), c.tip) /\ HasNext(Started(m, c), c)
<1> DEFINE h == [m EXCEPT !.phase = "InitialTerminalBlocks"]
           s == [m EXCEPT !.phase = "ChainSync"]
<1>1. m \in Managers /\ c \in Chains
  BY DEF Sound, ChainInRange
<1>2. Sound(h) /\ Watches(h)
  BY PhaseSound DEF Phases
<1>3. /\ h.queue = m.queue /\ h.known = m.known
      /\ s.queue = m.queue /\ s.known = m.known /\ s.phase = "ChainSync"
  BY <1>1 DEF Managers
<1>4. \/ Started(m, c) = h /\ c.best # c.tip
      \/ /\ Started(m, c) = Cared(h, c)
         /\ m.known \ {0} = {} \/ Highest(m.known) + Behind < c.tip
      \/ Started(m, c) = s
  BY DEF Started
<1> HIDE DEF h, s
<1>t. c.tip \in Nat /\ c.best \in Nat /\ Behind \in Nat
  BY <1>1, MasternodesAssumption DEF Chains, Blocks
<1>5. CASE Started(m, c) = h /\ c.best # c.tip
  <2>1. c.tip < c.best
    BY <1>5, <1>t DEF ChainInRange
  <2> QED
    BY <1>3, <1>5, <2>1 DEF InRange, HasNext
<1>6. CASE /\ Started(m, c) = Cared(h, c)
           /\ m.known \ {0} = {} \/ Highest(m.known) + Behind < c.tip
  <2>1. 0 < c.tip => c.tip \notin h.known
    <3>1. SUFFICES ASSUME 0 < c.tip, c.tip \in m.known
                   PROVE  FALSE
      BY <1>3
    <3>2. m.known \in SUBSET Blocks /\ m.known # {}
      BY <1>1, <3>1 DEF Managers
    <3>3. c.tip <= Highest(m.known) /\ Highest(m.known) \in Nat
      BY <3>1, <3>2, HighestIsOne, MasternodesAssumption DEF Blocks
    <3> QED
      BY <1>6, <1>t, <3>1, <3>3
  <2>2. InRange(h, c.tip)
    BY <1>3 DEF InRange
  <2>3. InRange(Cared(h, c), c.tip) /\ (0 < c.tip => HasNext(Cared(h, c), c))
    BY <1>2, <2>1, <2>2, CaredHasNext
  <2>4. HasNext(Cared(h, c), c)
    BY <2>3 DEF HasNext
  <2> QED
    BY <1>6, <2>3, <2>4
<1>7. CASE Started(m, c) = s
  BY <1>3, <1>7 DEF InRange, HasNext
<1> QED
  BY <1>4, <1>5, <1>6, <1>7

\* An issue asks again, or starts from scratch with the list of the tip.
LEMMA IssueHasNext ==
  ASSUME NEW m, Sound(m), NEW c, ChainInRange(c), InRange(m, c.tip),
         NEW sent \in BOOLEAN, NEW again \in BOOLEAN
  PROVE  /\ InRange(Issue(m, c, sent, again), c.tip)
         /\ HasNext(Issue(m, c, sent, again), c)
<1> DEFINE d       == IF sent THEN Disconnected(m) ELSE m
           dropped == [d EXCEPT !.wanted = TRUE]
           scratch == [dropped EXCEPT !.queue = {}, !.known = {}, !.faulty = 0]
           count   == IF again /\ dropped.faulty > 0 THEN dropped.faulty
                      ELSE dropped.faulty + 1
           noted   == [dropped EXCEPT !.faulty = count]
<1>0. m \in Managers
  BY DEF Sound
<1>1. Sound(d)
  BY DisconnectedSound
<1>f. d.faulty = m.faulty /\ m.faulty \in 0 .. MaxFaultyPeers
  BY DEF Disconnected, Sound, Managers
<1>q. d.queue = m.queue /\ d.known = m.known
  BY <1>0, DisconnectedKeeps
<1>2. Issue(m, c, sent, again)
        = IF m.faulty >= MaxFaultyPeers THEN GotRecent(scratch, c, 0)
          ELSE Dequeued(noted, c)
  BY DEF Issue
<1> HIDE DEF d
<1>3. d \in Managers
  BY <1>1 DEF Sound
<1>4. dropped \in Managers /\ dropped.faulty = m.faulty
  BY <1>3, <1>f DEF Managers
<1>5. /\ dropped.download = d.download /\ dropped.connected = d.connected
      /\ dropped.wire = d.wire /\ dropped.late = d.late
      /\ dropped.inRetrieval = d.inRetrieval /\ dropped.neglected = d.neglected
      /\ dropped.observer = d.observer
      /\ dropped.queue = m.queue /\ dropped.known = m.known
  BY <1>3, <1>q DEF Managers
<1> HIDE DEF dropped
<1>6. Sound(dropped)
  BY <1>1, <1>4, <1>5 DEF Sound
<1>7. CASE m.faulty >= MaxFaultyPeers
  <2>1. 0 \in 0 .. MaxFaultyPeers /\ 0 \in Nat
    BY MasternodesAssumption
  <2>2. scratch \in Managers
    BY <1>4, <2>1 DEF Managers
  <2>3. /\ scratch.download = dropped.download /\ scratch.queue = {}
        /\ scratch.connected = dropped.connected
        /\ scratch.wire = dropped.wire /\ scratch.late = dropped.late
        /\ scratch.inRetrieval = dropped.inRetrieval
        /\ scratch.neglected = dropped.neglected
        /\ scratch.observer = dropped.observer
        /\ scratch.known = {}
    BY <1>4 DEF Managers
  <2> HIDE DEF scratch
  <2>4. Sound(scratch) /\ InRange(scratch, c.tip)
    BY <1>6, <2>2, <2>3 DEF Sound, InRange
  <2>5. c.tip \notin scratch.known
    BY <2>3
  <2> QED
    BY <1>2, <1>7, <2>1, <2>4, <2>5, GotRecentHasNext
<1>8. CASE ~(m.faulty >= MaxFaultyPeers)
  <2>1. count \in 0 .. MaxFaultyPeers
    BY <1>4, <1>f, <1>8, MasternodesAssumption
  <2> HIDE DEF count
  <2>2. noted \in Managers
    BY <1>4, <2>1 DEF Managers
  <2>3. /\ noted.download = dropped.download
        /\ noted.connected = dropped.connected
        /\ noted.wire = dropped.wire /\ noted.late = dropped.late
        /\ noted.inRetrieval = dropped.inRetrieval
        /\ noted.neglected = dropped.neglected
        /\ noted.observer = dropped.observer
        /\ noted.queue = m.queue /\ noted.known = m.known
    BY <1>4, <1>5 DEF Managers
  <2> HIDE DEF noted
  <2>4. Sound(noted) /\ InRange(noted, c.tip)
    BY <1>6, <2>2, <2>3 DEF Sound, InRange
  <2> QED
    BY <1>2, <1>8, <2>4, DequeuedHasNext
<1> QED
  BY <1>7, <1>8

\* An answer that arrives is taken, or is an issue.
LEMMA HandledHasNext ==
  ASSUME NEW m, Sound(m), NEW c, ChainInRange(c), InRange(m, c.tip), HasNext(m, c),
         NEW a \in Answers, NEW sent \in BOOLEAN, NEW again \in BOOLEAN
  PROVE  /\ InRange(Handled(m, c, a, sent, again), c.tip)
         /\ HasNext(Handled(m, c, a, sent, again), c)
<1> DEFINE b    == a.block
           got  == [m EXCEPT !.inRetrieval = @ \ {b}]
           took == [got EXCEPT !.processing = b, !.busy = [answer |-> a, sent |-> sent]]
<1>1. m \in Managers /\ b \in Blocks
  BY DEF Sound, Answers
<1>2. Handled(m, c, a, sent, again) \in {m, got, Issue(got, c, sent, again), took}
  BY DEF Handled
<1>3. got \in Managers
  BY <1>1 DEF Managers
<1>4. /\ got.download = m.download /\ got.connected = m.connected
      /\ got.wire = m.wire /\ got.late = m.late
      /\ got.inRetrieval \subseteq m.inRetrieval /\ got.queue = m.queue
      /\ got.observer = m.observer /\ got.neglected = m.neglected
      /\ got.pending = m.pending /\ got.phase = m.phase /\ got.known = m.known
  BY <1>1 DEF Managers
<1> HIDE DEF got
<1>5. Sound(got) /\ InRange(got, c.tip) /\ HasNext(got, c)
  BY <1>3, <1>4, Untouched, SameKept
<1>6. /\ took.download = got.download /\ took.queue = got.queue
      /\ took.pending = got.pending /\ took.phase = got.phase
      /\ took.known = got.known
  BY <1>3 DEF Managers
<1> HIDE DEF took
<1>7. InRange(took, c.tip) /\ HasNext(took, c)
  BY <1>5, <1>6, SameKept
<1>8. /\ InRange(Issue(got, c, sent, again), c.tip)
      /\ HasNext(Issue(got, c, sent, again), c)
  BY <1>5, IssueHasNext
<1> QED
  BY <1>2, <1>5, <1>7, <1>8

\* An answer to what was wiped asks again for what is queued.
LEMMA WipedMeanwhileHasNext ==
  ASSUME NEW m, Sound(m), NEW c, ChainInRange(c), InRange(m, c.tip)
  PROVE  /\ InRange(WipedMeanwhile(m, c), c.tip)
         /\ HasNext(WipedMeanwhile(m, c), c)
<1> DEFINE n == [m EXCEPT !.inRetrieval = {}]
<1>1. m \in Managers
  BY DEF Sound
<1>2. n \in Managers
  BY <1>1 DEF Managers
<1>3. /\ n.download = m.download /\ n.connected = m.connected
      /\ n.wire = m.wire /\ n.late = m.late /\ n.inRetrieval = {}
      /\ n.observer = m.observer /\ n.neglected = m.neglected
      /\ n.queue = m.queue /\ n.known = m.known
  BY <1>1 DEF Managers
<1> HIDE DEF n
<1>4. Sound(n) /\ InRange(n, c.tip)
  BY <1>2, <1>3, Untouched DEF InRange
<1> QED
  BY <1>4, DequeuedHasNext DEF WipedMeanwhile, n

\* A valid list that was queued is kept, or its quorums' lists are asked for first.
LEMMA ValidHasNext ==
  ASSUME NEW m, Sound(m), NEW c, ChainInRange(c), InRange(m, c.tip), NEW b \in m.queue
  PROVE  InRange(Valid(m, c, b), c.tip) /\ HasNext(Valid(m, c, b), c)
<1> DEFINE needed == {q \in Quorums[b] \cap c.has : q \notin m.known}
           done   == [m EXCEPT !.processing = None]
           k      == Kept(done, {b})
           more   == [done EXCEPT !.queue = @ \cup needed]
           less   == [k EXCEPT !.queue = @ \ {b}, !.faulty = 0]
<1>1. m \in Managers /\ b \in Blocks /\ b \in 0 .. c.tip
  BY DEF Sound, InRange, Managers
<1>2. needed \in SUBSET Blocks /\ needed \subseteq 0 .. c.tip
  BY DEF ChainInRange, Chains
<1>3. Valid(m, c, b) \in {Dequeued(more, c), Dequeued(less, c)}
  BY DEF Valid
<1> HIDE DEF needed
<1>4. done \in Managers
  BY <1>1 DEF Managers
<1>5. /\ done.download = m.download /\ done.connected = m.connected
      /\ done.wire = m.wire /\ done.late = m.late
      /\ done.inRetrieval = m.inRetrieval
      /\ done.observer = m.observer /\ done.neglected = m.neglected
      /\ done.queue = m.queue /\ done.known = m.known
  BY <1>1 DEF Managers
<1> HIDE DEF done
<1>6. Sound(done)
  BY <1>4, <1>5, Untouched
<1>7. Sound(more) /\ InRange(more, c.tip)
  <2>1. more \in Managers
    BY <1>2, <1>4 DEF Managers
  <2>2. /\ more.download = done.download /\ more.connected = done.connected
        /\ more.wire = done.wire /\ more.late = done.late
        /\ more.inRetrieval = done.inRetrieval
        /\ more.observer = done.observer /\ more.neglected = done.neglected
        /\ more.queue = done.queue \cup needed /\ more.known = done.known
    BY <1>4 DEF Managers
  <2> HIDE DEF more
  <2> QED
    BY <1>2, <1>5, <1>6, <2>1, <2>2, Untouched DEF InRange
<1>8. Sound(less) /\ InRange(less, c.tip)
  <2>1. Sound(k) /\ k.queue = m.queue
    BY <1>1, <1>5, <1>6, KeptSound
  <2>2. k \in Managers /\ 0 \in 0 .. MaxFaultyPeers
    BY <2>1, MasternodesAssumption DEF Sound
  <2>3. k.known = m.known \cup {b}
    BY <1>4, <1>5 DEF Kept, Managers
  <2> HIDE DEF k
  <2>4. less \in Managers
    BY <2>2 DEF Managers
  <2>5. /\ less.download = k.download /\ less.connected = k.connected
        /\ less.wire = k.wire /\ less.late = k.late
        /\ less.inRetrieval = k.inRetrieval
        /\ less.observer = k.observer /\ less.neglected = k.neglected
        /\ less.queue \subseteq k.queue /\ less.known = k.known
    BY <2>2 DEF Managers
  <2> HIDE DEF less
  <2> QED
    BY <1>1, <2>1, <2>3, <2>4, <2>5, Untouched DEF InRange
<1> HIDE DEF more, less
<1> QED
  BY <1>3, <1>7, <1>8, DequeuedHasNext

-----------------------------------------------------------------------------
(* The steps.  They are about the chain after the step.                     *)

\* What the chain has is never above its tip, nor the tip above what is known
\* of, and the tip never falls.
LEMMA ChainGrows ==
  ASSUME SyncInv, Next
  PROVE  /\ ChainInRange(chain')
         /\ chain.tip <= chain'.tip
<1>1. chain' \in Chains
  BY ChainTyped DEF SyncInv
<1>2. /\ chain \in Chains /\ chain.has \subseteq 0 .. chain.tip
      /\ chain.tip <= chain.best /\ chain.tip \in Nat /\ chain.best \in Nat
  BY MasternodesAssumption DEF SyncInv, ChainInRange, Chains, Blocks
<1>3. CASE UNCHANGED chain
  BY <1>2, <1>3 DEF ChainInRange
<1>4. CASE PeerConnects
  <2>1. PICK h \in chain.best .. MaxHeight : chain' = [chain EXCEPT !.best = h]
    BY <1>4 DEF PeerConnects
  <2>2. h \in Nat /\ chain.best <= h
    BY <1>2, MasternodesAssumption
  <2>3. chain'.tip = chain.tip /\ chain'.has = chain.has /\ chain'.best = h
    BY <1>2, <2>1 DEF Chains
  <2> QED
    BY <1>1, <1>2, <2>2, <2>3 DEF ChainInRange
<1>5. CASE HeadersArrive
  <2>1. /\ chain'.tip = chain.best /\ chain'.best = chain.best
        /\ chain'.has = chain.has \cup (chain.tip .. chain.best)
    BY <1>2, <1>5 DEF HeadersArrive, Chains
  <2> QED
    BY <1>1, <1>2, <2>1 DEF ChainInRange
<1>6. CASE BlocksArrive
  <2>1. chain'.tip = chain.tip /\ chain'.best = chain.best /\ chain'.has = chain.has
    BY <1>2, <1>6 DEF BlocksArrive, Chains
  <2> QED
    BY <1>1, <1>2, <2>1 DEF ChainInRange
<1>7. CASE BlockArrives
  <2>1. /\ chain'.tip = chain.tip + 1
        /\ chain'.best = IF chain.best < chain.tip + 1 THEN chain.tip + 1 ELSE chain.best
        /\ chain'.has = chain.has \cup {chain.tip + 1}
    BY <1>2, <1>7 DEF BlockArrives, Chains
  <2> QED
    BY <1>1, <1>2, <2>1 DEF ChainInRange
<1>8. CASE BlockForgotten
  <2>1. PICK b \in chain.has :
            \/ chain' = [chain EXCEPT !.terminal = @ \ {b}]
            \/ chain' = [chain EXCEPT !.terminal = @ \ {b}, !.has = @ \ {b}]
    BY <1>8 DEF BlockForgotten
  <2>2. chain'.tip = chain.tip /\ chain'.best = chain.best /\ chain'.has \subseteq chain.has
    BY <1>2, <2>1 DEF Chains
  <2> QED
    BY <1>1, <1>2, <2>2 DEF ChainInRange
<1> QED
  BY <1>3, <1>4, <1>5, <1>6, <1>7, <1>8
     DEF Next, Environment, Arrivals, Store, Application, PeerLost, OthersLost,
         AnswerLost, RunStart, RunDequeue, RunCurrent, ObserverFires, Relayed,
         Processed, Saved, OldRemoved, StartSync, StopSync, WipeMasternodeData,
         RequestList

\* A download peer is chosen: the sync is at its end or will be started.
LEMMA PeerConnectsHasNext ==
  ASSUME SyncInv, PeerConnects
  PROVE  InRange(mn', chain'.tip) /\ HasNext(mn', chain')
<1> DEFINE m == [mn EXCEPT !.download = TRUE, !.connected = TRUE]
           s == [m EXCEPT !.pending = @ \cup {"start"}]
<1>1. /\ Sound(mn) /\ Watches(mn) /\ mn \in Managers
      /\ ChainInRange(chain) /\ InRange(mn, chain.tip)
  BY DEF SyncInv, IInv, Sound
<1>2. mn' = SyncFinished(m, chain) \/ mn' = s
  BY DEF PeerConnects
<1>3. chain'.tip = chain.tip
  BY <1>1 DEF PeerConnects, ChainInRange, Chains
<1>4. m \in Managers
  BY <1>1 DEF Managers
<1>5. /\ m.download /\ m.connected /\ m.late = mn.late
      /\ m.inRetrieval = mn.inRetrieval /\ m.queue = mn.queue
      /\ m.observer = mn.observer /\ m.neglected = mn.neglected
      /\ m.pending = mn.pending /\ m.known = mn.known
  BY <1>1 DEF Managers
<1> HIDE DEF m
<1>6. Sound(m) /\ Watches(m) /\ InRange(m, chain.tip)
  BY <1>1, <1>4, <1>5 DEF Sound, Watches, InRange
<1>7. CASE mn' = SyncFinished(m, chain)
  <2>1. InRange(mn', chain.tip) /\ mn'.phase = "Synced"
    BY <1>1, <1>6, <1>7, SyncFinishedHasNext
  <2> QED
    BY <1>3, <2>1 DEF HasNext
<1>8. CASE mn' = s
  <2>1. s.queue = m.queue /\ s.known = m.known /\ "start" \in s.pending
    BY <1>4 DEF Managers
  <2> HIDE DEF s
  <2> QED
    BY <1>3, <1>6, <1>8, <2>1 DEF InRange, HasNext
<1> QED
  BY <1>2, <1>7, <1>8

\* Peers, answers and blocks are lost: what goes on has a download peer and
\* all blocks.
LEMMA EnvironmentHasNext ==
  ASSUME SyncInv, Environment
  PROVE  InRange(mn', chain'.tip) /\ HasNext(mn', chain')
<1>1. /\ mn \in Managers /\ chain \in Chains
      /\ InRange(mn, chain.tip) /\ HasNext(mn, chain)
  BY DEF SyncInv, IInv, Sound
<1>2. CASE PeerLost
  <2>1. mn' = Disconnected(mn) /\ chain' = chain
    BY <1>2 DEF PeerLost
  <2> QED
    BY <1>1, <2>1, DisconnectedKeeps DEF InRange, HasNext
<1>3. CASE OthersLost
  <2>1. mn' = [mn EXCEPT !.connected = FALSE] /\ chain' = chain
    BY <1>3 DEF OthersLost
  <2>2. /\ mn'.phase = mn.phase /\ mn'.download = mn.download
        /\ mn'.queue = mn.queue /\ mn'.pending = mn.pending /\ mn'.known = mn.known
    BY <1>1, <2>1 DEF Managers
  <2> QED
    BY <1>1, <2>1, <2>2, SameKept
<1>4. CASE AnswerLost
  <2>1. /\ \/ mn' = [mn EXCEPT !.wire = @ \ {First(mn.wire)}]
           \/ mn' = [mn EXCEPT !.late = {}]
        /\ chain' = chain
    BY <1>4 DEF AnswerLost
  <2>2. /\ mn'.phase = mn.phase /\ mn'.download = mn.download
        /\ mn'.queue = mn.queue /\ mn'.pending = mn.pending /\ mn'.known = mn.known
    BY <1>1, <2>1 DEF Managers
  <2> QED
    BY <1>1, <2>1, <2>2, SameKept
<1>5. CASE BlockForgotten
  <2>1. PICK b \in chain.has : /\ 0 < b /\ b + Recent < chain.tip
                               /\ \/ chain' = [chain EXCEPT !.terminal = @ \ {b}]
                                  \/ chain' = [chain EXCEPT !.terminal = @ \ {b},
                                                           !.has = @ \ {b}]
                               /\ mn' = mn
    BY <1>5 DEF BlockForgotten
  <2>2. /\ chain'.tip = chain.tip /\ chain'.best = chain.best
        /\ chain'.has = chain.has \/ chain'.has = chain.has \ {b}
    BY <1>1, <2>1 DEF Chains
  <2>3. b \in Nat /\ chain.tip \in Nat /\ Recent \in Nat
    BY <1>1, MasternodesAssumption DEF Chains, Blocks
  <2>4. chain'.has = chain.has \ {b} => b \in 0 .. chain.tip /\ b \notin chain'.has
    BY <2>1, <2>3
  <2> QED
    BY <1>1, <2>1, <2>2, <2>4 DEF InRange, HasNext
<1> QED
  BY <1>2, <1>3, <1>4, <1>5 DEF Environment

\* Headers and blocks arrive.  The list of a new tip is not known, and it is
\* asked for; in the later phases nothing is claimed.
LEMMA ArrivalsHasNext ==
  ASSUME SyncInv, Arrivals
  PROVE  InRange(mn', chain'.tip) /\ HasNext(mn', chain')
<1>1. /\ Sound(mn) /\ Watches(mn) /\ mn \in Managers /\ chain \in Chains
      /\ InRange(mn, chain.tip)
  BY DEF SyncInv, IInv, Sound
<1>2. ChainInRange(chain') /\ chain.tip <= chain'.tip /\ chain' \in Chains
  BY ChainGrows DEF Next, ChainInRange
<1>t. chain.tip \in Nat /\ chain.best \in Nat /\ chain'.tip \in Nat
  BY <1>1, <1>2, MasternodesAssumption DEF Chains, Blocks
<1>3. InRange(mn, chain'.tip)
  BY <1>1, <1>2, <1>t DEF InRange
<1>4. CASE HeadersArrive
  <2>1. mn' = Cared(mn, chain') /\ chain'.tip = chain.best /\ chain.tip < chain.best
    BY <1>1, <1>4 DEF HeadersArrive, Chains
  <2>2. chain'.tip \notin mn.known
    BY <1>1, <1>t, <2>1 DEF InRange
  <2> QED
    BY <1>1, <1>2, <1>3, <2>1, <2>2, CaredHasNext
<1>5. CASE BlocksArrive
  <2>1. mn' = SyncFinished(mn, chain')
    BY <1>5 DEF BlocksArrive
  <2> QED
    BY <1>1, <1>2, <1>3, <2>1, SyncFinishedHasNext DEF HasNext
<1>6. CASE BlockArrives
  <2> DEFINE n == [mn EXCEPT !.pending = @ \cup {"current"}]
             r == Cared(mn, chain')
  <2>1. \/ mn' = mn \/ mn' = n \/ mn' = r \/ mn' = SyncFinished(r, chain')
    BY <1>6 DEF BlockArrives
  <2>2. mn.phase # "InitialTerminalBlocks"
    BY <1>6 DEF BlockArrives
  <2>3. n.queue = mn.queue /\ n.known = mn.known /\ n.phase = mn.phase
    BY <1>1 DEF Managers
  <2>4. Sound(r) /\ Watches(r) /\ InRange(r, chain'.tip) /\ r.phase = mn.phase
    BY <1>1, <1>2, <1>3, CaredSound, CaredHasNext
  <2> HIDE DEF n, r
  <2>5. /\ InRange(SyncFinished(r, chain'), chain'.tip)
        /\ SyncFinished(r, chain').phase = "Synced"
    BY <1>2, <2>4, SyncFinishedHasNext
  <2>6. InRange(mn', chain'.tip) /\ mn'.phase # "InitialTerminalBlocks"
    BY <1>3, <2>1, <2>2, <2>3, <2>4, <2>5 DEF InRange
  <2> QED
    BY <2>6 DEF HasNext
<1> QED
  BY <1>4, <1>5, <1>6 DEF Arrivals

\* The blocks of the networking queue run.  That which gets the current list
\* does something only if the list of the tip is not known.
LEMMA RunsHasNext ==
  ASSUME SyncInv, RunStart \/ RunDequeue \/ RunCurrent
  PROVE  InRange(mn', chain.tip) /\ HasNext(mn', chain)
<1>1. /\ IInv /\ mn \in Managers /\ ChainInRange(chain)
      /\ InRange(mn, chain.tip) /\ HasNext(mn, chain)
  BY DEF SyncInv, IInv, Sound
<1>2. ASSUME NEW b
      PROVE  /\ Sound(Ran(b)) /\ (b # "dequeue" => Watches(Ran(b)))
             /\ Ran(b).queue = mn.queue /\ Ran(b).known = mn.known
             /\ Ran(b).phase = mn.phase /\ Ran(b).download = mn.download
             /\ Ran(b).pending = mn.pending \ {b}
             /\ InRange(Ran(b), chain.tip)
  <2>1. Sound(Ran(b)) /\ (b # "dequeue" => Watches(Ran(b)))
    BY <1>1, RanSound
  <2>2. /\ Ran(b).queue = mn.queue /\ Ran(b).known = mn.known
        /\ Ran(b).phase = mn.phase /\ Ran(b).download = mn.download
        /\ Ran(b).pending = mn.pending \ {b}
    BY <1>1 DEF Ran, Managers
  <2> QED
    BY <1>1, <2>1, <2>2 DEF InRange
<1>3. CASE RunStart
  BY <1>1, <1>2, <1>3, StartedHasNext DEF RunStart
<1>4. CASE RunDequeue
  BY <1>1, <1>2, <1>4, DequeuedHasNext DEF RunDequeue
<1>5. CASE RunCurrent
  <2> DEFINE m == Ran("current")
             g == GotRecent(m, chain, 0)
  <2>1. mn' = g
    BY <1>5 DEF RunCurrent
  <2>2. /\ Sound(m) /\ InRange(m, chain.tip)
        /\ m.queue = mn.queue /\ m.known = mn.known
        /\ m.phase = mn.phase /\ m.download = mn.download
        /\ m.pending = mn.pending \ {"current"}
    BY <1>2
  <2> HIDE DEF m
  <2>3. /\ InRange(g, chain.tip) /\ (g = m \/ HasNext(g, chain))
        /\ chain.tip \notin m.known => HasNext(g, chain)
    BY <1>1, <2>2, GotRecentHasNext
  <2>4. chain.tip \in m.known => HasNext(m, chain)
    BY <1>1, <2>2 DEF HasNext
  <2> HIDE DEF g
  <2> QED
    BY <2>1, <2>3, <2>4
<1> QED
  BY <1>3, <1>4, <1>5

\* The observer asks again without the download peer, or leaves what is wanted.
LEMMA ObserverFiresHasNext ==
  ASSUME SyncInv, ObserverFires
  PROVE  InRange(mn', chain.tip) /\ HasNext(mn', chain)
<1>1. /\ Sound(mn) /\ mn \in Managers /\ ChainInRange(chain)
      /\ InRange(mn, chain.tip) /\ HasNext(mn, chain)
  BY DEF SyncInv, IInv, Sound
<1>2. CASE mn.queue = {}
  <2>1. mn' = [mn EXCEPT !.observer = None, !.neglected = @ \/ mn.inRetrieval # {}]
    BY <1>2 DEF ObserverFires
  <2>2. /\ mn'.phase = mn.phase /\ mn'.download = mn.download
        /\ mn'.queue = mn.queue /\ mn'.pending = mn.pending /\ mn'.known = mn.known
    BY <1>1, <2>1 DEF Managers
  <2> QED
    BY <1>1, <2>2, SameKept
<1>3. CASE mn.queue # {} /\ ~NothingChanged(mn)
  <2>1. mn' = Observed(mn)
    BY <1>3 DEF ObserverFires
  <2>2. /\ mn'.phase = mn.phase /\ mn'.download = mn.download
        /\ mn'.queue = mn.queue /\ mn'.pending = mn.pending /\ mn'.known = mn.known
    BY <1>1, <2>1 DEF Observed, Managers
  <2> QED
    BY <1>1, <2>2, SameKept
<1>4. CASE mn.queue # {} /\ NothingChanged(mn)
  <2> DEFINE d    == Disconnected(mn)
             gone == [d EXCEPT !.observer = None, !.inRetrieval = {}]
  <2>1. mn' = Dequeued(gone, chain)
    BY <1>4 DEF ObserverFires
  <2>2. Sound(d) /\ d.queue = mn.queue /\ d.known = mn.known
    BY <1>1, DisconnectedSound, DisconnectedKeeps
  <2> HIDE DEF d
  <2>3. d \in Managers
    BY <2>2 DEF Sound
  <2>4. gone \in Managers
    BY <2>3 DEF Managers
  <2>5. /\ gone.download = d.download /\ gone.connected = d.connected
        /\ gone.wire = d.wire /\ gone.late = d.late
        /\ gone.inRetrieval = {}
        /\ gone.queue = d.queue /\ gone.known = d.known
    BY <2>3 DEF Managers
  <2> HIDE DEF gone
  <2>6. Sound(gone) /\ InRange(gone, chain.tip)
    BY <1>1, <2>2, <2>4, <2>5 DEF Sound, InRange
  <2> QED
    BY <1>1, <2>1, <2>6, DequeuedHasNext
<1> QED
  BY <1>2, <1>3, <1>4

\* Answers arrive and are processed.
LEMMA AnswersHasNext ==
  ASSUME SyncInv, Relayed \/ Processed
  PROVE  InRange(mn', chain.tip) /\ HasNext(mn', chain)
<1>1. /\ Sound(mn) /\ mn \in Managers /\ ChainInRange(chain)
      /\ InRange(mn, chain.tip) /\ HasNext(mn, chain)
  BY DEF SyncInv, IInv, Sound
<1>2. CASE Relayed
  <2>1. PICK again \in BOOLEAN :
           \/ /\ mn.wire # {}
              /\ mn' = Handled([mn EXCEPT !.wire = @ \ {First(mn.wire)}], chain,
                               First(mn.wire), TRUE, again)
           \/ \E a \in mn.late :
                 mn' = Handled([mn EXCEPT !.late = {}], chain, a, FALSE, again)
    BY <1>2 DEF Relayed
  <2> DEFINE w == [mn EXCEPT !.wire = @ \ {First(mn.wire)}]
             l == [mn EXCEPT !.late = {}]
  <2>2. w \in Managers /\ l \in Managers
    BY <1>1 DEF Managers
  <2>3. /\ w.download = mn.download /\ w.connected = mn.connected
        /\ w.wire \subseteq mn.wire /\ w.late = mn.late
        /\ w.inRetrieval = mn.inRetrieval /\ w.queue = mn.queue
        /\ w.observer = mn.observer /\ w.neglected = mn.neglected
        /\ w.pending = mn.pending /\ w.phase = mn.phase /\ w.known = mn.known
    BY <1>1 DEF Managers
  <2>4. /\ l.download = mn.download /\ l.connected = mn.connected
        /\ l.wire = mn.wire /\ l.late = {}
        /\ l.inRetrieval = mn.inRetrieval /\ l.queue = mn.queue
        /\ l.observer = mn.observer /\ l.neglected = mn.neglected
        /\ l.pending = mn.pending /\ l.phase = mn.phase /\ l.known = mn.known
    BY <1>1 DEF Managers
  <2> HIDE DEF w, l
  <2>5. Sound(w) /\ InRange(w, chain.tip) /\ HasNext(w, chain)
    BY <1>1, <2>2, <2>3, SameKept DEF Sound
  <2>6. Sound(l) /\ InRange(l, chain.tip) /\ HasNext(l, chain)
    BY <1>1, <2>2, <2>4, OneLate, SameKept DEF Sound
  <2>7. mn.wire \in SUBSET Answers /\ mn.late \in SUBSET Answers
    BY <1>1 DEF Managers
  <2>8. CASE mn.wire # {} /\ mn' = Handled(w, chain, First(mn.wire), TRUE, again)
    BY <1>1, <2>5, <2>7, <2>8, FirstIsOne, HandledHasNext
  <2>9. CASE \E a \in mn.late : mn' = Handled(l, chain, a, FALSE, again)
    BY <1>1, <2>6, <2>7, <2>9, HandledHasNext
  <2> QED
    BY <2>1, <2>8, <2>9 DEF w, l
<1>3. CASE Processed
  <2> DEFINE b    == mn.busy.answer.block
             idle == [mn EXCEPT !.busy = None]
             done == [idle EXCEPT !.processing = None]
  <2>1. mn.busy \in [answer : Answers, sent : BOOLEAN]
    BY <1>1, <1>3 DEF Processed, Managers
  <2>2. mn.busy.sent \in BOOLEAN
    BY <2>1
  <2>3. \/ mn' = idle \/ mn' = WipedMeanwhile(idle, chain)
        \/ b \in mn.queue /\ mn' = Valid(idle, chain, b)
        \/ \E again \in BOOLEAN : mn' = Issue(done, chain, mn.busy.sent, again)
    BY <1>3 DEF Processed
  <2> HIDE DEF b
  <2>4. idle \in Managers
    BY <1>1 DEF Managers
  <2>5. /\ idle.download = mn.download /\ idle.connected = mn.connected
        /\ idle.wire = mn.wire /\ idle.late = mn.late
        /\ idle.inRetrieval = mn.inRetrieval /\ idle.queue = mn.queue
        /\ idle.observer = mn.observer /\ idle.neglected = mn.neglected
        /\ idle.pending = mn.pending /\ idle.phase = mn.phase
        /\ idle.known = mn.known
    BY <1>1 DEF Managers
  <2> HIDE DEF idle
  <2>6. Sound(idle) /\ InRange(idle, chain.tip) /\ HasNext(idle, chain)
    BY <1>1, <2>4, <2>5, Untouched, SameKept
  <2>7. done \in Managers
    BY <2>4 DEF Managers
  <2>8. /\ done.download = idle.download /\ done.connected = idle.connected
        /\ done.wire = idle.wire /\ done.late = idle.late
        /\ done.inRetrieval = idle.inRetrieval
        /\ done.observer = idle.observer /\ done.neglected = idle.neglected
        /\ done.queue = idle.queue /\ done.known = idle.known
    BY <2>4 DEF Managers
  <2> HIDE DEF done
  <2>9. Sound(done) /\ InRange(done, chain.tip)
    BY <2>6, <2>7, <2>8, Untouched DEF InRange
  <2> QED
    BY <1>1, <2>2, <2>3, <2>5, <2>6, <2>9, WipedMeanwhileHasNext, ValidHasNext,
       IssueHasNext
<1> QED
  BY <1>2, <1>3

\* The store wipes lists only with a block that will get the current one, and
\* what it removes was not to be waited for.
LEMMA StoreHasNext ==
  ASSUME SyncInv, Store
  PROVE  InRange(mn', chain.tip) /\ HasNext(mn', chain)
<1>1. mn \in Managers /\ InRange(mn, chain.tip) /\ HasNext(mn, chain)
  BY DEF SyncInv, IInv, Sound
<1>2. CASE Saved
  <2>1. PICK more \in BOOLEAN :
           mn' \in {[mn EXCEPT !.saving = more],
                    [Wiped([mn EXCEPT !.saving = more]) EXCEPT
                        !.pending = @ \cup {"current"}]}
    BY <1>2 DEF Saved
  <2> DEFINE s == [mn EXCEPT !.saving = more]
             w == Wiped(s)
             n == [w EXCEPT !.pending = @ \cup {"current"}]
  <2>2. /\ s.phase = mn.phase /\ s.download = mn.download
        /\ s.queue = mn.queue /\ s.pending = mn.pending /\ s.known = mn.known
        /\ s \in Managers
    BY <1>1 DEF Managers
  <2>3. mn' = s \/ mn' = n
    BY <2>1
  <2> HIDE DEF s
  <2>4. w.known = {} /\ w.queue = {} /\ w \in Managers
    BY <2>2 DEF Wiped, Managers
  <2> HIDE DEF w
  <2>5. n.known = {} /\ n.queue = {} /\ "current" \in n.pending
    BY <2>4 DEF Managers
  <2> HIDE DEF n
  <2>6. InRange(n, chain.tip) /\ HasNext(n, chain)
    BY <2>5 DEF InRange, HasNext
  <2> QED
    BY <1>1, <2>2, <2>3, <2>6, SameKept
<1>3. CASE OldRemoved
  <2>1. PICK old : mn' = [mn EXCEPT !.known = @ \ old, !.removing = FALSE]
    BY <1>3 DEF OldRemoved
  <2>2. /\ mn'.phase = mn.phase /\ mn'.download = mn.download
        /\ mn'.queue = mn.queue /\ mn'.pending = mn.pending
        /\ mn'.known \subseteq mn.known
    BY <1>1, <2>1 DEF Managers
  <2> QED
    BY <1>1, <2>2, SameKept
<1> QED
  BY <1>2, <1>3 DEF Store

\* The application starts nothing that is not waited for.
LEMMA ApplicationHasNext ==
  ASSUME SyncInv, Application
  PROVE  InRange(mn', chain.tip) /\ HasNext(mn', chain)
<1>1. /\ Sound(mn) /\ mn \in Managers /\ chain \in Chains /\ ChainInRange(chain)
      /\ InRange(mn, chain.tip) /\ HasNext(mn, chain)
  BY DEF SyncInv, IInv, Sound
<1> DEFINE a == AllDisconnected(mn)
           o == [a EXCEPT !.phase = "Offline"]
<1>2. o \in Managers /\ o.queue = mn.queue /\ o.known = mn.known /\ o.phase = "Offline"
  <2> DEFINE d == Disconnected(mn)
  <2>1. a = [d EXCEPT !.connected = FALSE, !.wanted = FALSE]
    BY DEF AllDisconnected
  <2>2. d \in Managers /\ d.queue = mn.queue /\ d.known = mn.known
    BY <1>1, DisconnectedSound, DisconnectedKeeps DEF Sound
  <2> HIDE DEF d, a
  <2>3. a \in Managers /\ a.queue = mn.queue /\ a.known = mn.known
    BY <2>1, <2>2 DEF Managers
  <2> QED
    BY <2>3 DEF Managers, Phases
<1>3. CASE StartSync
  <2>1. mn' = [mn EXCEPT !.wanted = TRUE]
    BY <1>3 DEF StartSync
  <2>2. /\ mn'.phase = mn.phase /\ mn'.download = mn.download
        /\ mn'.queue = mn.queue /\ mn'.pending = mn.pending /\ mn'.known = mn.known
    BY <1>1, <2>1 DEF Managers
  <2> QED
    BY <1>1, <2>2, SameKept
<1>4. CASE StopSync
  <2>1. mn' = o
    BY <1>4 DEF StopSync
  <2> HIDE DEF o
  <2> QED
    BY <1>1, <1>2, <2>1 DEF InRange, HasNext
<1>5. CASE WipeMasternodeData
  <2>1. mn' = Wiped(o)
    BY <1>5 DEF WipeMasternodeData
  <2> HIDE DEF o
  <2>2. Wiped(o).queue = {} /\ Wiped(o).known = {} /\ Wiped(o).phase = "Offline"
    BY <1>2 DEF Wiped, Managers
  <2> QED
    BY <2>1, <2>2 DEF InRange, HasNext
<1>6. CASE RequestList
  <2>1. PICK b \in chain.has : mn' = Dequeued([mn EXCEPT !.lastQueried = b,
                                                         !.queried = @ \cup {b},
                                                         !.queue = @ \cup {b}], chain)
    BY <1>6 DEF RequestList
  <2> DEFINE n == [mn EXCEPT !.lastQueried = b, !.queried = @ \cup {b},
                             !.queue = @ \cup {b}]
  <2>2. b \in Blocks /\ b \in 0 .. chain.tip
    BY <1>1 DEF Chains, ChainInRange
  <2>3. n \in Managers
    BY <1>1, <2>2 DEF Managers
  <2>4. /\ n.download = mn.download /\ n.connected = mn.connected
        /\ n.wire = mn.wire /\ n.late = mn.late
        /\ n.inRetrieval = mn.inRetrieval
        /\ n.observer = mn.observer /\ n.neglected = mn.neglected
        /\ n.queue = mn.queue \cup {b} /\ n.known = mn.known
    BY <1>1 DEF Managers
  <2> HIDE DEF n
  <2>5. Sound(n) /\ InRange(n, chain.tip)
    BY <1>1, <2>2, <2>3, <2>4, Untouched DEF InRange
  <2> QED
    BY <1>1, <2>1, <2>5, DequeuedHasNext DEF n
<1> QED
  BY <1>3, <1>4, <1>5, <1>6 DEF Application

\* At the start nothing is known above the first tip, and the manager is offline.
LEMMA InitHasNext == Init => SyncInv
<1> SUFFICES ASSUME Init
             PROVE  SyncInv
  OBVIOUS
<1>1. FirstTip \in Nat
  BY MasternodesAssumption DEF Blocks
<1>2. IInv
  BY InitCorrect
<1>3. mn.queue = {} /\ mn.known \subseteq {FirstTip} /\ mn.phase = "Offline"
  BY DEF Init
<1>4. chain.tip = FirstTip /\ chain.best = FirstTip /\ chain.has = 0 .. FirstTip
  BY DEF Init
<1>5. ChainInRange(chain)
  BY <1>1, <1>2, <1>4 DEF ChainInRange, IInv
<1> QED
  BY <1>1, <1>2, <1>3, <1>4, <1>5 DEF SyncInv, InRange, HasNext

\* Every step leaves the sync something to wait for.
LEMMA StepHasNext == SyncInv /\ [Next]_vars => SyncInv'
<1> SUFFICES ASSUME SyncInv, [Next]_vars
             PROVE  SyncInv'
  OBVIOUS
<1>1. CASE Next
  <2>1. IInv'
    BY <1>1, StepCorrect DEF SyncInv
  <2>2. ChainInRange(chain')
    BY <1>1, ChainGrows
  <2>3. InRange(mn', chain'.tip) /\ HasNext(mn', chain')
    <3>1. CASE PeerConnects \/ Environment \/ Arrivals
      BY <3>1, PeerConnectsHasNext, EnvironmentHasNext, ArrivalsHasNext
    <3>2. CASE \/ RunStart \/ RunDequeue \/ RunCurrent \/ ObserverFires
               \/ Relayed \/ Processed \/ Store \/ Application
      <4>1. chain' = chain
        BY <3>2 DEF RunStart, RunDequeue, RunCurrent, ObserverFires, Relayed, Processed,
           Store, Application, Saved, OldRemoved, StartSync, StopSync,
           WipeMasternodeData, RequestList
      <4>2. InRange(mn', chain.tip) /\ HasNext(mn', chain)
        BY <3>2, RunsHasNext, ObserverFiresHasNext, AnswersHasNext, StoreHasNext,
           ApplicationHasNext
      <4> QED
        BY <4>1, <4>2
    <3> QED
      BY <1>1, <3>1, <3>2 DEF Next
  <2> QED
    BY <2>1, <2>2, <2>3 DEF SyncInv, ChainInRange, InRange, HasNext
<1>2. CASE UNCHANGED vars
  BY <1>2 DEF SyncInv, IInv, ChainInRange, InRange, HasNext, vars
<1> QED
  BY <1>1, <1>2

\* In every reachable state in which headers and lists are fetched from a
\* connected peer and no block is missing, something is under way: wanted
\* lists, more headers, a start, a dequeue or the current list that is to be
\* got; for every chain, assignment of quorums and bound, whatever is lost,
\* wiped, found invalid or answered late.
THEOREM SyncIsNotStuck == Spec => []SyncHasNext
<1>1. SyncInv => SyncHasNext
  BY DEF SyncInv, HasNext, SyncHasNext
<1> QED
  BY <1>1, InitHasNext, StepHasNext, PTL DEF Spec

=============================================================================
