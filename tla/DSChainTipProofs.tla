--------------------------- MODULE DSChainTipProofs ---------------------------
(***************************************************************************)
(* What trimming, reorganisations and chain locks leave of the two chains: *)
(* theorems about DSChain that rest on how the blocks are linked.          *)
(***************************************************************************)
EXTENDS DSChainProofs, WellFoundedInduction

-----------------------------------------------------------------------------
(* The tree of blocks *)

\* A set of natural numbers has a least one.
LEMMA LeastNat == \A T \in SUBSET Nat : T # {} => \E n \in T : \A m \in T : n <= m
<1> DEFINE R == {ss \in Nat \X Nat : ss[1] < ss[2]}
<1>1. IsWellFoundedOn(R, Nat)
  BY NatLessThanWellFounded DEF OpToRel
<1>2. ASSUME NEW T \in SUBSET Nat, T # {}
      PROVE  \E n \in T : \A m \in T : n <= m
  <2> HIDE DEF R
  <2>1. PICK n \in T : \A m \in T : <<m, n>> \notin R
    BY <1>1, <1>2, WFMin, Zenon
  <2>2. \A m \in T : ~(m < n)
    BY <2>1 DEF R
  <2>3. QED
    BY <2>2
<1>3. QED
  BY <1>2

\* A set of blocks has a lowest one: what holds of a block when it holds of the
\* blocks below it holds of every block.
LEMMA LowestBlock ==
  ASSUME NEW S \in SUBSET Blocks, S # {}
  PROVE  \E x \in S : \A y \in S : Height[x] <= Height[y]
<1> DEFINE T == {Height[x] : x \in S}
<1>1. T \in SUBSET Nat /\ T # {}
  BY TreeAssumption DEF TreeAssumption
<1> HIDE DEF T
<1>2. PICK n \in T : \A m \in T : n <= m
  BY <1>1, LeastNat
<1>3. QED
  BY <1>2 DEF T

\* What the hash link of a block says.
LEMMA ParentFacts ==
  ASSUME NEW b \in Blocks
  PROVE  /\ Height[b] \in Nat \ {0} /\ Anc[b] \in SUBSET Blocks /\ b \in Anc[b]
         /\ b # Genesis => /\ Parent[b] \in Blocks /\ Parent[b] # b
                           /\ Height[Parent[b]] = Height[b] - 1
                           /\ Parent[b] \in Anc[b] /\ Parent[b] \in Anc[Parent[b]]
                           /\ Anc[b] = {b} \cup Anc[Parent[b]]
<1>1. /\ Height[b] \in Nat \ {0} /\ Anc[b] \in SUBSET Blocks
  BY TreeAssumption DEF TreeAssumption
<1>2. ASSUME NEW x \in Blocks PROVE x \in Anc[x]
  BY TreeAssumption DEF TreeAssumption
<1>3. CASE b # Genesis
  <2>1. /\ Parent[b] \in Blocks /\ Height[b] = Height[Parent[b]] + 1
        /\ Anc[b] = {b} \cup Anc[Parent[b]] /\ Height[Parent[b]] \in Nat
    BY <1>3, TreeAssumption DEF TreeAssumption
  <2>2. QED
    BY <1>1, <1>2, <2>1
<1>4. QED
  BY <1>1, <1>2, <1>3

\* The other ancestors of a block are those of its parent, and lower.
LEMMA AncestorsLower ==
  ASSUME NEW b \in Blocks, NEW x \in Anc[b]
  PROVE  x = b \/ (b # Genesis /\ x \in Anc[Parent[b]] /\ Height[x] < Height[b])
<1> DEFINE Good(c) == \A y \in Anc[c] :
                        y = c \/ (c # Genesis /\ y \in Anc[Parent[c]] /\ Height[y] < Height[c])
           S == {c \in Blocks : ~Good(c)}
<1>1. SUFFICES ASSUME S # {} PROVE FALSE
  OBVIOUS
<1>2. PICK c \in S : \A d \in S : Height[c] <= Height[d]
  <2> HIDE DEF S
  <2>1. S \in SUBSET Blocks
    BY DEF S
  <2>2. QED
    BY <1>1, <2>1, LowestBlock
<1>3. CASE c = Genesis
  BY <1>3, TreeAssumption DEF TreeAssumption
<1>4. CASE c # Genesis
  <2>1. /\ Parent[c] \in Blocks /\ Height[Parent[c]] = Height[c] - 1 /\ Height[c] \in Nat
        /\ Anc[c] = {c} \cup Anc[Parent[c]] /\ Height[Parent[c]] \in Nat
    BY <1>4, ParentFacts
  <2>2. Parent[c] \notin S
    BY <1>2, <2>1
  <2>3. \A y \in Anc[Parent[c]] : y = Parent[c] \/ Height[y] < Height[Parent[c]]
    BY <2>1, <2>2
  <2>4. \A y \in Anc[Parent[c]] : y \in Blocks /\ Height[y] \in Nat
    BY <2>1, TreeAssumption DEF TreeAssumption
  <2>5. Good(c)
    BY <1>4, <2>1, <2>3, <2>4
  <2>6. QED
    BY <1>2, <2>5
<1>5. QED
  BY <1>3, <1>4

\* Ancestors of ancestors are ancestors.
LEMMA AncestorsTransitive ==
  ASSUME NEW b \in Blocks, NEW y \in Anc[b]
  PROVE  Anc[y] \subseteq Anc[b]
<1> DEFINE S == {c \in Blocks : \E z \in Anc[c] : ~(Anc[z] \subseteq Anc[c])}
<1>1. SUFFICES ASSUME S # {} PROVE FALSE
  OBVIOUS
<1>2. PICK c \in S : \A d \in S : Height[c] <= Height[d]
  <2> HIDE DEF S
  <2>1. S \in SUBSET Blocks
    BY DEF S
  <2>2. QED
    BY <1>1, <2>1, LowestBlock
<1>3. PICK z \in Anc[c] : ~(Anc[z] \subseteq Anc[c])
  BY <1>2
<1>4. c # Genesis /\ z \in Anc[Parent[c]]
  BY <1>2, <1>3, AncestorsLower
<1>5. /\ Parent[c] \in Blocks /\ Height[Parent[c]] = Height[c] - 1 /\ Height[c] \in Nat
      /\ Anc[c] = {c} \cup Anc[Parent[c]] /\ Height[Parent[c]] \in Nat
  BY <1>2, <1>4, ParentFacts
<1>6. Parent[c] \notin S
  BY <1>2, <1>5
<1>7. QED
  BY <1>3, <1>4, <1>5, <1>6

\* The ancestors of a block stand above one another.
LEMMA AncestorsOrdered ==
  ASSUME NEW b \in Blocks, NEW x \in Anc[b], NEW y \in Anc[b], Height[x] <= Height[y]
  PROVE  x \in Anc[y]
<1> DEFINE S == {c \in Blocks : \E v, w \in Anc[c] : Height[v] <= Height[w] /\ v \notin Anc[w]}
<1>1. SUFFICES ASSUME S # {} PROVE FALSE
  OBVIOUS
<1>2. PICK c \in S : \A d \in S : Height[c] <= Height[d]
  <2> HIDE DEF S
  <2>1. S \in SUBSET Blocks
    BY DEF S
  <2>2. QED
    BY <1>1, <2>1, LowestBlock
<1>3. PICK v \in Anc[c], w \in Anc[c] : Height[v] <= Height[w] /\ v \notin Anc[w]
  BY <1>2
<1>4. v \in Blocks /\ w \in Blocks /\ Height[v] \in Nat /\ Height[w] \in Nat /\ Height[c] \in Nat
  BY <1>2, <1>3, ParentFacts, TreeAssumption DEF TreeAssumption
<1>5. w # c
  BY <1>3
<1>6. c # Genesis /\ w \in Anc[Parent[c]] /\ Height[w] < Height[c]
  BY <1>2, <1>3, <1>5, AncestorsLower
<1>7. v # c
  BY <1>3, <1>4, <1>6
<1>8. v \in Anc[Parent[c]]
  BY <1>2, <1>3, <1>7, AncestorsLower
<1>9. /\ Parent[c] \in Blocks /\ Height[Parent[c]] = Height[c] - 1
      /\ Height[Parent[c]] \in Nat
  BY <1>2, <1>6, ParentFacts
<1>10. Parent[c] \notin S
  BY <1>2, <1>4, <1>9
<1>11. QED
  BY <1>3, <1>6, <1>8, <1>9, <1>10

\* At most one ancestor stands at a height.
LEMMA AncestorsDistinct ==
  ASSUME NEW b \in Blocks, NEW x \in Anc[b], NEW y \in Anc[b], Height[x] = Height[y]
  PROVE  x = y
<1>1. x \in Blocks /\ y \in Blocks
  BY ParentFacts
<1>2. Height[x] \in Nat /\ Height[y] \in Nat
  BY <1>1, ParentFacts
<1>3. x \in Anc[y]
  BY <1>2, AncestorsOrdered
<1>4. QED
  BY <1>1, <1>2, <1>3, AncestorsLower

\* One stands at every height between a block and an ancestor of it.
LEMMA AncestorAt ==
  ASSUME NEW b \in Blocks, NEW x \in Anc[b], NEW h \in Height[x] .. Height[b]
  PROVE  \E y \in Anc[b] : Height[y] = h
<1> DEFINE S == {y \in Anc[b] : Height[y] >= h}
<1>1. x \in Blocks /\ Anc[b] \subseteq Blocks /\ b \in Anc[b]
  BY ParentFacts
<1>2. Height[b] \in Nat /\ Height[x] \in Nat
  BY <1>1, ParentFacts
<1>3. S \in SUBSET Blocks /\ b \in S
  BY <1>1, <1>2
<1>4. PICK y \in S : \A z \in S : Height[y] <= Height[z]
  <2> HIDE DEF S
  <2>1. QED
    BY <1>3, LowestBlock
<1>5. y \in Anc[b] /\ y \in Blocks /\ Height[y] >= h /\ Height[y] \in Nat
  BY <1>1, <1>4, ParentFacts
<1>6. SUFFICES ASSUME Height[y] # h PROVE FALSE
  BY <1>5
<1>7. Height[x] < Height[y]
  BY <1>2, <1>5, <1>6
<1>8. x \in Anc[y] /\ x # y
  BY <1>2, <1>5, <1>7, AncestorsOrdered
<1>9. y # Genesis
  BY <1>5, <1>8, AncestorsLower
<1>10. Parent[y] \in Anc[y] /\ Height[Parent[y]] = Height[y] - 1
  BY <1>5, <1>9, ParentFacts
<1>11. Parent[y] \in Anc[b]
  BY <1>5, <1>10, AncestorsTransitive
<1>12. Parent[y] \in S
  BY <1>2, <1>5, <1>6, <1>10, <1>11
<1>13. QED
  BY <1>4, <1>5, <1>10, <1>12

\* Work adds up along the links.
LEMMA AncestorsLighter ==
  ASSUME NEW b \in Blocks, NEW x \in Anc[b]
  PROVE  x = b \/ Work[x] < Work[b]
<1> DEFINE S == {c \in Blocks : \E y \in Anc[c] : y # c /\ ~(Work[y] < Work[c])}
<1>1. SUFFICES ASSUME S # {} PROVE FALSE
  OBVIOUS
<1>2. PICK c \in S : \A d \in S : Height[c] <= Height[d]
  <2> HIDE DEF S
  <2>1. S \in SUBSET Blocks
    BY DEF S
  <2>2. QED
    BY <1>1, <2>1, LowestBlock
<1>3. PICK y \in Anc[c] : y # c /\ ~(Work[y] < Work[c])
  BY <1>2
<1>4. c # Genesis /\ y \in Anc[Parent[c]]
  BY <1>2, <1>3, AncestorsLower
<1>5. /\ Parent[c] \in Blocks /\ Height[Parent[c]] = Height[c] - 1 /\ Height[c] \in Nat
      /\ Height[Parent[c]] \in Nat
  BY <1>2, <1>4, ParentFacts
<1>6. Parent[c] \notin S
  BY <1>2, <1>5
<1>7. y \in Blocks /\ Work[Parent[c]] < Work[c]
  BY <1>2, <1>3, <1>4, ParentFacts, TreeAssumption DEF TreeAssumption
<1>8. Work[y] \in Nat /\ Work[c] \in Nat /\ Work[Parent[c]] \in Nat
  BY <1>2, <1>5, <1>7, TreeAssumption DEF TreeAssumption
<1>9. QED
  BY <1>3, <1>4, <1>5, <1>6, <1>7, <1>8

\* On the way from a block down to an ancestor the last turn comes from a child of it.
LEMMA ChildBetween ==
  ASSUME NEW b \in Blocks, NEW x \in Anc[b], x # b
  PROVE  \E c \in Anc[b] \ {Genesis} : Parent[c] = x
<1> DEFINE S == {c \in Anc[b] : x \in Anc[c] /\ c # x}
<1>1. S \in SUBSET Blocks /\ b \in S /\ Anc[b] \subseteq Blocks
  BY ParentFacts
<1>2. PICK c \in S : \A d \in S : Height[c] <= Height[d]
  <2> HIDE DEF S
  <2>1. QED
    BY <1>1, LowestBlock
<1>3. c \in Blocks /\ c # Genesis /\ x \in Anc[Parent[c]]
  BY <1>1, <1>2, AncestorsLower
<1>4. Parent[c] \in Anc[c] /\ Height[Parent[c]] < Height[c]
  BY <1>3, ParentFacts
<1>5. Parent[c] \in Anc[b]
  BY <1>1, <1>2, <1>4, AncestorsTransitive
<1>6. Height[c] \in Nat /\ Height[Parent[c]] \in Nat
  BY <1>3, ParentFacts
<1>7. Parent[c] \notin S
  BY <1>2, <1>4, <1>6
<1>8. QED
  BY <1>2, <1>3, <1>5, <1>7

-----------------------------------------------------------------------------
(* Trimming *)

\* What a walk down a dictionary has passed through.
LEMMA BelowFacts ==
  ASSUME NEW m, NEW b \in Blocks, NEW x \in Below(m, b)
  PROVE  /\ b # Genesis /\ x \in Blocks /\ x \in DOMAIN m /\ x \in Anc[b] /\ x # b
         /\ x \in Anc[Parent[b]] /\ Height[x] < Height[b]
         /\ \A y \in Anc[b] \ {b} : Height[y] > Height[x] => y \in DOMAIN m /\ m[y].linked
<1>1. x \in Anc[b] /\ x # b /\ x \in DOMAIN m
  BY DEF Below
<1>2. x \in Blocks
  BY <1>1, ParentFacts
<1>3. QED
  BY <1>1, <1>2, AncestorsLower DEF Below

\* Below what is shed, the dictionary keeps the parent of the block that sheds it.
LEMMA DeepFacts ==
  ASSUME NEW m, NEW b \in Blocks, NEW keep \in Nat \ {0, 1}, NEW x \in Deep(m, b, keep)
  PROVE  /\ b # Genesis /\ x \in Blocks /\ x \in DOMAIN m /\ x # b
         /\ Parent[b] \in DOMAIN m \ Deep(m, b, keep) /\ m[Parent[b]].linked
         /\ x \in Anc[Parent[b]] /\ Height[Parent[b]] >= Height[x] + keep - 1
         /\ \E c \in DOMAIN m \ {Genesis} : Parent[c] = x /\ m[c].linked
<1>1. x \in Below(m, b) /\ Height[x] <= Height[b] - keep
  BY DEF Deep
<1>2. /\ b # Genesis /\ x \in Blocks /\ x \in DOMAIN m /\ x \in Anc[b] /\ x # b
      /\ x \in Anc[Parent[b]]
      /\ \A y \in Anc[b] \ {b} : Height[y] > Height[x] => y \in DOMAIN m /\ m[y].linked
  BY <1>1, BelowFacts
<1>3. /\ Height[b] \in Nat /\ Height[x] \in Nat /\ Parent[b] \in Anc[b] \ {b}
      /\ Height[Parent[b]] = Height[b] - 1
  BY <1>2, ParentFacts
<1>4. Height[Parent[b]] > Height[x] /\ Height[Parent[b]] >= Height[x] + keep - 1
  BY <1>1, <1>3
<1>5. Parent[b] \notin Deep(m, b, keep)
  BY <1>3 DEF Deep
<1>6. PICK c \in Anc[b] \ {Genesis} : Parent[c] = x
  BY <1>2, ChildBetween
<1>7. c \in Blocks
  BY ParentFacts
<1>8. Height[x] = Height[c] - 1 /\ Height[c] \in Nat
  BY <1>6, <1>7, ParentFacts
<1>9. c # b /\ Height[c] > Height[x]
  BY <1>1, <1>3, <1>8
<1>10. c \in DOMAIN m /\ m[c].linked
  BY <1>2, <1>6, <1>9
<1>11. QED
  BY <1>2, <1>3, <1>4, <1>5, <1>6, <1>10

\* What either dictionary may become when b is added: what it was, or that trimmed.
TrimmedBy(m, b, keep) == {m, Remove(m, Deep(m, b, keep))}

\* Trimming buries what it removes, and buries again what was buried before.
LEMMA TrimmingBuries ==
  ASSUME NEW m, NEW b \in Blocks, NEW keep \in Nat \ {0, 1}, NEW kept \in TrimmedBy(m, b, keep)
  PROVE  /\ DOMAIN kept \subseteq DOMAIN m /\ \A x \in DOMAIN kept : kept[x] = m[x]
         /\ b \in DOMAIN m => b \in DOMAIN kept
         /\ \A x \in DOMAIN m \ DOMAIN kept :
              /\ Buried(kept, x, keep)
              /\ \E c \in DOMAIN m \ {Genesis} : Parent[c] = x /\ m[c].linked
         /\ \A x \in Blocks : Buried(m, x, keep) => Buried(kept, x, keep)
<1> DEFINE rest == Remove(m, Deep(m, b, keep))
<1>1. DOMAIN rest = DOMAIN m \ Deep(m, b, keep) /\ \A x \in DOMAIN rest : rest[x] = m[x]
  BY DEF Remove
<1>2. CASE kept = m
  BY <1>2
<1>3. CASE kept = rest
  <2>1. \A x \in DOMAIN m \ DOMAIN kept : x \in Deep(m, b, keep)
    BY <1>1, <1>3
  <2> HIDE DEF rest
  <2>2. ASSUME NEW x \in Deep(m, b, keep)
        PROVE  Buried(kept, x, keep)
    <3>1. /\ Parent[b] \in DOMAIN kept /\ kept[Parent[b]].linked
          /\ x \in Anc[Parent[b]] /\ Height[Parent[b]] >= Height[x] + keep - 1
      BY <1>1, <1>3, DeepFacts
    <3>2. QED
      BY <3>1 DEF Buried
  <2>3. ASSUME NEW x \in Blocks, Buried(m, x, keep)
        PROVE  Buried(kept, x, keep)
    <3>1. PICK y \in DOMAIN m : m[y].linked /\ x \in Anc[y] /\ Height[y] >= Height[x] + keep - 1
      BY <2>3 DEF Buried
    <3>2. CASE y \in DOMAIN kept
      BY <1>1, <1>3, <3>1, <3>2 DEF Buried
    <3>3. CASE y \notin DOMAIN kept
      <4>1. y \in Deep(m, b, keep)
        BY <2>1, <3>3
      <4>2. /\ b # Genesis /\ y \in Blocks
            /\ Parent[b] \in DOMAIN kept /\ kept[Parent[b]].linked
            /\ y \in Anc[Parent[b]] /\ Height[Parent[b]] >= Height[y] + keep - 1
        BY <1>1, <1>3, <4>1, DeepFacts
      <4>3. Parent[b] \in Blocks /\ Height[Parent[b]] \in Nat /\ Height[y] \in Nat /\ Height[x] \in Nat
        BY <4>2, ParentFacts
      <4>4. x \in Anc[Parent[b]]
        BY <3>1, <4>2, <4>3, AncestorsTransitive
      <4>5. Height[Parent[b]] >= Height[x] + keep - 1
        BY <3>1, <4>2, <4>3
      <4>6. QED
        BY <4>2, <4>4, <4>5 DEF Buried
    <3>4. QED
      BY <3>2, <3>3
  <2>4. b \notin Deep(m, b, keep)
    BY DeepFacts
  <2>5. QED
    BY <1>1, <1>3, <2>1, <2>2, <2>3, <2>4, DeepFacts
<1>4. QED
  BY <1>2, <1>3 DEF TrimmedBy

\* What is buried stays so when an object that has a previous hash is put.
LEMMA PuttingBuries ==
  ASSUME NEW m, NEW b, NEW o, o.linked, NEW x, NEW keep, Buried(m, x, keep)
  PROVE  Buried(Put(m, b, o), x, keep)
BY DEF Buried, Put

\* Setting a lock leaves the links of a dictionary as they are.
LEMMA SetLockLinks ==
  ASSUME NEW m, IsDictionary(m), NEW b \in Blocks, NEW verified \in BOOLEAN
  PROVE  /\ DOMAIN SetLock(m, b, verified) = DOMAIN m
         /\ \A x \in DOMAIN m : SetLock(m, b, verified)[x].linked = m[x].linked
BY DEF IsDictionary, SetLock, Objects

-----------------------------------------------------------------------------
(* What addBlock does to the dictionaries and the tips together *)

\* The object that inherits a lock has the previous hash it had.
LEMMA WithLockLinked ==
  ASSUME NEW b, NEW o \in Objects, o.linked
  PROVE  WithLock(b, o).linked
BY DEF WithLock, Objects

\* Either dictionary is trimmed, or left as it was.
LEMMA TrimmedKinds ==
  ASSUME NEW b
  PROVE  /\ TrimmedTerminal(b) \in TrimmedBy(mTerminalBlocks, b, KeepTerminal)
         /\ TrimmedSync(b) \in TrimmedBy(mSyncBlocks, b, KeepSync)
         /\ mTerminalBlocks \in TrimmedBy(mTerminalBlocks, b, KeepTerminal)
         /\ mSyncBlocks \in TrimmedBy(mSyncBlocks, b, KeepSync)
BY DEF TrimmedTerminal, TrimmedSync, TrimmedBy

\* addBlock makes a tip of the block it was called for once it has put it in
\* mSyncBlocks, above a block it knows, above the tip, or where it already was.
LEMMA AddBlockSync ==
  ASSUME NEW b \in Blocks, NEW o \in Objects, o.linked, NEW peer, NEW rest,
         AddBlock(b, o, peer, rest)
  PROVE  \E kept \in TrimmedBy(mSyncBlocks, b, KeepSync), added \in {WithLock(b, o)} :
           /\ added.linked
           /\ \/ mSyncBlocks' = kept /\ lastSyncBlock' = lastSyncBlock
              \/ /\ mSyncBlocks' = Put(kept, b, added)
                 /\ lastSyncBlock' \in {lastSyncBlock, b}
                 /\ \/ Parent[b] \in DOMAIN mSyncBlocks \/ Parent[b] = lastSyncBlock
                    \/ b \in DOMAIN mSyncBlocks
<1>1. WithLock(b, o).linked
  BY WithLockLinked
<1>2. CASE \/ StoreOrphan(b, o, rest) \/ RejectBlock(b, rest) \/ IgnoreFork(b, rest)
           \/ ExtendTerminalChain(b, o, peer, rest) \/ ReplaceTerminalBlock(b, o, peer, rest)
           \/ TerminalFork(b, o, peer, rest)
  <2>1. mSyncBlocks' \in TrimmedBy(mSyncBlocks, b, KeepSync) /\ lastSyncBlock' = lastSyncBlock
    BY <1>2, TrimmedKinds
    DEF StoreOrphan, RejectBlock, IgnoreFork, ExtendTerminalChain, ReplaceTerminalBlock, TerminalFork
  <2>2. QED
    BY <1>1, <2>1
<1>3. CASE \/ ExtendSyncChain(b, o, peer, rest) \/ ReplaceSyncBlock(b, o, peer, rest)
           \/ SyncFork(b, o, peer, rest)
  <2>1. /\ mSyncBlocks' = Put(TrimmedSync(b), b, WithLock(b, o))
        /\ lastSyncBlock' \in {lastSyncBlock, b}
        /\ \/ Parent[b] \in DOMAIN mSyncBlocks \/ Parent[b] = lastSyncBlock
           \/ b \in DOMAIN mSyncBlocks
    BY <1>3
    DEF ExtendSyncChain, ReplaceSyncBlock, SyncFork, ExtendsSync, KnownSync, SyncPosition
  <2>2. QED
    BY <1>1, <2>1, TrimmedKinds
<1>4. QED
  BY <1>2, <1>3 DEF AddBlock

\* The same for the terminal chain.
LEMMA AddBlockTerminal ==
  ASSUME NEW b \in Blocks, NEW o \in Objects, o.linked, NEW peer, NEW rest,
         AddBlock(b, o, peer, rest)
  PROVE  \E kept \in TrimmedBy(mTerminalBlocks, b, KeepTerminal), added \in {o, WithLock(b, o)} :
           /\ added.linked
           /\ \/ mTerminalBlocks' = kept /\ lastTerminalBlock' = lastTerminalBlock
              \/ /\ mTerminalBlocks' = Put(kept, b, added)
                 /\ lastTerminalBlock' \in {lastTerminalBlock, b}
<1>1. WithLock(b, o).linked
  BY WithLockLinked
<1>2. CASE \/ /\ mTerminalBlocks' \in TrimmedBy(mTerminalBlocks, b, KeepTerminal)
              /\ lastTerminalBlock' = lastTerminalBlock
           \/ /\ mTerminalBlocks' \in {Put(TrimmedTerminal(b), b, o),
                                       Put(TrimmedTerminal(b), b, WithLock(b, o))}
              /\ lastTerminalBlock' \in {lastTerminalBlock, b}
  BY <1>1, <1>2, TrimmedKinds
<1>3. CASE StoreOrphan(b, o, rest) \/ RejectBlock(b, rest) \/ IgnoreFork(b, rest)
  BY <1>2, <1>3, TrimmedKinds DEF StoreOrphan, RejectBlock, IgnoreFork
<1>4. CASE ExtendSyncChain(b, o, peer, rest)
  BY <1>2, <1>4, TrimmedKinds DEF ExtendSyncChain
<1>5. CASE ExtendTerminalChain(b, o, peer, rest) \/ ReplaceTerminalBlock(b, o, peer, rest)
  BY <1>2, <1>5 DEF ExtendTerminalChain, ReplaceTerminalBlock
<1>6. CASE ReplaceSyncBlock(b, o, peer, rest)
  BY <1>2, <1>6, TrimmedKinds DEF ReplaceSyncBlock
<1>7. CASE TerminalFork(b, o, peer, rest)
  BY <1>2, <1>7 DEF TerminalFork
<1>8. CASE SyncFork(b, o, peer, rest)
  BY <1>2, <1>8, TrimmedKinds DEF SyncFork
<1>9. QED
  BY <1>3, <1>4, <1>5, <1>6, <1>7, <1>8 DEF AddBlock

\* What addBlock does to the orphans: it stores one only below no block it knows,
\* and adopts the one that waits for a block that has become the terminal tip.
LEMMA AddBlockOrphans ==
  ASSUME NEW b \in Blocks, NEW o, NEW peer, NEW rest, Locked(mSyncBlocks') = {},
         AddBlock(b, o, peer, rest)
  PROVE  \/ lastTerminalBlock' = lastTerminalBlock /\ DOMAIN mOrphans' \subseteq DOMAIN mOrphans
         \/ /\ lastTerminalBlock' = lastTerminalBlock
            /\ DOMAIN mOrphans' = DOMAIN mOrphans \cup {Parent[b]}
            /\ Parent[b] \notin DOMAIN mTerminalBlocks
         \/ lastTerminalBlock' = b /\ b \notin DOMAIN mOrphans'
<1>1. ASSUME NEW syncDone, NEW becameTip, Finish(b, peer, rest, syncDone, becameTip)
      PROVE  /\ DOMAIN mOrphans' \subseteq DOMAIN mOrphans
             /\ becameTip => b \notin DOMAIN mOrphans'
  BY <1>1 DEF Finish, Adopts, Remove
<1>2. CASE StoreOrphan(b, o, rest)
  <2>1. /\ lastTerminalBlock' = lastTerminalBlock
        /\ DOMAIN mOrphans' = DOMAIN mOrphans \cup {Parent[b]}
    BY <1>2 DEF StoreOrphan
  <2>2. Parent[b] \notin DOMAIN mTerminalBlocks
    BY <1>2 DEF StoreOrphan, IsOrphan, TerminalPosition, SyncPosition
  <2>3. QED
    BY <2>1, <2>2
<1>3. CASE RejectBlock(b, rest) \/ IgnoreFork(b, rest)
  BY <1>3 DEF RejectBlock, IgnoreFork, ReturnEarly
<1>4. CASE ExtendSyncChain(b, o, peer, rest)
  BY <1>1, <1>4 DEF ExtendSyncChain
<1>5. CASE ExtendTerminalChain(b, o, peer, rest)
  BY <1>1, <1>5 DEF ExtendTerminalChain
<1>6. CASE ReplaceSyncBlock(b, o, peer, rest) \/ ReplaceTerminalBlock(b, o, peer, rest)
  BY <1>1, <1>6 DEF ReplaceSyncBlock, ReplaceTerminalBlock
<1>7. CASE TerminalFork(b, o, peer, rest)
  BY <1>1, <1>7 DEF TerminalFork, ReturnEarly
<1>8. CASE SyncFork(b, o, peer, rest)
  <2> DEFINE sync == Put(TrimmedSync(b), b, WithLock(b, o))
             terminal == IF Syncing THEN Put(TrimmedTerminal(b), b, WithLock(b, o))
                         ELSE TrimmedTerminal(b)
             terminalReorg == /\ Work[b] > Work[lastSyncBlock] /\ Syncing
                              /\ ReorgsTerminal(terminal, b)
  <2>1. lastTerminalBlock' = IF terminalReorg THEN b ELSE lastTerminalBlock
    BY <1>8 DEF SyncFork
  <2>2. terminalReorg => ReorgsSync(sync, b)
    BY <1>8 DEF SyncFork, ReorgsSync, LockedOut
  <2>3. IF ReorgsSync(sync, b) THEN Finish(b, peer, rest, AtEstimate(b), terminalReorg)
        ELSE ReturnEarly(rest)
    BY <1>8 DEF SyncFork
  <2> HIDE DEF terminalReorg, sync
  <2>4. CASE ReorgsSync(sync, b)
    BY <1>1, <2>1, <2>3, <2>4
  <2>5. CASE ~ReorgsSync(sync, b)
    BY <2>1, <2>2, <2>3, <2>5 DEF ReturnEarly
  <2>6. QED
    BY <2>4, <2>5
<1>9. QED
  BY <1>2, <1>3, <1>4, <1>5, <1>6, <1>7, <1>8 DEF AddBlock

-----------------------------------------------------------------------------
(* The tips, the sync chain and the orphans *)

\* An object that waits to be added has a previous hash.
LinkedCalls == {c \in Calls : c.call = "addBlock" => c.object.linked}

\* A tip is held or buried.
TerminalTipHeld ==
  \/ lastTerminalBlock \in DOMAIN mTerminalBlocks
  \/ Buried(mTerminalBlocks, lastTerminalBlock, KeepTerminal)

SyncTipHeld ==
  lastSyncBlock \in DOMAIN mSyncBlocks \/ Buried(mSyncBlocks, lastSyncBlock, KeepSync)

\* While nothing is locked only a checkpoint can stand on a sync tip that has been shed.
SyncTipKept ==
  lastChainLockHeight = 0 =>
    \/ lastSyncBlock \in DOMAIN mSyncBlocks
    \/ \E c \in Checkpoints \ {Genesis} : Parent[c] = lastSyncBlock

\* Below a block that was synced its parent is kept, or was shed.
SyncBlocksLinked ==
  \A x \in DOMAIN mSyncBlocks \ Checkpoints :
    /\ mSyncBlocks[x].linked
    /\ Parent[x] \in DOMAIN mSyncBlocks \/ Buried(mSyncBlocks, Parent[x], KeepSync)

\* TipsHeld, SyncChainUnbroken and NoOrphanWaitsForTip made inductive.
TipsInv ==
  /\ calls \in Seq(LinkedCalls)
  /\ TerminalTipHeld /\ SyncTipHeld /\ SyncTipKept
  /\ SyncBlocksLinked /\ NoOrphanWaitsForTip

\* What is kept or buried stays one or the other when a block is added, and an
\* object without a previous hash is one that was there.
LEMMA AddingBuries ==
  ASSUME NEW m, NEW b \in Blocks, NEW keep \in Nat \ {0, 1}, NEW kept \in TrimmedBy(m, b, keep),
         NEW added, added.linked, NEW n, n = kept \/ n = Put(kept, b, added)
  PROVE  /\ DOMAIN n \subseteq DOMAIN m \cup {b}
         /\ \A x \in DOMAIN n : n[x].linked \/ (x \in DOMAIN m /\ n[x] = m[x])
         /\ \A x \in DOMAIN m :
              \/ x \in DOMAIN n
              \/ /\ Buried(n, x, keep)
                 /\ \E c \in DOMAIN m \ {Genesis} : Parent[c] = x /\ m[c].linked
         /\ \A x \in Blocks : Buried(m, x, keep) => Buried(n, x, keep)
<1>1. /\ DOMAIN kept \subseteq DOMAIN m /\ \A x \in DOMAIN kept : kept[x] = m[x]
      /\ \A x \in DOMAIN m \ DOMAIN kept :
           /\ Buried(kept, x, keep)
           /\ \E c \in DOMAIN m \ {Genesis} : Parent[c] = x /\ m[c].linked
      /\ \A x \in Blocks : Buried(m, x, keep) => Buried(kept, x, keep)
  BY TrimmingBuries
<1>2. CASE n = kept
  BY <1>1, <1>2
<1>3. CASE n = Put(kept, b, added)
  <2>1. /\ DOMAIN n = DOMAIN kept \cup {b} /\ n[b] = added
        /\ \A x \in DOMAIN kept \ {b} : n[x] = kept[x]
    BY <1>3 DEF Put
  <2>2. \A x : Buried(kept, x, keep) => Buried(n, x, keep)
    BY <1>3, PuttingBuries
  <2>3. QED
    BY <1>1, <2>1, <2>2
<1>4. QED
  BY <1>2, <1>3

\* What addBlock asks of the state it is called in, for the lemmas below.
AddsLinked(b, o, rest) ==
  /\ TypeOK /\ LocksInv /\ SyncTipHasMostWork /\ TipsInv
  /\ o.linked /\ (o.chainLocked => Height[b] <= lastChainLockHeight)
  /\ rest \in Seq(LinkedCalls) \cap Seq(CoveredCalls)

\* addBlock leaves the sync tip held or buried, and the blocks below one another.
LEMMA AddBlockSyncTip ==
  ASSUME NEW b \in Blocks \ {Genesis}, NEW o \in Objects, NEW peer, NEW rest,
         AddsLinked(b, o, rest), AddBlock(b, o, peer, rest)
  PROVE  SyncTipHeld' /\ SyncTipKept' /\ SyncBlocksLinked'
<1>1. KeepSync \in Nat \ {0, 1}
  BY DataAssumption DEF DataAssumption
<1>2. PICK kept \in TrimmedBy(mSyncBlocks, b, KeepSync), added \in {WithLock(b, o)} :
        /\ added.linked
        /\ \/ mSyncBlocks' = kept /\ lastSyncBlock' = lastSyncBlock
           \/ /\ mSyncBlocks' = Put(kept, b, added)
              /\ lastSyncBlock' \in {lastSyncBlock, b}
              /\ \/ Parent[b] \in DOMAIN mSyncBlocks \/ Parent[b] = lastSyncBlock
                 \/ b \in DOMAIN mSyncBlocks
  BY AddBlockSync DEF AddsLinked
<1>3. PICK n : n = mSyncBlocks'
  OBVIOUS
<1>4. n = kept \/ n = Put(kept, b, added)
  BY <1>2, <1>3
<1>5. /\ DOMAIN n \subseteq DOMAIN mSyncBlocks \cup {b}
      /\ \A x \in DOMAIN n : n[x].linked \/ (x \in DOMAIN mSyncBlocks /\ n[x] = mSyncBlocks[x])
      /\ \A x \in DOMAIN mSyncBlocks :
           \/ x \in DOMAIN n
           \/ /\ Buried(n, x, KeepSync)
              /\ \E c \in DOMAIN mSyncBlocks \ {Genesis} : Parent[c] = x /\ mSyncBlocks[c].linked
      /\ \A x \in Blocks : Buried(mSyncBlocks, x, KeepSync) => Buried(n, x, KeepSync)
  BY <1>1, <1>2, <1>4, AddingBuries
<1>6. b \in DOMAIN n \/ lastSyncBlock' = lastSyncBlock
  BY <1>2, <1>3 DEF Put
<1>7. lastSyncBlock \in Blocks /\ DOMAIN mSyncBlocks \subseteq Blocks
  BY DEF AddsLinked, TypeOK, IsDictionary
<1>8. \A x \in DOMAIN mSyncBlocks : x \in DOMAIN n \/ Buried(n, x, KeepSync)
  BY <1>5
<1>9. lastSyncBlock \in DOMAIN n \/ Buried(n, lastSyncBlock, KeepSync)
  BY <1>5, <1>7, <1>8 DEF AddsLinked, TipsInv, SyncTipHeld
<1>10. SyncTipHeld'
  BY <1>2, <1>3, <1>6, <1>9 DEF SyncTipHeld
<1>11. SyncTipKept'
  <2> SUFFICES ASSUME lastChainLockHeight' = 0, lastSyncBlock' \notin DOMAIN n
               PROVE  \E c \in Checkpoints \ {Genesis} : Parent[c] = lastSyncBlock'
    BY <1>3 DEF SyncTipKept
  <2>1. lastChainLockHeight = 0
    BY DEF AddBlock
  <2>2. lastSyncBlock' = lastSyncBlock
    BY <1>2, <1>6
  <2>3. CASE lastSyncBlock \notin DOMAIN mSyncBlocks
    BY <2>1, <2>2, <2>3 DEF AddsLinked, TipsInv, SyncTipKept
  <2>4. CASE lastSyncBlock \in DOMAIN mSyncBlocks
    <3>1. PICK c \in DOMAIN mSyncBlocks \ {Genesis} : Parent[c] = lastSyncBlock
      BY <1>5, <2>2, <2>4
    <3>2. c \in Blocks /\ Work[c] > Work[lastSyncBlock]
      BY <1>7, <3>1, TreeAssumption DEF TreeAssumption
    <3>3. Work[c] \in Nat /\ Work[lastSyncBlock] \in Nat
      BY <1>7, <3>2, TreeAssumption DEF TreeAssumption
    <3>4. c \in Checkpoints
      BY <2>1, <3>1, <3>2, <3>3 DEF AddsLinked, SyncTipHasMostWork
    <3>5. QED
      BY <2>2, <3>1, <3>4
  <2>5. QED
    BY <2>3, <2>4
<1>12. SyncBlocksLinked'
  <2> SUFFICES ASSUME NEW x \in DOMAIN n \ Checkpoints
               PROVE  n[x].linked /\ (Parent[x] \in DOMAIN n \/ Buried(n, Parent[x], KeepSync))
    BY <1>3 DEF SyncBlocksLinked
  <2>1. x \in Blocks \ {Genesis} /\ Parent[x] \in Blocks
    BY <1>5, <1>7, TreeAssumption, CheckpointAssumption DEF TreeAssumption, CheckpointAssumption
  <2>2. n[x].linked
    BY <1>5 DEF AddsLinked, TipsInv, SyncBlocksLinked
  <2>3. CASE x \in DOMAIN mSyncBlocks
    <3>1. Parent[x] \in DOMAIN mSyncBlocks \/ Buried(mSyncBlocks, Parent[x], KeepSync)
      BY <2>3 DEF AddsLinked, TipsInv, SyncBlocksLinked
    <3>2. QED
      BY <1>5, <1>8, <2>1, <2>2, <3>1
  <2>4. CASE x \notin DOMAIN mSyncBlocks
    <3>1. x = b
      BY <1>5, <2>4
    <3>2. mSyncBlocks' # kept
      BY <1>3, <2>4, TrimmingBuries, <1>1
    <3>3. Parent[b] \in DOMAIN mSyncBlocks \/ Parent[b] = lastSyncBlock
      BY <1>2, <2>4, <3>1, <3>2
    <3>4. QED
      BY <1>8, <1>9, <2>2, <3>1, <3>3
  <2>5. QED
    BY <2>3, <2>4
<1>13. QED
  BY <1>10, <1>11, <1>12

\* addBlock leaves the terminal tip held or buried, and while nothing is locked
\* no orphan waits for it but where it has been shed.
LEMMA AddBlockTerminalTip ==
  ASSUME NEW b \in Blocks \ {Genesis}, NEW o \in Objects, NEW peer, NEW rest,
         AddsLinked(b, o, rest), AddBlock(b, o, peer, rest)
  PROVE  TerminalTipHeld' /\ NoOrphanWaitsForTip'
<1>1. KeepTerminal \in Nat \ {0, 1}
  BY DataAssumption DEF DataAssumption
<1>2. PICK kept \in TrimmedBy(mTerminalBlocks, b, KeepTerminal), added \in {o, WithLock(b, o)} :
        /\ added.linked
        /\ \/ mTerminalBlocks' = kept /\ lastTerminalBlock' = lastTerminalBlock
           \/ /\ mTerminalBlocks' = Put(kept, b, added)
              /\ lastTerminalBlock' \in {lastTerminalBlock, b}
  BY AddBlockTerminal DEF AddsLinked
<1>3. PICK n : n = mTerminalBlocks'
  OBVIOUS
<1>4. n = kept \/ n = Put(kept, b, added)
  BY <1>2, <1>3
<1>5. /\ \A x \in DOMAIN mTerminalBlocks : x \in DOMAIN n \/ Buried(n, x, KeepTerminal)
      /\ \A x \in Blocks : Buried(mTerminalBlocks, x, KeepTerminal) => Buried(n, x, KeepTerminal)
  BY <1>1, <1>2, <1>4, AddingBuries
<1>6. b \in DOMAIN n \/ lastTerminalBlock' = lastTerminalBlock
  BY <1>2, <1>3 DEF Put
<1>7. lastTerminalBlock \in Blocks
  BY DEF AddsLinked, TypeOK
<1>8. TerminalTipHeld'
  BY <1>2, <1>3, <1>5, <1>6, <1>7 DEF AddsLinked, TipsInv, TerminalTipHeld
<1>9. NoOrphanWaitsForTip'
  <2> SUFFICES ASSUME lastChainLockHeight' = 0, lastTerminalBlock' \in DOMAIN mOrphans',
                      lastTerminalBlock' # LastCheckpoint
               PROVE  Buried(n, lastTerminalBlock', KeepTerminal)
    BY <1>3 DEF NoOrphanWaitsForTip
  <2>1. lastChainLockHeight = 0
    BY DEF AddBlock
  <2>2. LocksCovered'
    BY AddBlockLocks DEF AddsLinked, LocksInv
  <2>3. DOMAIN mSyncBlocks' \subseteq Blocks
    <3>1. mSyncBlocks' \in {mSyncBlocks, TrimmedSync(b), Put(TrimmedSync(b), b, WithLock(b, o))}
      BY AddBlockMaps
    <3>2. DOMAIN TrimmedSync(b) \subseteq DOMAIN mSyncBlocks
      BY TrimmedDictionaries DEF AddsLinked
    <3>3. DOMAIN Put(TrimmedSync(b), b, WithLock(b, o)) = DOMAIN TrimmedSync(b) \cup {b}
      BY DEF Put
    <3>4. QED
      BY <3>1, <3>2, <3>3 DEF AddsLinked, TypeOK, IsDictionary
  <2>4. Locked(mSyncBlocks') = {}
    <3>1. \A y \in Locked(mSyncBlocks') : y \in Blocks /\ Height[y] <= 0
      BY <2>2, <2>3 DEF LocksCovered, Locked
    <3>2. \A y \in Blocks : Height[y] \in Nat \ {0}
      BY TreeAssumption DEF TreeAssumption
    <3>3. QED
      BY <3>1, <3>2
  <2>5. \/ lastTerminalBlock' = lastTerminalBlock /\ DOMAIN mOrphans' \subseteq DOMAIN mOrphans
        \/ /\ lastTerminalBlock' = lastTerminalBlock
           /\ DOMAIN mOrphans' = DOMAIN mOrphans \cup {Parent[b]}
           /\ Parent[b] \notin DOMAIN mTerminalBlocks
        \/ lastTerminalBlock' = b /\ b \notin DOMAIN mOrphans'
    BY <2>4, AddBlockOrphans
  <2>6. CASE lastTerminalBlock \in DOMAIN mOrphans /\ lastTerminalBlock' = lastTerminalBlock
    <3>1. Buried(mTerminalBlocks, lastTerminalBlock, KeepTerminal)
      BY <2>1, <2>6 DEF AddsLinked, TipsInv, NoOrphanWaitsForTip
    <3>2. QED
      BY <1>5, <1>7, <2>6, <3>1
  <2>7. CASE lastTerminalBlock \notin DOMAIN mTerminalBlocks /\ lastTerminalBlock' = lastTerminalBlock
    <3>1. Buried(mTerminalBlocks, lastTerminalBlock, KeepTerminal)
      BY <2>7 DEF AddsLinked, TipsInv, TerminalTipHeld
    <3>2. QED
      BY <1>5, <1>7, <2>7, <3>1
  <2>8. QED
    BY <2>5, <2>6, <2>7
<1>10. QED
  BY <1>8, <1>9

\* The call for an orphan adds an object that has a previous hash.
LEMMA AddBlockLinkedCalls ==
  ASSUME TypeOK, NEW b, NEW o, NEW peer \in BOOLEAN, NEW rest \in Seq(LinkedCalls),
         AddBlock(b, o, peer, rest)
  PROVE  calls' \in Seq(LinkedCalls)
<1>1. \/ calls' = rest
      \/ \E syncDone, becameTip : Finish(b, peer, rest, syncDone, becameTip)
  BY DEF AddBlock, StoreOrphan, RejectBlock, IgnoreFork, TerminalFork, SyncFork, ReturnEarly,
         ExtendSyncChain, ExtendTerminalChain, ReplaceSyncBlock, ReplaceTerminalBlock
<1>2. ASSUME NEW syncDone, NEW becameTip, Finish(b, peer, rest, syncDone, becameTip)
      PROVE  calls' \in Seq(LinkedCalls)
  <2>1. CASE Adopts(b, becameTip)
    <3> DEFINE call == AddCall(mOrphans[b].block, Received(mOrphans[b].full), peer)
    <3>1. mOrphans[b] \in [block : Blocks \ {Genesis}, full : BOOLEAN]
      BY <2>1 DEF Adopts, TypeOK
    <3>2. call \in LinkedCalls
      BY <3>1 DEF AddCall, Received, Objects, Calls, LinkedCalls
    <3>3. calls' = <<call>> \o rest
      BY <1>2, <2>1 DEF Finish
    <3> HIDE DEF call
    <3>4. QED
      BY <3>2, <3>3, PushCall
  <2>2. CASE ~Adopts(b, becameTip)
    BY <1>2, <2>2 DEF Finish
  <2>3. QED
    BY <2>1, <2>2
<1>3. QED
  BY <1>1, <1>2

\* addBlock keeps the invariant.
LEMMA AddBlockTipsInv ==
  ASSUME NEW b \in Blocks \ {Genesis}, NEW o \in Objects, NEW peer \in BOOLEAN, NEW rest,
         AddsLinked(b, o, rest), AddBlock(b, o, peer, rest)
  PROVE  TipsInv'
<1>1. calls' \in Seq(LinkedCalls)
  BY AddBlockLinkedCalls DEF AddsLinked
<1>2. LinkedCalls' = LinkedCalls
  BY DEF LinkedCalls
<1>3. QED
  BY <1>1, <1>2, AddBlockSyncTip, AddBlockTerminalTip DEF TipsInv

\* The call that runs adds an object that has a previous hash, and so do those that wait.
LEMMA LinkedCallsNext ==
  ASSUME TipsInv, calls # <<>>
  PROVE  Head(calls) \in LinkedCalls /\ Tail(calls) \in Seq(LinkedCalls)
BY HeadTailProperties DEF TipsInv

\* A dictionary whose hashes and links stay buries what it buried.
LEMMA SameLinksBury ==
  ASSUME NEW m, NEW n, DOMAIN n = DOMAIN m, \A x \in DOMAIN m : n[x].linked = m[x].linked,
         NEW x, NEW keep
  PROVE  Buried(m, x, keep) <=> Buried(n, x, keep)
BY DEF Buried

\* The terminal half of addChainLock makes a tip only of a block that is held.
LEMMA RelayChainLockTips ==
  ASSUME TypeOK, TipsInv, NEW b \in Lockable, NEW verified \in BOOLEAN,
         RelayChainLock(b, verified)
  PROVE  TipsInv'
<1>1. b \in Blocks /\ Height[b] \in Nat \ {0} /\ lastChainLockHeight \in Nat
  BY LockAssumption, ParentFacts DEF LockAssumption, TypeOK
<1>2. PICK n : n = mTerminalBlocks'
  OBVIOUS
<1>3. /\ DOMAIN n = DOMAIN mTerminalBlocks
      /\ \A x \in DOMAIN mTerminalBlocks : n[x].linked = mTerminalBlocks[x].linked
  <2>1. n = SetLock(mTerminalBlocks, b, verified)
    BY <1>2 DEF RelayChainLock
  <2>2. QED
    BY <1>1, <2>1, SetLockLinks DEF TypeOK
<1>4. \A x : Buried(mTerminalBlocks, x, KeepTerminal) <=> Buried(n, x, KeepTerminal)
  BY <1>3, SameLinksBury
<1>5. /\ UNCHANGED <<mSyncBlocks, lastSyncBlock, mOrphans>>
      /\ lastTerminalBlock' \in {lastTerminalBlock, b}
      /\ lastTerminalBlock' # lastTerminalBlock => (b \in DOMAIN mTerminalBlocks /\ verified)
  BY DEF RelayChainLock
<1>6. TerminalTipHeld'
  BY <1>2, <1>3, <1>4, <1>5 DEF TipsInv, TerminalTipHeld
<1>7. /\ lastChainLockHeight' = 0 => lastChainLockHeight = 0
      /\ verified => lastChainLockHeight' # 0
  BY <1>1 DEF RelayChainLock
<1>8. NoOrphanWaitsForTip'
  BY <1>2, <1>4, <1>5, <1>7 DEF TipsInv, NoOrphanWaitsForTip
<1>9. SyncTipHeld' /\ SyncTipKept' /\ SyncBlocksLinked'
  BY <1>5, <1>7 DEF TipsInv, SyncTipHeld, SyncTipKept, SyncBlocksLinked, Buried
<1>10. calls' \in Seq(LinkedCalls')
  <2> DEFINE fork == DOMAIN SetLock(mTerminalBlocks, b, verified)
                       \ Below(SetLock(mTerminalBlocks, b, verified), b)
  <2>1. fork \in SUBSET Blocks
    BY <1>1, SetLockDictionary DEF TypeOK, IsDictionary
  <2>2. /\ LockSyncCall(b, verified) \in LinkedCalls'
        /\ Relink("relinkTerminal", fork, {}) \in LinkedCalls'
    BY <2>1 DEF LockSyncCall, Relink, Calls, LinkedCalls
  <2>3. \/ calls' = <<LockSyncCall(b, verified)>>
        \/ calls' = <<Relink("relinkTerminal", fork, {}), LockSyncCall(b, verified)>>
    BY DEF RelayChainLock
  <2>4. ASSUME NEW S, NEW c \in S, NEW d \in S
        PROVE  <<c>> \in Seq(S) /\ <<d, c>> \in Seq(S)
    OBVIOUS
  <2>5. /\ <<LockSyncCall(b, verified)>> \in Seq(LinkedCalls')
        /\ <<Relink("relinkTerminal", fork, {}), LockSyncCall(b, verified)>> \in Seq(LinkedCalls')
    BY <2>2, <2>4
  <2> HIDE DEF fork
  <2>6. QED
    BY <2>3, <2>5
<1>11. QED
  BY <1>6, <1>8, <1>9, <1>10 DEF TipsInv

\* So does the sync half.
LEMMA LockSyncTips ==
  ASSUME TypeOK, LocksInv, TipsInv, LockSync
  PROVE  TipsInv'
<1> DEFINE b == Head(calls).block
           verified == Head(calls).verified
           locked == SetLock(mSyncBlocks, b, verified)
           fork == DOMAIN locked \ Below(locked, b)
<1>1. calls # <<>> /\ Head(calls).call = "lockSync"
  BY DEF LockSync
<1>2. b \in Blocks /\ verified \in BOOLEAN /\ Height[b] \in Nat \ {0}
  BY <1>1, CallsType, LockSyncCallType, LockAssumption, ParentFacts DEF LockAssumption
<1>3. verified => Height[b] <= lastChainLockHeight
  BY <1>1, CoveredCallsNext DEF CoveredCalls
<1>4. PICK n : n = mSyncBlocks'
  OBVIOUS
<1>5. /\ DOMAIN n = DOMAIN mSyncBlocks
      /\ \A x \in DOMAIN mSyncBlocks : n[x].linked = mSyncBlocks[x].linked
  <2>1. n = locked
    BY <1>4 DEF LockSync
  <2>2. QED
    BY <1>2, <2>1, SetLockLinks DEF TypeOK
<1>6. \A x : Buried(mSyncBlocks, x, KeepSync) <=> Buried(n, x, KeepSync)
  BY <1>5, SameLinksBury
<1>7. /\ UNCHANGED <<mTerminalBlocks, lastTerminalBlock, mOrphans, lastChainLockHeight>>
      /\ lastSyncBlock' \in {lastSyncBlock, b}
      /\ lastSyncBlock' # lastSyncBlock => (b \in DOMAIN mSyncBlocks /\ verified)
  BY DEF LockSync
<1>8. SyncTipHeld'
  BY <1>4, <1>5, <1>6, <1>7 DEF TipsInv, SyncTipHeld
<1>9. SyncTipKept'
  BY <1>2, <1>3, <1>4, <1>5, <1>7 DEF TipsInv, SyncTipKept
<1>10. SyncBlocksLinked'
  BY <1>4, <1>5, <1>6 DEF TipsInv, SyncBlocksLinked
<1>11. TerminalTipHeld' /\ NoOrphanWaitsForTip'
  BY <1>7 DEF TipsInv, TerminalTipHeld, NoOrphanWaitsForTip, Buried
<1>12. calls' \in Seq(LinkedCalls')
  <2>1. Tail(calls) \in Seq(LinkedCalls)
    BY <1>1, LinkedCallsNext
  <2>2. fork \in SUBSET Blocks
    BY <1>2, SetLockDictionary DEF TypeOK, IsDictionary
  <2>3. Relink("relinkSync", fork, {}) \in LinkedCalls
    BY <2>2 DEF Relink, Calls, LinkedCalls
  <2>4. <<Relink("relinkSync", fork, {})>> \o Tail(calls) \in Seq(LinkedCalls)
    BY <2>1, <2>3, PushCall
  <2>5. calls' \in {Tail(calls), <<Relink("relinkSync", fork, {})>> \o Tail(calls)}
    BY DEF LockSync
  <2> HIDE DEF fork
  <2>6. QED
    BY <2>1, <2>4, <2>5 DEF LinkedCalls
<1>13. QED
  BY <1>8, <1>9, <1>10, <1>11, <1>12 DEF TipsInv

\* A relinked block has the previous hash it was found by.
LEMMA RelinkTips ==
  ASSUME TypeOK, LocksInv, SyncTipHasMostWork, TipsInv, NEW chain \in {"relinkTerminal", "relinkSync"},
         NEW m \in {mTerminalBlocks, mSyncBlocks}, NEW tip, RelinkOne(chain, m, tip)
  PROVE  TipsInv'
<1>1. calls # <<>> /\ Head(calls).call = chain /\ IsDictionary(m)
  BY DEF RelinkOne, TypeOK
<1>2. Head(calls).fork \in SUBSET Blocks /\ Head(calls).added \in SUBSET Blocks
  BY <1>1, CallsType, RelinkCallType
<1>3. CASE NextLinks(m, tip, Head(calls)) = {}
  <2>1. /\ calls' = Tail(calls)
        /\ UNCHANGED <<mTerminalBlocks, mSyncBlocks, lastTerminalBlock, lastSyncBlock, mOrphans,
                       lastChainLockHeight>>
    BY <1>3 DEF RelinkOne
  <2>2. calls' \in Seq(LinkedCalls')
    BY <1>1, <2>1, LinkedCallsNext DEF LinkedCalls
  <2>3. QED
    BY <2>1, <2>2
    DEF TipsInv, TerminalTipHeld, SyncTipHeld, SyncTipKept, SyncBlocksLinked, NoOrphanWaitsForTip, Buried
<1>4. CASE NextLinks(m, tip, Head(calls)) # {}
  <2>1. PICK c \in NextLinks(m, tip, Head(calls)) :
          AddBlock(c, m[c], FALSE,
                   <<Relink(chain, Head(calls).fork, Head(calls).added \cup {c})>> \o Tail(calls))
    BY <1>4 DEF RelinkOne
  <2>2. c \in Blocks \ {Genesis} /\ c \in DOMAIN m /\ m[c].linked
    BY <1>2, <2>1 DEF NextLinks
  <2>3. m[c] \in Objects /\ (m[c].chainLocked => Height[c] <= lastChainLockHeight)
    BY <1>1, <2>2 DEF IsDictionary, LocksInv, LocksCovered, Locked
  <2> DEFINE frame == Relink(chain, Head(calls).fork, Head(calls).added \cup {c})
  <2>4. frame \in LinkedCalls /\ frame \in CoveredCalls
    BY <1>2, <2>2 DEF Relink, Calls, LinkedCalls, CoveredCalls
  <2> HIDE DEF frame
  <2>5. <<frame>> \o Tail(calls) \in Seq(LinkedCalls) \cap Seq(CoveredCalls)
    BY <1>1, <2>4, LinkedCallsNext, CoveredCallsNext, PushCall
  <2>6. AddBlock(c, m[c], FALSE, <<frame>> \o Tail(calls))
    BY <2>1 DEF frame
  <2>7. AddsLinked(c, m[c], <<frame>> \o Tail(calls))
    BY <2>2, <2>3, <2>5 DEF AddsLinked
  <2>8. QED
    BY <2>2, <2>3, <2>6, <2>7, AddBlockTipsInv
<1>5. QED
  BY <1>3, <1>4

\* A checkpoint's own object has no previous hash, and both tips start on a checkpoint.
LEMMA CheckpointTips ==
  /\ LastCheckpoint \in DOMAIN CheckpointBlocks /\ SyncStart \in DOMAIN CheckpointBlocks
  /\ DOMAIN CheckpointBlocks = Checkpoints
BY CheckpointDictionary, CheckpointAssumption DEF CheckpointAssumption, LastCheckpoint

\* The strengthened invariant holds at the start.
LEMMA InitTips == Init => TipsInv
<1> SUFFICES ASSUME Init PROVE TipsInv
  OBVIOUS
<1>1. calls \in Seq(LinkedCalls)
  BY EmptySeq DEF Init
<1>2. QED
  BY <1>1, CheckpointTips
  DEF Init, TipsInv, TerminalTipHeld, SyncTipHeld, SyncTipKept, SyncBlocksLinked, NoOrphanWaitsForTip

\* Every step keeps it.
LEMMA NextTips == TypeOK /\ LocksInv /\ SyncTipHasMostWork /\ TipsInv /\ [Next]_vars => TipsInv'
<1> SUFFICES ASSUME TypeOK, LocksInv, SyncTipHasMostWork, TipsInv, [Next]_vars PROVE TipsInv'
  OBVIOUS
<1>1. ASSUME NEW b \in Blocks, RelayBlock(b)
      PROVE  TipsInv'
  <2> DEFINE o == Received(syncPhase # "InitialTerminalBlocks")
  <2>1. o \in Objects /\ ~o.chainLocked /\ o.linked
    BY DEF Received, Objects
  <2>2. <<>> \in Seq(LinkedCalls) /\ <<>> \in Seq(CoveredCalls)
    BY EmptySeq
  <2>3. b # Genesis /\ AddBlock(b, o, TRUE, <<>>)
    BY <1>1 DEF RelayBlock
  <2> HIDE DEF o
  <2>4. AddsLinked(b, o, <<>>)
    BY <2>1, <2>2 DEF AddsLinked
  <2>5. QED
    BY <2>1, <2>3, <2>4, AddBlockTipsInv
<1>2. CASE AddAdoptedOrphan
  <2>1. calls # <<>> /\ Head(calls).call = "addBlock"
    BY <1>2 DEF AddAdoptedOrphan
  <2>2. /\ Head(calls).block \in Blocks \ {Genesis} /\ Head(calls).object \in Objects
        /\ Head(calls).peer \in BOOLEAN
    BY <2>1, CallsType, AddCallType
  <2>3. /\ ~Head(calls).object.chainLocked /\ Head(calls).object.linked
        /\ Tail(calls) \in Seq(LinkedCalls) \cap Seq(CoveredCalls)
    BY <2>1, LinkedCallsNext, CoveredCallsNext DEF CoveredCalls, LinkedCalls
  <2>4. AddsLinked(Head(calls).block, Head(calls).object, Tail(calls))
    BY <2>3 DEF AddsLinked
  <2>5. AddBlock(Head(calls).block, Head(calls).object, Head(calls).peer, Tail(calls))
    BY <1>2 DEF AddAdoptedOrphan
  <2>6. QED
    BY <2>2, <2>4, <2>5, AddBlockTipsInv
<1>3. ASSUME NEW b \in Lockable, NEW verified \in BOOLEAN, RelayChainLock(b, verified)
      PROVE  TipsInv'
  BY <1>3, RelayChainLockTips
<1>4. ASSUME NEW b \in Lockable, RelayEarlyChainLock(b)
      PROVE  TipsInv'
  <2>1. Height[b] \in Nat \ {0}
    BY LockAssumption, ParentFacts DEF LockAssumption
  <2>2. /\ lastChainLockHeight' # 0
        /\ UNCHANGED <<mTerminalBlocks, mSyncBlocks, lastTerminalBlock, lastSyncBlock, mOrphans, calls>>
    BY <1>4, <2>1 DEF RelayEarlyChainLock
  <2>3. QED
    BY <2>2
    DEF TipsInv, TerminalTipHeld, SyncTipHeld, SyncTipKept, SyncBlocksLinked, NoOrphanWaitsForTip,
        Buried, LinkedCalls
<1>5. CASE LockSync
  BY <1>5, LockSyncTips
<1>6. CASE RelinkTerminal \/ RelinkSync
  BY <1>6, RelinkTips DEF RelinkTerminal, RelinkSync
<1>7. CASE UNCHANGED <<mTerminalBlocks, mSyncBlocks, lastTerminalBlock, lastSyncBlock, mOrphans,
                       lastChainLockHeight, calls>>
  BY <1>7
  DEF TipsInv, TerminalTipHeld, SyncTipHeld, SyncTipKept, SyncBlocksLinked, NoOrphanWaitsForTip,
      Buried, LinkedCalls
<1>8. CASE WipeBlockchain
  <2>1. /\ mTerminalBlocks' = CheckpointBlocks /\ mSyncBlocks' = CheckpointBlocks
        /\ lastTerminalBlock' = LastCheckpoint /\ lastSyncBlock' = SyncStart /\ calls' = calls
    BY <1>8 DEF WipeBlockchain
  <2>2. QED
    BY <2>1, CheckpointTips
    DEF TipsInv, TerminalTipHeld, SyncTipHeld, SyncTipKept, SyncBlocksLinked, NoOrphanWaitsForTip,
        LinkedCalls
<1>9. CASE WipeBlockchainNonTerminal
  <2>1. /\ mSyncBlocks' = CheckpointBlocks /\ lastSyncBlock' = SyncStart
        /\ UNCHANGED <<mTerminalBlocks, lastTerminalBlock, mOrphans, lastChainLockHeight, calls>>
    BY <1>9 DEF WipeBlockchainNonTerminal
  <2>2. SyncTipHeld' /\ SyncTipKept' /\ SyncBlocksLinked'
    BY <2>1, CheckpointTips DEF SyncTipHeld, SyncTipKept, SyncBlocksLinked
  <2>3. TerminalTipHeld' /\ NoOrphanWaitsForTip' /\ calls' \in Seq(LinkedCalls')
    BY <2>1 DEF TipsInv, TerminalTipHeld, NoOrphanWaitsForTip, Buried, LinkedCalls
  <2>4. QED
    BY <2>2, <2>3 DEF TipsInv
<1>10. QED
  BY <1>1, <1>2, <1>3, <1>4, <1>5, <1>6, <1>7, <1>8, <1>9
  DEF Next, StartSyncingBlockchain, FinishedSyncingMasternodeLists, AlreadySynced, StopSync, SetPhase,
      ChangeEstimate, vars

\* The strengthened invariant holds in every reachable state.
LEMMA TipsInvariant == Spec => []TipsInv
BY InitTips, NextTips, TypeCorrect, LocksInvariant, MostWork, PTL DEF Spec

\* The lowest block of the sync chain is a checkpoint, or its parent was shed.
LEMMA LowestOfSyncChain == TypeOK /\ TipsInv => SyncChainUnbroken
<1> SUFFICES ASSUME TypeOK, TipsInv, SyncChain \cap Checkpoints = {}
             PROVE  \E x \in SyncChain \ {Genesis} : Buried(mSyncBlocks, Parent[x], KeepSync)
  BY DEF SyncChainUnbroken
<1> DEFINE m == mSyncBlocks  tip == lastSyncBlock
<1>1. tip \in Blocks /\ DOMAIN m \subseteq Blocks /\ Genesis \in Checkpoints
  BY CheckpointAssumption DEF TypeOK, IsDictionary, CheckpointAssumption
<1>2. tip \in SyncChain /\ tip \notin Checkpoints
  BY DEF SyncChain, ChainOf
<1>3. CASE tip \notin DOMAIN m
  <2>1. PICK y \in DOMAIN m :
          m[y].linked /\ tip \in Anc[y] /\ Height[y] >= Height[tip] + KeepSync - 1
    BY <1>3 DEF TipsInv, SyncTipHeld, Buried
  <2>2. /\ Parent[tip] \in Anc[tip] /\ Height[Parent[tip]] = Height[tip] - 1
        /\ Height[tip] \in Nat /\ Height[y] \in Nat /\ KeepSync \in Nat
    BY <1>1, <1>2, ParentFacts, DataAssumption DEF DataAssumption
  <2>3. Parent[tip] \in Anc[y]
    BY <1>1, <2>1, <2>2, AncestorsTransitive
  <2>4. Height[y] >= Height[Parent[tip]] + KeepSync - 1
    BY <2>1, <2>2
  <2>5. Buried(m, Parent[tip], KeepSync)
    BY <2>1, <2>3, <2>4 DEF Buried
  <2>6. QED
    BY <1>1, <1>2, <2>5
<1>4. CASE tip \in DOMAIN m
  <2>1. m[tip].linked
    BY <1>2, <1>4 DEF TipsInv, SyncBlocksLinked
  <2>2. SyncChain = {tip} \cup Below(m, tip)
    BY <1>4, <2>1 DEF SyncChain, ChainOf
  <2>3. SyncChain \subseteq Blocks
    BY <1>1, <2>2, BelowBlocks DEF TypeOK
  <2>4. PICK x \in SyncChain : \A z \in SyncChain : Height[x] <= Height[z]
    BY <1>2, <2>3, LowestBlock
  <2>5. x \in DOMAIN m \ Checkpoints
    BY <1>4, <2>2, <2>4 DEF Below
  <2>6. m[x].linked /\ (Parent[x] \in DOMAIN m \/ Buried(m, Parent[x], KeepSync))
    BY <2>5 DEF TipsInv, SyncBlocksLinked
  <2>7. CASE Buried(m, Parent[x], KeepSync)
    BY <1>1, <2>4, <2>5, <2>7
  <2>8. CASE Parent[x] \in DOMAIN m
    <3>1. x \in Anc[tip] /\ x \in Blocks \ {Genesis}
      BY <1>1, <2>2, <2>3, <2>4, <2>5, ParentFacts DEF Below
    <3>2. /\ Parent[x] \in Anc[x] /\ Height[Parent[x]] = Height[x] - 1 /\ Height[x] \in Nat
          /\ Height[tip] \in Nat
      BY <1>1, <3>1, ParentFacts
    <3>3. Parent[x] \in Anc[tip]
      BY <1>1, <3>1, <3>2, AncestorsTransitive
    <3>4. Height[x] <= Height[tip]
      BY <1>1, <2>4, <1>2
    <3>5. ASSUME NEW y \in Anc[tip] \ {tip}, Height[y] > Height[Parent[x]]
          PROVE  y \in DOMAIN m /\ m[y].linked
      <4>1. y \in Blocks /\ Height[y] \in Nat /\ Height[y] < Height[tip]
        BY <1>1, <3>5, ParentFacts, AncestorsLower
      <4>2. CASE Height[y] > Height[x]
        <5>1. x \in Below(m, tip)
          BY <2>2, <3>2, <4>1, <4>2
        <5>2. QED
          BY <1>1, <3>5, <4>2, <5>1, BelowFacts
      <4>3. CASE Height[y] = Height[x]
        <5>1. x \in Anc[y]
          BY <1>1, <3>1, <3>5, <4>3, AncestorsOrdered, <4>1
        <5>2. x = y
          BY <4>1, <4>3, <5>1, AncestorsLower
        <5>3. QED
          BY <2>5, <2>6, <5>2
      <4>4. QED
        BY <3>2, <3>5, <4>1, <4>2, <4>3
    <3>6. Parent[x] \in Below(m, tip)
      BY <2>8, <3>2, <3>3, <3>4, <3>5 DEF Below
    <3>7. QED
      BY <2>2, <2>4, <3>2, <3>6
  <2>9. QED
    BY <2>6, <2>7, <2>8
<1>5. QED
  BY <1>3, <1>4

\* A tip is held, or shed under as many blocks of its own branch as are kept, in
\* every reachable state; the sync tip only after a chain lock or under a checkpoint.
THEOREM TipsAreHeld == Spec => []TipsHeld
<1>1. TypeOK /\ TipsInv => TipsHeld
  <2> SUFFICES ASSUME TypeOK, TipsInv PROVE TipsHeld
    OBVIOUS
  <2>1. lastChainLockHeight > 0 \/ lastChainLockHeight = 0
    BY DEF TypeOK
  <2>2. QED
    BY <2>1 DEF TipsInv, TerminalTipHeld, SyncTipHeld, SyncTipKept, TipsHeld
<1>2. QED
  BY <1>1, TypeCorrect, TipsInvariant, PTL

\* The sync chain is connected down to a checkpoint or as far down as trimming
\* goes, in every reachable state.
THEOREM SyncChainHolds == Spec => []SyncChainUnbroken
BY LowestOfSyncChain, TypeCorrect, TipsInvariant, PTL

\* Until a chain lock is verified no orphan waits for a terminal tip that is
\* held, in every reachable state, unless a wipe has brought that tip back.
THEOREM TipAdoptsOrphans == Spec => []NoOrphanWaitsForTip
<1>1. TipsInv => NoOrphanWaitsForTip
  BY DEF TipsInv
<1>2. QED
  BY <1>1, TipsInvariant, PTL

-----------------------------------------------------------------------------
(* The walk back to the join *)

\* A chain has one block for a height.
LEMMA AtHeight ==
  ASSUME NEW chain \in SUBSET Blocks, \A x, y \in chain : Height[x] = Height[y] => x = y,
         NEW x \in chain
  PROVE  At(chain, Height[x]) = x
BY DEF At

\* A walk from a block at least as high as the tip, down a branch that joins the
\* main chain below a locked block, stops at a locked block before it joins.
LEMMA WalkFindsLock ==
  ASSUME NEW fork \in SUBSET Blocks, NEW main \in SUBSET Blocks, NEW locks,
         NEW b \in fork, NEW t \in main, NEW j \in fork \cap main, NEW a \in main \cap locks,
         Height[t] <= Height[b],
         \A x, y \in fork : Height[x] = Height[y] => x = y,
         \A x, y \in main : Height[x] = Height[y] => x = y,
         \A x \in main : Height[x] <= Height[t],
         \A h \in Height[j] .. Height[b] : \E x \in fork : Height[x] = h,
         \A h \in Height[a] .. Height[t] : \E x \in main : Height[x] = h,
         \A z \in fork \cap main : Height[z] < Height[a]
  PROVE  LockedOut(WalkBack(fork, b, main, t, locks), locks)
<1> DEFINE lead == IF Height[b] > Height[t] THEN Height[b] - Height[t] ELSE 0
           Fork(k) == IF k = 0 THEN b ELSE At(fork, Height[b] - k)
           Turns(k) == IF k > lead THEN k - lead ELSE 0
           Steps(k) == IF Fork(k) = NoBlock THEN Turns(k - 1) + 1 ELSE Turns(k)
           Main(k) == At(main, Height[t] - Steps(k))
           Stops(k) == \/ Fork(k) = NoBlock \/ Main(k) = NoBlock
                       \/ Fork(k) = Main(k) \/ Main(k) \in locks
           last == CHOOSE k \in 0 .. Height[b] :
                     Stops(k) /\ \A i \in 0 .. Height[b] : Stops(i) => k <= i
<1>1. WalkBack(fork, b, main, t, locks) = [b |-> Fork(last), b2 |-> Main(last)]
  BY DEF WalkBack
<1>2. /\ Height[b] \in Nat /\ Height[t] \in Nat /\ Height[a] \in Nat /\ Height[j] \in Nat
      /\ Height[j] < Height[a] /\ Height[a] <= Height[t]
      /\ \A x \in fork \cup main : Height[x] \in Nat \ {0} /\ x # NoBlock
  BY TreeAssumption DEF TreeAssumption
<1>3. lead = Height[b] - Height[t] /\ lead \in Nat
  BY <1>2
<1>4. ASSUME NEW k \in 0 .. Height[b] - Height[j]
      PROVE  Fork(k) \in fork /\ Height[Fork(k)] = Height[b] - k /\ Fork(k) # NoBlock
  <2>1. CASE k = 0
    BY <1>2, <2>1
  <2>2. CASE k # 0
    <3>1. Height[b] - k \in Height[j] .. Height[b]
      BY <1>2
    <3>2. PICK x \in fork : Height[x] = Height[b] - k
      BY <3>1
    <3>3. At(fork, Height[b] - k) = x
      BY <3>2, AtHeight
    <3>4. QED
      BY <1>2, <2>2, <3>2, <3>3
  <2>3. QED
    BY <2>1, <2>2
<1>5. ASSUME NEW k \in 0 .. Height[b] - Height[a]
      PROVE  Main(k) \in main /\ Height[Main(k)] = Height[t] - Turns(k) /\ Main(k) # NoBlock
  <2>1. Steps(k) = Turns(k)
    BY <1>2, <1>4
  <2>2. Height[t] - Turns(k) \in Height[a] .. Height[t]
    BY <1>2, <1>3
  <2>3. PICK x \in main : Height[x] = Height[t] - Turns(k)
    BY <2>2
  <2>4. At(main, Height[t] - Turns(k)) = x
    BY <2>3, AtHeight
  <2>5. QED
    BY <1>2, <2>1, <2>3, <2>4
<1> DEFINE ka == Height[b] - Height[a]
<1>6. ka \in 0 .. Height[b] /\ ka \in 0 .. Height[b] - Height[j]
  BY <1>2
<1>7. Stops(ka)
  <2>1. Height[t] - Turns(ka) = Height[a]
    BY <1>2, <1>3
  <2>2. Main(ka) = a
    <3> HIDE DEF Main, ka
    <3>1. ka \in 0 .. Height[b] - Height[a]
      BY <1>2 DEF ka
    <3>2. QED
      BY <1>5, <2>1, <3>1
  <2>3. QED
    BY <2>2
<1> HIDE DEF Stops, ka
<1>8. PICK k \in 0 .. Height[b] : Stops(k) /\ \A i \in 0 .. Height[b] : Stops(i) => k <= i
  <2> DEFINE T == {i \in 0 .. Height[b] : Stops(i)}
  <2>1. T \in SUBSET Nat /\ T # {}
    BY <1>6, <1>7
  <2> HIDE DEF T
  <2>2. PICK k \in T : \A i \in T : k <= i
    BY <2>1, LeastNat
  <2>3. QED
    BY <2>2 DEF T
<1>9. last \in 0 .. Height[b] /\ Stops(last) /\ last <= ka
  BY <1>6, <1>7, <1>8
<1> HIDE DEF last
<1>10. last \in 0 .. Height[b] - Height[a] /\ last \in 0 .. Height[b] - Height[j]
  BY <1>2, <1>9 DEF ka
<1>11. /\ Fork(last) \in fork /\ Height[Fork(last)] = Height[b] - last /\ Fork(last) # NoBlock
       /\ Main(last) \in main /\ Height[Main(last)] = Height[t] - Turns(last) /\ Main(last) # NoBlock
  BY <1>4, <1>5, <1>10
<1>12. Fork(last) # Main(last)
  <2>1. Height[b] - last >= Height[a]
    BY <1>2, <1>10
  <2> HIDE DEF Fork, Main, Turns
  <2>2. Fork(last) = Main(last) => Fork(last) \in fork \cap main
    BY <1>11
  <2>3. QED
    BY <1>2, <1>11, <2>1, <2>2
<1>13. Main(last) \in locks
  BY <1>9, <1>11, <1>12 DEF Stops
<1>14. QED
  BY <1>1, <1>12, <1>13 DEF LockedOut

-----------------------------------------------------------------------------
(* The chain below a tip *)

\* A walk that goes on from where another one has got to.
LEMMA WalkOn ==
  ASSUME NEW m, NEW b \in Blocks, NEW j \in Below(m, b), m[j].linked, NEW a \in Below(m, j)
  PROVE  a \in Below(m, b)
<1>1. /\ j \in Blocks /\ j \in Anc[b] /\ j # b /\ Height[j] < Height[b] /\ j \in DOMAIN m
      /\ \A y \in Anc[b] \ {b} : Height[y] > Height[j] => y \in DOMAIN m /\ m[y].linked
  BY BelowFacts
<1>2. /\ a \in Blocks /\ a \in Anc[j] /\ a \in DOMAIN m /\ Height[a] < Height[j]
      /\ \A y \in Anc[j] \ {j} : Height[y] > Height[a] => y \in DOMAIN m /\ m[y].linked
  BY <1>1, BelowFacts
<1>3. Height[a] \in Nat /\ Height[j] \in Nat /\ Height[b] \in Nat
  BY <1>1, <1>2, ParentFacts
<1>4. a \in Anc[b] /\ a # b
  BY <1>1, <1>2, <1>3, AncestorsTransitive
<1>5. ASSUME NEW y \in Anc[b] \ {b}, Height[y] > Height[a]
      PROVE  y \in DOMAIN m /\ m[y].linked
  <2>1. y \in Blocks /\ Height[y] \in Nat
    BY ParentFacts
  <2>2. CASE Height[y] > Height[j]
    BY <1>1, <2>2
  <2>3. CASE Height[y] <= Height[j]
    <3>1. y \in Anc[j]
      BY <1>1, <2>3, AncestorsOrdered
    <3>2. QED
      BY <1>1, <1>2, <1>5, <3>1
  <2>4. QED
    BY <1>3, <2>1, <2>2, <2>3
<1>6. QED
  BY <1>2, <1>4, <1>5 DEF Below

\* A walk goes through every ancestor above where it has got to.
LEMMA WalkThrough ==
  ASSUME NEW m, NEW b \in Blocks, NEW a \in Below(m, b), NEW j \in Anc[b] \ {b},
         Height[a] < Height[j]
  PROVE  j \in Below(m, b) /\ m[j].linked /\ a \in Below(m, j)
<1>1. /\ a \in Blocks /\ a \in Anc[b] /\ a \in DOMAIN m /\ a # b
      /\ \A y \in Anc[b] \ {b} : Height[y] > Height[a] => y \in DOMAIN m /\ m[y].linked
  BY BelowFacts
<1>2. j \in Blocks /\ Height[j] \in Nat /\ Height[a] \in Nat /\ Height[j] < Height[b] /\ Height[b] \in Nat
  BY <1>1, ParentFacts, AncestorsLower
<1>3. j \in DOMAIN m /\ m[j].linked
  BY <1>1
<1>4. \A y \in Anc[b] : y \in Blocks /\ Height[y] \in Nat
  BY ParentFacts
<1>5. j \in Below(m, b)
  BY <1>1, <1>2, <1>3, <1>4 DEF Below
<1>6. a \in Anc[j] /\ a # j
  BY <1>1, <1>2, AncestorsOrdered
<1>7. \A y \in Anc[j] \ {j} : y \in Anc[b] /\ y # b
  BY <1>2, AncestorsTransitive, AncestorsLower
<1>8. a \in Below(m, j)
  BY <1>1, <1>6, <1>7 DEF Below
<1>9. QED
  BY <1>3, <1>5, <1>8

\* The blocks of a chain are the tip and ancestors of it that are kept.
LEMMA ChainFacts ==
  ASSUME NEW m, NEW t \in Blocks, NEW x \in ChainOf(m, t)
  PROVE  /\ x \in Blocks /\ x \in Anc[t] /\ Height[x] \in Nat /\ Height[x] <= Height[t]
         /\ x # t => /\ x \in Below(m, t) /\ x \in DOMAIN m /\ Height[x] < Height[t]
                     /\ t \in DOMAIN m => m[t].linked
<1>1. Height[t] \in Nat /\ t \in Anc[t]
  BY ParentFacts
<1>2. CASE x = t
  BY <1>1, <1>2
<1>3. CASE x # t
  <2>1. x \in Below(m, t) /\ (t \in DOMAIN m => m[t].linked)
    BY <1>3 DEF ChainOf
  <2>2. x \in Blocks /\ x \in Anc[t] /\ x \in DOMAIN m /\ Height[x] < Height[t]
    BY <2>1, BelowFacts
  <2>3. QED
    BY <1>1, <2>1, <2>2, ParentFacts
<1>4. QED
  BY <1>2, <1>3

\* Two chains that meet have the same blocks from there down.
LEMMA ChainsMeet ==
  ASSUME NEW m, NEW t \in Blocks, NEW b \in Blocks, b \in DOMAIN m => m[b].linked,
         NEW j \in ChainOf(m, t), j \in {b} \cup Below(m, b), j \in DOMAIN m,
         NEW a \in ChainOf(m, t), Height[a] <= Height[j]
  PROVE  a \in {b} \cup Below(m, b)
<1>1. /\ j \in Blocks /\ j \in Anc[t] /\ a \in Blocks /\ a \in Anc[t]
      /\ Height[j] \in Nat /\ Height[a] \in Nat /\ Height[j] <= Height[t] /\ Height[t] \in Nat
      /\ a # t => a \in Below(m, t) /\ (t \in DOMAIN m => m[t].linked)
  BY ChainFacts, ParentFacts
<1>2. CASE Height[a] = Height[j]
  BY <1>1, <1>2, AncestorsDistinct
<1>3. CASE Height[a] # Height[j]
  <2>1. Height[a] < Height[j] /\ a # t
    BY <1>1, <1>3
  <2>2. m[j].linked /\ a \in Below(m, j)
    <3>1. CASE j = t
      BY <1>1, <2>1, <3>1
    <3>2. CASE j # t
      BY <1>1, <2>1, <3>2, WalkThrough
    <3>3. QED
      BY <3>1, <3>2
  <2>3. QED
    BY <2>2, WalkOn
<1>4. QED
  BY <1>2, <1>3

\* A chain has a block at every height down to each of its blocks.
LEMMA ChainContiguous ==
  ASSUME NEW m, NEW t \in Blocks, NEW a \in {t} \cup Below(m, t), NEW h \in Height[a] .. Height[t]
  PROVE  \E x \in {t} \cup Below(m, t) : Height[x] = h
<1>1. a \in Anc[t] /\ a \in Blocks
  BY BelowFacts, ParentFacts
<1>2. PICK x \in Anc[t] : Height[x] = h
  BY <1>1, AncestorAt
<1>3. Height[a] \in Nat /\ Height[t] \in Nat
  BY <1>1, ParentFacts
<1>4. CASE x = t
  BY <1>2, <1>4
<1>5. CASE x # t /\ Height[a] = h
  <2>1. x = a
    BY <1>1, <1>2, <1>5, AncestorsDistinct
  <2>2. QED
    BY <1>2, <2>1
<1>6. CASE x # t /\ Height[a] < h
  <2>1. a # t
    BY <1>3, <1>6
  <2>2. x \in Below(m, t)
    BY <1>2, <1>6, <2>1, WalkThrough
  <2>3. QED
    BY <1>2, <2>2
<1>7. QED
  BY <1>3, <1>4, <1>5, <1>6

\* A trim takes from a chain the lower part of it, and the rest stays connected.
LEMMA TrimmingKeepsChain ==
  ASSUME NEW m, NEW b \in Blocks, NEW keep \in Nat \ {0, 1}, NEW kept \in TrimmedBy(m, b, keep),
         NEW t \in Blocks, NEW x \in ChainOf(m, t), x = t \/ x \in DOMAIN kept
  PROVE  x \in ChainOf(kept, t)
<1>1. /\ DOMAIN kept \subseteq DOMAIN m /\ \A y \in DOMAIN kept : kept[y] = m[y]
      /\ \A y \in DOMAIN m \ DOMAIN kept : y \in Deep(m, b, keep)
      /\ kept # m => DOMAIN kept = DOMAIN m \ Deep(m, b, keep)
  BY DEF TrimmedBy, Remove
<1>2. CASE x = t
  BY <1>2 DEF ChainOf
<1>3. CASE x # t
  <2>1. /\ x \in Below(m, t) /\ (t \in DOMAIN m => m[t].linked)
        /\ x \in Blocks /\ x \in Anc[t] /\ Height[x] \in Nat
    BY <1>3, ChainFacts
  <2>2. x \in DOMAIN kept
    BY <1>3
  <2>3. ASSUME NEW y \in Anc[t] \ {t}, Height[y] > Height[x]
        PROVE  y \in DOMAIN kept /\ kept[y].linked
    <3>1. y \in Below(m, t) /\ m[y].linked /\ x \in Below(m, y)
      BY <2>1, <2>3, WalkThrough
    <3>2. y \in DOMAIN m /\ y \in Blocks /\ Height[y] \in Nat
      BY <3>1, BelowFacts, ParentFacts
    <3>3. y \in DOMAIN kept
      <4>1. SUFFICES ASSUME y \in Deep(m, b, keep), kept # m PROVE FALSE
        BY <1>1, <3>2
      <4>2. y \in Below(m, b) /\ Height[y] <= Height[b] - keep
        BY <4>1 DEF Deep
      <4>3. x \in Below(m, b)
        BY <3>1, <4>2, WalkOn
      <4>4. Height[x] <= Height[b] - keep
        <5>1. Height[b] \in Nat
          BY ParentFacts
        <5>2. QED
          BY <2>1, <2>3, <3>2, <4>2, <5>1
      <4>5. x \in Deep(m, b, keep)
        BY <4>3, <4>4 DEF Deep
      <4>6. QED
        BY <1>1, <2>2, <4>1, <4>5
    <3>4. QED
      BY <1>1, <3>1, <3>3
  <2>4. x \in Below(kept, t)
    BY <1>3, <2>1, <2>2, <2>3 DEF Below
  <2>5. t \in DOMAIN kept => kept[t].linked
    BY <1>1, <2>1
  <2>6. QED
    BY <2>4, <2>5 DEF ChainOf
<1>4. QED
  BY <1>2, <1>3

\* Putting an object that has a previous hash leaves a chain connected.
LEMMA PuttingKeepsChain ==
  ASSUME NEW m, NEW b, NEW o, o.linked, NEW t \in Blocks, NEW x \in ChainOf(m, t)
  PROVE  x \in ChainOf(Put(m, b, o), t)
<1> DEFINE n == Put(m, b, o)
<1>1. /\ DOMAIN n = DOMAIN m \cup {b}
      /\ \A y \in DOMAIN n : n[y] = IF y = b THEN o ELSE m[y]
  BY DEF Put
<1>2. CASE x = t
  BY <1>2 DEF ChainOf
<1>3. CASE x # t
  <2>1. /\ x \in Below(m, t) /\ (t \in DOMAIN m => m[t].linked)
    BY <1>3, ChainFacts
  <2>2. t \in DOMAIN n => n[t].linked
    BY <1>1, <2>1
  <2>3. x \in Below(n, t)
    BY <1>1, <2>1 DEF Below
  <2> HIDE DEF n
  <2>4. x \in ChainOf(n, t)
    BY <2>2, <2>3 DEF ChainOf
  <2>5. QED
    BY <2>4 DEF n
<1>4. QED
  BY <1>2, <1>3

-----------------------------------------------------------------------------
(* Chain locks and the sync chain *)

\* Only blocks that the quorums sign are marked as chain locked.
LocksSigned == Locked(mTerminalBlocks) \cup Locked(mSyncBlocks) \subseteq Lockable

\* addBlock marks a block by an object of a block that is marked.
LEMMA AddBlockSigned ==
  ASSUME TypeOK, LocksSigned, NEW b \in Blocks, NEW o \in Objects, o.chainLocked => b \in Lockable,
         NEW peer, NEW rest, AddBlock(b, o, peer, rest)
  PROVE  LocksSigned'
<1>1. /\ Locked(TrimmedTerminal(b)) \subseteq Lockable
      /\ Locked(TrimmedSync(b)) \subseteq Lockable
  BY TrimmedDictionaries, TrimmedObjects DEF LocksSigned, Locked
<1>2. WithLock(b, o).chainLocked => b \in Lockable
  BY DEF WithLock, HasEquivalent, LocksSigned, Locked
<1>3. ASSUME NEW m, NEW x, x.chainLocked => b \in Lockable, Locked(m) \subseteq Lockable
      PROVE  Locked(Put(m, b, x)) \subseteq Lockable
  BY <1>3 DEF Locked, Put
<1>4. /\ Locked(Put(TrimmedTerminal(b), b, o)) \subseteq Lockable
      /\ Locked(Put(TrimmedTerminal(b), b, WithLock(b, o))) \subseteq Lockable
      /\ Locked(Put(TrimmedSync(b), b, WithLock(b, o))) \subseteq Lockable
  BY <1>1, <1>2, <1>3
<1>5. /\ mTerminalBlocks' \in {mTerminalBlocks, TrimmedTerminal(b), Put(TrimmedTerminal(b), b, o),
                               Put(TrimmedTerminal(b), b, WithLock(b, o))}
      /\ mSyncBlocks' \in {mSyncBlocks, TrimmedSync(b), Put(TrimmedSync(b), b, WithLock(b, o))}
  BY AddBlockMaps
<1>6. Locked(mTerminalBlocks') \subseteq Lockable
  BY <1>1, <1>4, <1>5 DEF LocksSigned
<1>7. Locked(mSyncBlocks') \subseteq Lockable
  BY <1>1, <1>4, <1>5 DEF LocksSigned
<1>8. QED
  BY <1>6, <1>7 DEF LocksSigned

\* Setting a lock marks at most the block it is for.
LEMMA SetLockMarks ==
  ASSUME NEW m, NEW b, NEW verified
  PROVE  Locked(SetLock(m, b, verified)) \subseteq Locked(m) \cup {b}
BY DEF Locked, SetLock

\* Only blocks that the quorums sign are marked, in every reachable state.
LEMMA SignedInvariant == Spec => []LocksSigned
<1>1. Locked(CheckpointBlocks) = {}
  BY DEF Locked, CheckpointBlocks, CheckpointObject
<1>2. Init => LocksSigned
  BY <1>1 DEF Init, LocksSigned
<1>3. TypeOK /\ LocksInv /\ LocksSigned /\ [Next]_vars => LocksSigned'
  <2> SUFFICES ASSUME TypeOK, LocksInv, LocksSigned, [Next]_vars PROVE LocksSigned'
    OBVIOUS
  <2>1. ASSUME NEW b \in Blocks, RelayBlock(b)
        PROVE  LocksSigned'
    <3> DEFINE o == Received(syncPhase # "InitialTerminalBlocks")
    <3>1. o \in Objects /\ ~o.chainLocked
      BY DEF Received, Objects
    <3>2. AddBlock(b, o, TRUE, <<>>)
      BY <2>1 DEF RelayBlock
    <3> HIDE DEF o
    <3>3. QED
      BY <3>1, <3>2, AddBlockSigned
  <2>2. CASE AddAdoptedOrphan
    <3>1. calls # <<>> /\ Head(calls).call = "addBlock"
      BY <2>2 DEF AddAdoptedOrphan
    <3>2. Head(calls).block \in Blocks /\ Head(calls).object \in Objects
      BY <3>1, CallsType, AddCallType
    <3>3. ~Head(calls).object.chainLocked
      BY <3>1, CoveredCallsNext DEF CoveredCalls
    <3>4. QED
      BY <2>2, <3>2, <3>3, AddBlockSigned DEF AddAdoptedOrphan
  <2>3. ASSUME NEW b \in Lockable, NEW verified \in BOOLEAN, RelayChainLock(b, verified)
        PROVE  LocksSigned'
    <3>1. mTerminalBlocks' = SetLock(mTerminalBlocks, b, verified) /\ mSyncBlocks' = mSyncBlocks
      BY <2>3 DEF RelayChainLock
    <3>2. Locked(mTerminalBlocks') \subseteq Lockable
      BY <3>1, SetLockMarks DEF LocksSigned
    <3>3. QED
      BY <3>1, <3>2 DEF LocksSigned
  <2>4. CASE LockSync
    <3>1. Head(calls).block \in Lockable
      BY <2>4, CallsType, LockSyncCallType DEF LockSync
    <3>2. /\ mSyncBlocks' = SetLock(mSyncBlocks, Head(calls).block, Head(calls).verified)
          /\ mTerminalBlocks' = mTerminalBlocks
      BY <2>4 DEF LockSync
    <3>3. Locked(mSyncBlocks') \subseteq Lockable
      BY <3>1, <3>2, SetLockMarks DEF LocksSigned
    <3>4. QED
      BY <3>2, <3>3 DEF LocksSigned
  <2>5. ASSUME NEW chain \in {"relinkTerminal", "relinkSync"},
               NEW m \in {mTerminalBlocks, mSyncBlocks}, NEW tip, RelinkOne(chain, m, tip)
        PROVE  LocksSigned'
    <3>1. CASE UNCHANGED <<mTerminalBlocks, mSyncBlocks>>
      BY <3>1 DEF LocksSigned
    <3>2. ASSUME NEW c \in Blocks \cap DOMAIN m, m[c] \in Objects, NEW rest,
                 AddBlock(c, m[c], FALSE, rest)
          PROVE  LocksSigned'
      <4>1. m[c].chainLocked => c \in Lockable
        BY DEF LocksSigned, Locked
      <4>2. QED
        BY <3>2, <4>1, AddBlockSigned
    <3>3. IsDictionary(m)
      BY DEF TypeOK
    <3>4. QED
      BY <2>5, <3>1, <3>2, <3>3, RelinkStep
  <2>6. CASE RelinkTerminal \/ RelinkSync
    BY <2>5, <2>6 DEF RelinkTerminal, RelinkSync
  <2>7. CASE UNCHANGED <<mTerminalBlocks, mSyncBlocks>>
    BY <2>7 DEF LocksSigned
  <2>8. CASE WipeBlockchain \/ WipeBlockchainNonTerminal
    BY <1>1, <2>8 DEF WipeBlockchain, WipeBlockchainNonTerminal, LocksSigned
  <2>9. QED
    BY <2>1, <2>2, <2>3, <2>4, <2>6, <2>7, <2>8
    DEF Next, RelayEarlyChainLock, StartSyncingBlockchain, FinishedSyncingMasternodeLists,
        AlreadySynced, StopSync, SetPhase, ChangeEstimate, vars
<1>4. QED
  BY <1>2, <1>3, TypeCorrect, LocksInvariant, PTL DEF Spec

\* What addBlock leaves of the sync chain, whether the tip moves or not.
LEMMA AddBlockKeepsChain ==
  ASSUME NEW b \in Blocks, NEW m, NEW kept \in TrimmedBy(m, b, KeepSync), NEW added, added.linked,
         NEW n, n = kept \/ n = Put(kept, b, added), NEW t \in Blocks, NEW x \in ChainOf(m, t),
         x = t \/ x \in DOMAIN n
  PROVE  x \in ChainOf(n, t)
<1>1. KeepSync \in Nat \ {0, 1}
  BY DataAssumption DEF DataAssumption
<1>2. x = t \/ x \in DOMAIN kept
  <2>1. x # t => x \in DOMAIN m
    BY ChainFacts
  <2>2. b \in DOMAIN m => b \in DOMAIN kept
    BY <1>1, TrimmingBuries
  <2>3. DOMAIN n \subseteq DOMAIN kept \cup {b}
    BY DEF Put
  <2>4. QED
    BY <2>1, <2>2, <2>3
<1>3. x \in ChainOf(kept, t)
  BY <1>1, <1>2, TrimmingKeepsChain
<1>4. QED
  BY <1>3, PuttingKeepsChain

\* A reorganisation of the sync chain past a locked block, by addBlock, is one
\* that the walk back has not seen.
LEMMA ReorgLeavesLock ==
  ASSUME TypeOK, LocksSigned', NEW b \in Blocks \ {Genesis}, NEW o \in Objects, o.linked,
         NEW peer, NEW rest, AddBlock(b, o, peer, rest), lastSyncBlock' # lastSyncBlock,
         NEW a \in Locked(mSyncBlocks) \cap SyncChain \cap Locked(mSyncBlocks'), a \notin SyncChain',
         NEW j \in SyncChain \cap SyncChain'
  PROVE  PassesLocks
<1> DEFINE m == mSyncBlocks  t == lastSyncBlock
<1>1. PICK kept \in TrimmedBy(m, b, KeepSync), added \in {WithLock(b, o)} :
        added.linked /\ mSyncBlocks' = Put(kept, b, added) /\ lastSyncBlock' = b
  BY AddBlockSync
<1>2. PICK n : n = mSyncBlocks'
  OBVIOUS
<1>3. n = Put(kept, b, added) /\ b \in DOMAIN n /\ n[b].linked
  BY <1>1, <1>2 DEF Put
<1>4. t \in Blocks /\ SyncChain = ChainOf(m, t) /\ b # t
  BY <1>1 DEF TypeOK, SyncChain
<1> DEFINE fork == {b} \cup Below(n, b)
           main == ChainOf(n, t)
<1>5. SyncChain' = fork
  <2>1. SyncChain' = ChainOf(mSyncBlocks', lastSyncBlock')
    BY DEF SyncChain
  <2>2. SyncChain' = ChainOf(n, b)
    BY <1>1, <1>2, <2>1
  <2>3. QED
    BY <1>3, <2>2 DEF ChainOf
<1>6. a \in Locked(m) /\ a \in Locked(n) /\ a \in DOMAIN n /\ a \notin fork /\ a \in ChainOf(m, t)
  BY <1>2, <1>4, <1>5 DEF Locked
<1>7. a \in main
  BY <1>1, <1>3, <1>4, <1>6, AddBlockKeepsChain
<1>8. Work[b] > Work[t] /\ Work[b] \in Nat /\ Work[t] \in Nat
  <2>1. Work[b] > Work[t]
    BY <1>1, <1>4, AddBlockTips
  <2>2. QED
    BY <1>4, <2>1, TreeAssumption DEF TreeAssumption
<1>9. b \notin Anc[t]
  BY <1>4, <1>8, AncestorsLighter
<1>10. b \notin main /\ b \notin ChainOf(m, t)
  BY <1>4, <1>9, ChainFacts
<1>11. j \in Below(n, b) /\ j \in DOMAIN n /\ j \in main
  <2>1. j \in ChainOf(m, t) /\ j \in fork
    BY <1>4, <1>5
  <2>2. j \in Below(n, b)
    BY <1>10, <2>1
  <2>3. j \in DOMAIN n
    BY <2>2, BelowFacts
  <2>4. j \in main
    BY <1>1, <1>3, <1>4, <2>1, <2>3, AddBlockKeepsChain
  <2>5. QED
    BY <2>2, <2>3, <2>4
<1> HIDE DEF main
<1>12. /\ a \in Blocks /\ a \in Anc[t] /\ Height[a] \in Nat /\ Height[a] <= Height[t]
       /\ \A x \in main : x \in Blocks /\ x \in Anc[t] /\ Height[x] \in Nat /\ Height[x] <= Height[t]
  BY <1>4, <1>7, ChainFacts DEF main
<1>13. ASSUME NEW z \in fork \cap main
       PROVE  Height[z] < Height[a]
  <2>1. z \in DOMAIN n
    BY <1>10, BelowFacts
  <2>2. Height[z] \in Nat
    BY <1>12
  <2>3. ~(Height[a] <= Height[z])
    BY <1>3, <1>4, <1>6, <1>7, <2>1, ChainsMeet DEF main
  <2>4. QED
    BY <1>12, <2>2, <2>3
<1>14. Height[j] < Height[a] /\ Height[j] \in Nat /\ Height[t] \in Nat /\ Height[b] \in Nat
  BY <1>4, <1>11, <1>12, <1>13, ParentFacts
<1>15. Parent[b] # t
  <2>1. SUFFICES ASSUME Parent[b] = t PROVE FALSE
    OBVIOUS
  <2>2. t \in Anc[b] \ {b}
    BY <2>1, ParentFacts
  <2>3. Height[j] < Height[t]
    BY <1>12, <1>14
  <2>4. t \in Below(n, b)
    BY <1>11, <2>2, <2>3, WalkThrough
  <2>5. t \in main
    BY DEF main, ChainOf
  <2>6. QED
    BY <1>12, <1>13, <1>14, <2>4, <2>5
<1>16. ~LockedOut(SyncJoin(n, b), Locked(n))
  <2>1. ~ExtendSyncChain(b, o, peer, rest)
    BY <1>4, <1>15 DEF ExtendSyncChain, ExtendsSync
  <2>2. SyncFork(b, o, peer, rest)
    BY <1>1, <1>4, <2>1 DEF AddBlock, StoreOrphan, RejectBlock, IgnoreFork, ExtendTerminalChain,
                            ReplaceTerminalBlock, TerminalFork, ReplaceSyncBlock
  <2>3. ReorgsSync(mSyncBlocks', b)
    BY <1>1, <1>4, <2>2 DEF SyncFork
  <2>4. QED
    BY <1>2, <2>3 DEF ReorgsSync
<1>17. Height[b] < Height[t]
  <2>1. SUFFICES ASSUME Height[t] <= Height[b] PROVE FALSE
    BY <1>14
  <2>2. fork \in SUBSET Blocks /\ b \in fork /\ t \in main /\ main \in SUBSET Blocks
    BY <1>12, BelowFacts DEF main, ChainOf
  <2>3. j \in fork \cap main /\ a \in main \cap Locked(n)
    BY <1>6, <1>7, <1>11
  <2>4. \A x, y \in fork : Height[x] = Height[y] => x = y
    <3>1. \A x \in fork : x \in Anc[b]
      BY BelowFacts, ParentFacts
    <3>2. QED
      BY <3>1, AncestorsDistinct
  <2>5. \A x, y \in main : Height[x] = Height[y] => x = y
    BY <1>4, <1>12, AncestorsDistinct
  <2>6. \A h \in Height[j] .. Height[b] : \E x \in fork : Height[x] = h
    BY <1>11, ChainContiguous
  <2>7. \A h \in Height[a] .. Height[t] : \E x \in main : Height[x] = h
    <3>1. CASE a = t
      BY <1>7, <1>14, <3>1
    <3>2. CASE a # t
      <4>1. a \in Below(n, t) /\ main = {t} \cup Below(n, t)
        BY <1>7, <3>2 DEF main, ChainOf
      <4>2. QED
        BY <1>4, <4>1, ChainContiguous
    <3>3. QED
      BY <3>1, <3>2
  <2>8. \A x \in main : Height[x] <= Height[t]
    BY <1>12
  <2>9. SyncJoin(n, b) = WalkBack(fork, b, main, t, Locked(n))
    BY DEF SyncJoin, main
  <2> HIDE DEF fork, t
  <2>10. LockedOut(WalkBack(fork, b, main, t, Locked(n)), Locked(n))
    BY <1>13, <2>1, <2>2, <2>3, <2>4, <2>5, <2>6, <2>7, <2>8, WalkFindsLock
  <2>11. QED
    BY <1>16, <2>9, <2>10
<1>18. b \notin Locked(n)
  <2>1. SUFFICES ASSUME b \in Locked(n) PROVE FALSE
    OBVIOUS
  <2>2. a \in Lockable /\ b \in Lockable
    BY <1>2, <1>6, <2>1 DEF LocksSigned
  <2>3. CASE a \in Anc[b]
    <3>1. a \in Anc[b] \ {b}
      BY <1>6, <2>3
    <3>2. a \in Below(n, b)
      BY <1>11, <1>14, <3>1, WalkThrough
    <3>3. QED
      BY <1>6, <3>2
  <2>4. CASE b \in Anc[a]
    BY <1>4, <1>9, <1>12, <2>4, AncestorsTransitive
  <2>5. QED
    BY <2>2, <2>3, <2>4, LockAssumption DEF LockAssumption
<1>19. QED
  BY <1>1, <1>2, <1>8, <1>17, <1>18 DEF PassesLocks

\* A call of addBlock takes a locked block off the sync chain only in the two ways
\* that SyncLocksKept names.
LEMMA AddBlockLocksHold ==
  ASSUME TypeOK, LocksSigned, NEW b \in Blocks \ {Genesis}, NEW o \in Objects, o.linked,
         o.chainLocked => b \in Lockable, NEW peer, NEW rest, AddBlock(b, o, peer, rest)
  PROVE  SyncLocksKept
<1>1. LocksSigned'
  BY AddBlockSigned
<1>2. SUFFICES ASSUME NEW a \in Locked(mSyncBlocks) \cap SyncChain \cap Locked(mSyncBlocks'),
                      a \notin SyncChain', NEW j \in SyncChain \cap SyncChain'
               PROVE  PassesLocks
  BY DEF SyncLocksKept
<1>3. CASE lastSyncBlock' # lastSyncBlock
  BY <1>1, <1>2, <1>3, ReorgLeavesLock
<1>4. CASE lastSyncBlock' = lastSyncBlock
  <2>1. PICK kept \in TrimmedBy(mSyncBlocks, b, KeepSync), added \in {WithLock(b, o)} :
          added.linked /\ (mSyncBlocks' = kept \/ mSyncBlocks' = Put(kept, b, added))
    BY AddBlockSync
  <2>2. PICK n : n = mSyncBlocks'
    OBVIOUS
  <2>3. a \in DOMAIN n /\ a \in ChainOf(mSyncBlocks, lastSyncBlock) /\ lastSyncBlock \in Blocks
    BY <1>2, <2>2 DEF Locked, SyncChain, TypeOK
  <2>4. a \in ChainOf(n, lastSyncBlock)
    BY <2>1, <2>2, <2>3, AddBlockKeepsChain
  <2>5. a \in SyncChain'
    BY <1>4, <2>2, <2>4 DEF SyncChain
  <2>6. QED
    BY <1>2, <2>5
<1>5. QED
  BY <1>3, <1>4

\* A chain is the same in a dictionary whose hashes and links are the same.
LEMMA SameLinksChain ==
  ASSUME NEW m, NEW n, DOMAIN n = DOMAIN m, \A x \in DOMAIN m : n[x].linked = m[x].linked, NEW t
  PROVE  Below(n, t) = Below(m, t) /\ ChainOf(n, t) = ChainOf(m, t)
<1>1. Below(n, t) = Below(m, t)
  BY DEF Below
<1>2. QED
  BY <1>1 DEF ChainOf

\* A lock that the quorums can sign, on a branch that joins the sync chain, is above
\* every lock of that chain: the branch holds them all.
LEMMA LockedBranchHolds ==
  ASSUME NEW m, NEW t \in Blocks, NEW b \in Lockable, b \in DOMAIN m => m[b].linked,
         b \notin ChainOf(m, t), NEW j \in ChainOf(m, t) \cap ({b} \cup Below(m, b)),
         NEW a \in ChainOf(m, t) \cap Lockable
  PROVE  a \in {b} \cup Below(m, b)
<1>1. b \in Blocks
  BY LockAssumption DEF LockAssumption
<1>2. j \in Below(m, b)
  OBVIOUS
<1>3. /\ j \in Blocks /\ j \in Anc[b] /\ j # b /\ j \in DOMAIN m /\ Height[j] \in Nat
      /\ Height[j] < Height[b] /\ Height[b] \in Nat
  BY <1>1, <1>2, BelowFacts, ParentFacts
<1>4. a \in Blocks /\ a \in Anc[t] /\ Height[a] \in Nat
  BY ChainFacts
<1>5. CASE Height[a] <= Height[j]
  BY <1>1, <1>3, <1>5, ChainsMeet
<1>6. CASE Height[j] < Height[a] /\ a \in Anc[b]
  <2>1. CASE a = b
    BY <2>1
  <2>2. CASE a # b
    BY <1>1, <1>2, <1>6, <2>2, WalkThrough
  <2>3. QED
    BY <2>1, <2>2
<1>7. CASE Height[j] < Height[a] /\ b \in Anc[a]
  <2>1. b \in Anc[t] /\ b # t
    BY <1>1, <1>4, <1>7, AncestorsTransitive DEF ChainOf
  <2>2. j # t /\ j \in Below(m, t) /\ (t \in DOMAIN m => m[t].linked)
    <3>1. Height[a] <= Height[t] /\ Height[t] \in Nat
      BY ChainFacts, ParentFacts
    <3>2. j # t
      BY <1>3, <1>4, <1>7, <3>1
    <3>3. QED
      BY <3>2, ChainFacts
  <2>3. b \in Below(m, t)
    BY <1>3, <2>1, <2>2, WalkThrough
  <2>4. QED
    BY <2>2, <2>3 DEF ChainOf
<1>8. QED
  BY <1>3, <1>4, <1>5, <1>6, <1>7, LockAssumption DEF LockAssumption

\* The sync half of addChainLock takes no locked block off the sync chain, unless
\* the branch of the new lock joins that chain nowhere.
LEMMA LockSyncLocksHold ==
  ASSUME TypeOK, LocksSigned, TipsInv, LockSync
  PROVE  SyncLocksKept
<1> DEFINE b == Head(calls).block
           verified == Head(calls).verified
<1>1. b \in Lockable /\ b \in Blocks /\ verified \in BOOLEAN
  BY CallsType, LockSyncCallType, LockAssumption DEF LockSync, LockAssumption
<1>2. PICK n : n = mSyncBlocks'
  OBVIOUS
<1>3. n = SetLock(mSyncBlocks, b, verified)
  BY <1>2 DEF LockSync
<1>4. \/ lastSyncBlock' = lastSyncBlock
      \/ lastSyncBlock' = b /\ b \in DOMAIN mSyncBlocks /\ b \notin SyncChain
  BY DEF LockSync
<1> HIDE DEF b, verified
<1>5. /\ DOMAIN n = DOMAIN mSyncBlocks
      /\ \A x \in DOMAIN mSyncBlocks : n[x].linked = mSyncBlocks[x].linked
  BY <1>1, <1>3, SetLockLinks DEF TypeOK
<1>6. \A t : ChainOf(n, t) = ChainOf(mSyncBlocks, t)
  BY <1>5, SameLinksChain
<1>7. SyncChain' = ChainOf(mSyncBlocks, lastSyncBlock')
  BY <1>2, <1>6 DEF SyncChain
<1>8. SUFFICES ASSUME NEW a \in Locked(mSyncBlocks) \cap SyncChain \cap Locked(mSyncBlocks'),
                      NEW j \in SyncChain \cap SyncChain'
               PROVE  a \in SyncChain'
  BY DEF SyncLocksKept
<1>9. CASE lastSyncBlock' = lastSyncBlock
  BY <1>7, <1>8, <1>9 DEF SyncChain
<1>10. CASE lastSyncBlock' = b /\ b \in DOMAIN mSyncBlocks /\ b \notin SyncChain
  <2>1. SyncChain = ChainOf(mSyncBlocks, lastSyncBlock) /\ lastSyncBlock \in Blocks
    BY DEF SyncChain, TypeOK
  <2>2. j \in ChainOf(mSyncBlocks, b) /\ j # b
    BY <1>7, <1>8, <1>10
  <2>3. j \in Below(mSyncBlocks, b) /\ mSyncBlocks[b].linked
    BY <1>1, <1>10, <2>2, ChainFacts
  <2>4. a \in Lockable
    BY <1>8 DEF LocksSigned
  <2>5. a \in {b} \cup Below(mSyncBlocks, b)
    BY <1>1, <1>8, <1>10, <2>1, <2>3, <2>4, LockedBranchHolds
  <2>6. QED
    BY <1>7, <1>10, <2>3, <2>5 DEF ChainOf
<1>11. QED
  BY <1>4, <1>9, <1>10

\* What the steps that may change the sync chain have in common: they are calls of
\* addBlock with an object that has a previous hash, the sync half of addChainLock,
\* or a wipe.
LEMMA SyncSteps ==
  ASSUME TypeOK, LocksInv, LocksSigned, TipsInv, Next
  PROVE  \/ \E b \in Blocks \ {Genesis}, o \in Objects, peer \in BOOLEAN : \E rest :
              o.linked /\ (o.chainLocked => b \in Lockable) /\ AddBlock(b, o, peer, rest)
         \/ LockSync
         \/ WipeBlockchain \/ WipeBlockchainNonTerminal
         \/ UNCHANGED <<mSyncBlocks, lastSyncBlock, blockHeight>>
<1>1. ASSUME NEW b \in Blocks, RelayBlock(b)
      PROVE  \E o \in Objects : /\ o.linked /\ ~o.chainLocked /\ b # Genesis
                                /\ AddBlock(b, o, TRUE, <<>>)
  <2> DEFINE o == Received(syncPhase # "InitialTerminalBlocks")
  <2>1. o \in Objects /\ ~o.chainLocked /\ o.linked
    BY DEF Received, Objects
  <2>2. b # Genesis /\ AddBlock(b, o, TRUE, <<>>)
    BY <1>1 DEF RelayBlock
  <2> HIDE DEF o
  <2>3. QED
    BY <2>1, <2>2
<1>2. ASSUME AddAdoptedOrphan
      PROVE  \E b \in Blocks \ {Genesis}, o \in Objects, peer \in BOOLEAN, rest \in {Tail(calls)} :
               o.linked /\ ~o.chainLocked /\ AddBlock(b, o, peer, rest)
  <2>1. calls # <<>> /\ Head(calls).call = "addBlock"
    BY <1>2 DEF AddAdoptedOrphan
  <2>2. /\ Head(calls).block \in Blocks \ {Genesis} /\ Head(calls).object \in Objects
        /\ Head(calls).peer \in BOOLEAN
    BY <2>1, CallsType, AddCallType
  <2>3. ~Head(calls).object.chainLocked /\ Head(calls).object.linked
    BY <2>1, LinkedCallsNext, CoveredCallsNext DEF CoveredCalls, LinkedCalls
  <2>4. QED
    BY <1>2, <2>2, <2>3 DEF AddAdoptedOrphan
<1>3. ASSUME NEW chain \in {"relinkTerminal", "relinkSync"},
             NEW m \in {mTerminalBlocks, mSyncBlocks}, NEW tip, RelinkOne(chain, m, tip)
      PROVE  \/ UNCHANGED <<mSyncBlocks, lastSyncBlock, blockHeight>>
             \/ \E b \in Blocks \ {Genesis}, o \in Objects : \E rest :
                  o.linked /\ (o.chainLocked => b \in Lockable) /\ AddBlock(b, o, FALSE, rest)
  <2>1. calls # <<>> /\ Head(calls).call = chain /\ IsDictionary(m)
    BY <1>3 DEF RelinkOne, TypeOK
  <2>2. CASE NextLinks(m, tip, Head(calls)) = {}
    BY <1>3, <2>2 DEF RelinkOne
  <2>3. CASE NextLinks(m, tip, Head(calls)) # {}
    <3>1. PICK c \in NextLinks(m, tip, Head(calls)) :
            AddBlock(c, m[c], FALSE,
                     <<Relink(chain, Head(calls).fork, Head(calls).added \cup {c})>> \o Tail(calls))
      BY <1>3, <2>3 DEF RelinkOne
    <3>2. c \in Blocks \ {Genesis} /\ c \in DOMAIN m /\ m[c].linked
      BY <2>1, <3>1 DEF NextLinks, IsDictionary
    <3>3. m[c] \in Objects /\ (m[c].chainLocked => c \in Lockable)
      BY <2>1, <3>2 DEF IsDictionary, LocksSigned, Locked
    <3>4. QED
      BY <3>1, <3>2, <3>3
  <2>4. QED
    BY <2>2, <2>3
<1>4. CASE RelinkTerminal \/ RelinkSync
  BY <1>3, <1>4 DEF RelinkTerminal, RelinkSync
<1>5. CASE \E b \in Lockable, verified \in BOOLEAN : RelayChainLock(b, verified)
  BY <1>5 DEF RelayChainLock
<1>6. QED
  BY <1>1, <1>2, <1>4, <1>5
  DEF Next, RelayEarlyChainLock, StartSyncingBlockchain, FinishedSyncingMasternodeLists,
      AlreadySynced, StopSync, SetPhase, ChangeEstimate

\* Whatever the handlers do, in any order, a chain locked block that stays marked
\* leaves the sync chain only for a branch that joins the chain nowhere, as far as
\* it is kept, or for one that has more work and is lower.
THEOREM LockedBlocksStay == Spec => LocksHoldSyncChain
<1>1. TypeOK /\ LocksInv /\ LocksSigned /\ TipsInv /\ [Next]_vars => [SyncLocksKept]_vars
  <2> SUFFICES ASSUME TypeOK, LocksInv, LocksSigned, TipsInv, Next PROVE SyncLocksKept
    OBVIOUS
  <2>1. CASE UNCHANGED <<mSyncBlocks, lastSyncBlock>>
    BY <2>1 DEF SyncLocksKept, SyncChain
  <2>2. CASE WipeBlockchain \/ WipeBlockchainNonTerminal
    <3>1. mSyncBlocks' = CheckpointBlocks
      BY <2>2 DEF WipeBlockchain, WipeBlockchainNonTerminal
    <3>2. Locked(CheckpointBlocks) = {}
      BY DEF Locked, CheckpointBlocks, CheckpointObject
    <3>3. Locked(mSyncBlocks') = {}
      BY <3>1, <3>2
    <3>4. QED
      BY <3>3 DEF SyncLocksKept
  <2>3. QED
    BY <2>1, <2>2, SyncSteps, AddBlockLocksHold, LockSyncLocksHold
<1>2. QED
  BY <1>1, TypeCorrect, LocksInvariant, SignedInvariant, TipsInvariant, PTL
  DEF Spec, LocksHoldSyncChain

-----------------------------------------------------------------------------
(* Transaction heights *)

\* A reorganisation sets a transaction of the new part of the branch to the height
\* of a block of it, and may unconfirm another one that is above the join.
LEMMA ReorgHeightsOf ==
  ASSUME NEW m, NEW branch, NEW join, NEW visited \in Visited(join), NEW t \in Txs
  PROVE  LET h == ReorgHeights(m, branch, join, visited)[t]
         IN \/ \E x \in branch : /\ Height[x] > HeightOf(join.b2) /\ t \in HashesIn(m, x)
                                /\ h = Height[x]
            \/ /\ \A x \in branch : Height[x] > HeightOf(join.b2) => t \notin HashesIn(m, x)
               /\ h = blockHeight[t] \/ (h = Unconfirmed /\ blockHeight[t] > HeightOf(join.b))
<1> DEFINE new == {x \in branch : Height[x] > HeightOf(join.b2)}
           c == CHOOSE x \in new : t \in HashesIn(m, x)
           h == ReorgHeights(m, branch, join, visited)[t]
<1>1. h = IF \E x \in new : t \in HashesIn(m, x) THEN Height[c]
          ELSE IF t \in visited THEN Unconfirmed ELSE blockHeight[t]
  BY DEF ReorgHeights
<1>2. t \in visited => blockHeight[t] > HeightOf(join.b)
  BY DEF Visited
<1>3. CASE \E x \in new : t \in HashesIn(m, x)
  <2>1. c \in new /\ t \in HashesIn(m, c)
    BY <1>3
  <2>2. h = Height[c]
    BY <1>1, <1>3
  <2> HIDE DEF c, h
  <2>3. QED
    BY <2>1, <2>2 DEF h
<1>4. CASE ~ \E x \in new : t \in HashesIn(m, x)
  <2>1. h = IF t \in visited THEN Unconfirmed ELSE blockHeight[t]
    BY <1>1, <1>4
  <2>2. QED
    BY <1>2, <1>4, <2>1
<1>5. QED
  BY <1>3, <1>4

\* The ways in which addBlock changes heights: it sets those of the transactions of
\* a block that is on one of the chains afterwards, or reorganises the sync chain.
LEMMA AddBlockHeights ==
  ASSUME TypeOK, NEW b \in Blocks \ {Genesis}, NEW o \in Objects, o.linked, NEW peer, NEW rest,
         AddBlock(b, o, peer, rest)
  PROVE  \/ blockHeight' = blockHeight /\ lastSyncBlock' = lastSyncBlock
         \/ /\ blockHeight' = SetBlockHeight(blockHeight, Hashes(b, o), Height[b])
            /\ \/ lastSyncBlock' = lastSyncBlock /\ b \in SyncChain' \cup TerminalChain'
               \/ lastSyncBlock' = b /\ Parent[b] = lastSyncBlock
         \/ LET n == mSyncBlocks'
                join == SyncJoin(n, b)
            IN /\ \E visited \in Visited(join) :
                    blockHeight' = ReorgHeights(n, {b} \cup Below(n, b), join, visited)
               /\ lastSyncBlock' = b /\ Work[b] > Work[lastSyncBlock]
               /\ ~LockedOut(join, Locked(n))
<1>1. CASE \/ StoreOrphan(b, o, rest) \/ RejectBlock(b, rest) \/ IgnoreFork(b, rest)
           \/ ExtendTerminalChain(b, o, peer, rest) \/ TerminalFork(b, o, peer, rest)
  BY <1>1 DEF StoreOrphan, RejectBlock, IgnoreFork, ExtendTerminalChain, TerminalFork
<1>2. CASE ExtendSyncChain(b, o, peer, rest)
  <2>1. /\ blockHeight' = SetBlockHeight(blockHeight, Hashes(b, o), Height[b])
        /\ lastSyncBlock' = b /\ Parent[b] = lastSyncBlock
    BY <1>2 DEF ExtendSyncChain, ExtendsSync
  <2>2. QED
    BY <2>1
<1>3. CASE ReplaceSyncBlock(b, o, peer, rest)
  <2>1. /\ lastSyncBlock' = lastSyncBlock
        /\ \/ blockHeight' = blockHeight
           \/ /\ blockHeight' = SetBlockHeight(blockHeight, Hashes(b, o), Height[b])
              /\ b \in ChainOf(mSyncBlocks', lastSyncBlock)
    BY <1>3 DEF ReplaceSyncBlock
  <2>2. ChainOf(mSyncBlocks', lastSyncBlock) = SyncChain'
    BY <2>1 DEF SyncChain
  <2>3. QED
    BY <2>1, <2>2
<1>4. CASE ReplaceTerminalBlock(b, o, peer, rest)
  <2>1. /\ lastSyncBlock' = lastSyncBlock /\ lastTerminalBlock' = lastTerminalBlock
        /\ \/ blockHeight' = blockHeight
           \/ /\ blockHeight' = SetBlockHeight(blockHeight, Hashes(b, o), Height[b])
              /\ b \in ChainOf(mTerminalBlocks', lastTerminalBlock)
    BY <1>4 DEF ReplaceTerminalBlock
  <2>2. ChainOf(mTerminalBlocks', lastTerminalBlock) = TerminalChain'
    BY <2>1 DEF TerminalChain
  <2>3. QED
    BY <2>1, <2>2
<1>5. CASE SyncFork(b, o, peer, rest)
  <2>1. PICK n : n = mSyncBlocks'
    OBVIOUS
  <2>2. n = Put(TrimmedSync(b), b, WithLock(b, o))
    BY <1>5, <2>1 DEF SyncFork
  <2>3. \/ blockHeight' = blockHeight /\ lastSyncBlock' = lastSyncBlock
        \/ /\ ReorgsSync(n, b) /\ lastSyncBlock' = b
           /\ \E visited \in Visited(SyncJoin(n, b)) :
                blockHeight' = ReorgHeights(n, {b} \cup Below(n, b), SyncJoin(n, b), visited)
    BY <1>5, <2>2 DEF SyncFork
  <2>4. QED
    BY <2>1, <2>3 DEF ReorgsSync
<1>6. QED
  BY <1>1, <1>2, <1>3, <1>4, <1>5 DEF AddBlock
\* The chain of a new tip is the tip and what the walk down from it finds.
LEMMA NewTipChain ==
  ASSUME NEW b, NEW n, n = mSyncBlocks', lastSyncBlock' = b, b \in DOMAIN n => n[b].linked
  PROVE  SyncChain' = {b} \cup Below(n, b)
<1>1. SyncChain' = ChainOf(mSyncBlocks', lastSyncBlock')
  BY DEF SyncChain
<1>2. SyncChain' = ChainOf(n, b)
  BY <1>1
<1>3. QED
  BY <1>2 DEF ChainOf

\* A reorganisation gives only heights of blocks that are on the sync chain after it.
LEMMA ReorgFollowsBlocks ==
  ASSUME NEW b \in Blocks, NEW n, n = mSyncBlocks', lastSyncBlock' = b, lastSyncBlock' # lastSyncBlock,
         b \in DOMAIN n => n[b].linked, NEW join, NEW visited \in Visited(join),
         blockHeight' = ReorgHeights(n, {b} \cup Below(n, b), join, visited)
  PROVE  HeightsFollowBlocks
<1> SUFFICES ASSUME NEW t \in Txs, blockHeight'[t] # blockHeight[t]
             PROVE  \/ \E x \in SyncChain' : t \in TxsOf[x] /\ blockHeight'[t] = Height[x]
                    \/ blockHeight'[t] = Unconfirmed
  BY DEF HeightsFollowBlocks
<1>1. SyncChain' = {b} \cup Below(n, b)
  BY NewTipChain
<1>2. \/ \E x \in {b} \cup Below(n, b) : t \in HashesIn(n, x) /\ blockHeight'[t] = Height[x]
      \/ blockHeight'[t] = blockHeight[t] \/ blockHeight'[t] = Unconfirmed
  BY ReorgHeightsOf
<1>3. \A x \in {b} \cup Below(n, b) : t \in HashesIn(n, x) => t \in TxsOf[x]
  BY DEF HashesIn, Hashes
<1>4. QED
  BY <1>1, <1>2, <1>3

\* So does every call of addBlock.
LEMMA AddBlockFollowsBlocks ==
  ASSUME TypeOK, NEW b \in Blocks \ {Genesis}, NEW o \in Objects, o.linked, NEW peer, NEW rest,
         AddBlock(b, o, peer, rest)
  PROVE  HeightsFollowBlocks
<1>1. CASE blockHeight' = blockHeight
  BY <1>1 DEF HeightsFollowBlocks
<1>2. CASE /\ blockHeight' = SetBlockHeight(blockHeight, Hashes(b, o), Height[b])
           /\ b \in SyncChain' \cup TerminalChain' \/ lastSyncBlock' = b
  <2>1. b \in SyncChain' \cup TerminalChain'
    BY <1>2 DEF SyncChain, ChainOf
  <2>2. \A t \in Txs : blockHeight'[t] # blockHeight[t] => t \in TxsOf[b] /\ blockHeight'[t] = Height[b]
    BY <1>2 DEF SetBlockHeight, Hashes
  <2>3. QED
    BY <2>1, <2>2 DEF HeightsFollowBlocks
<1>3. PICK n : n = mSyncBlocks'
  OBVIOUS
<1>4. CASE /\ \E visited \in Visited(SyncJoin(n, b)) :
                blockHeight' = ReorgHeights(n, {b} \cup Below(n, b), SyncJoin(n, b), visited)
           /\ lastSyncBlock' = b /\ Work[b] > Work[lastSyncBlock]
  <2>1. Work[lastSyncBlock] \in Nat /\ lastSyncBlock' # lastSyncBlock
    BY <1>4, TreeAssumption DEF TreeAssumption, TypeOK
  <2>2. \E kept \in TrimmedBy(mSyncBlocks, b, KeepSync) :
           \E added : added.linked /\ n = Put(kept, b, added)
    BY <1>3, <1>4, <2>1, AddBlockSync
  <2>3. n[b].linked
    BY <2>2 DEF Put
  <2>4. QED
    BY <1>3, <1>4, <2>1, <2>3, ReorgFollowsBlocks
<1>5. QED
  BY <1>1, <1>2, <1>3, <1>4, AddBlockHeights

\* And the sync half of addChainLock.
LEMMA LockSyncFollowsBlocks ==
  ASSUME TypeOK, TipsInv, LockSync
  PROVE  HeightsFollowBlocks
<1> DEFINE b == Head(calls).block
           verified == Head(calls).verified
<1>1. b \in Lockable /\ b \in Blocks \ Checkpoints /\ verified \in BOOLEAN
  BY CallsType, LockSyncCallType, LockAssumption DEF LockSync, LockAssumption
<1>2. PICK n : n = mSyncBlocks'
  OBVIOUS
<1>3. n = SetLock(mSyncBlocks, b, verified)
  BY <1>2 DEF LockSync
<1>4. \/ blockHeight' = blockHeight
      \/ /\ lastSyncBlock' = b /\ b \in DOMAIN mSyncBlocks /\ b \notin SyncChain
         /\ \E join : \E visited \in Visited(join) :
              blockHeight' = ReorgHeights(n, {b} \cup Below(n, b), join, visited)
  BY <1>3 DEF LockSync
<1> HIDE DEF b, verified
<1>5. CASE blockHeight' = blockHeight
  BY <1>5 DEF HeightsFollowBlocks
<1>6. CASE /\ lastSyncBlock' = b /\ b \in DOMAIN mSyncBlocks /\ b \notin SyncChain
           /\ \E join : \E visited \in Visited(join) :
                blockHeight' = ReorgHeights(n, {b} \cup Below(n, b), join, visited)
  <2>1. lastSyncBlock' # lastSyncBlock
    BY <1>6 DEF SyncChain, ChainOf
  <2>2. mSyncBlocks[b].linked
    BY <1>1, <1>6 DEF TipsInv, SyncBlocksLinked
  <2>3. n[b].linked
    BY <1>1, <1>3, <1>6, <2>2, SetLockLinks DEF TypeOK
  <2>4. QED
    BY <1>1, <1>2, <1>6, <2>1, <2>3, ReorgFollowsBlocks
<1>7. QED
  BY <1>4, <1>5, <1>6

\* Whatever is added, adopted, locked, relinked or wiped, in any order, a transaction
\* is confirmed at the height of a block that mines it and is on one of the chains.
THEOREM HeightsComeFromChains == Spec => HeightsFollowChains
<1>1. TypeOK /\ LocksInv /\ LocksSigned /\ TipsInv /\ [Next]_vars => [HeightsFollowBlocks]_vars
  <2> SUFFICES ASSUME TypeOK, LocksInv, LocksSigned, TipsInv, Next PROVE HeightsFollowBlocks
    OBVIOUS
  <2>1. CASE WipeBlockchain \/ WipeBlockchainNonTerminal
    BY <2>1 DEF WipeBlockchain, WipeBlockchainNonTerminal, HeightsFollowBlocks
  <2>2. CASE UNCHANGED <<mSyncBlocks, lastSyncBlock, blockHeight>>
    BY <2>2 DEF HeightsFollowBlocks
  <2>3. QED
    BY <2>1, <2>2, SyncSteps, AddBlockFollowsBlocks, LockSyncFollowsBlocks
<1>2. QED
  BY <1>1, TypeCorrect, LocksInvariant, SignedInvariant, TipsInvariant, PTL
  DEF Spec, HeightsFollowChains
-----------------------------------------------------------------------------
(* What a reorganisation of the sync chain confirms *)

\* A set of blocks that are no higher than a given one has a highest one.
LEMMA HighestBlock ==
  ASSUME NEW b \in Blocks, NEW S \in SUBSET Blocks, S # {}, \A x \in S : Height[x] <= Height[b]
  PROVE  \E x \in S : \A y \in S : Height[y] <= Height[x]
<1> DEFINE T == {Height[b] - Height[x] : x \in S}
<1>1. Height[b] \in Nat /\ \A x \in S : Height[x] \in Nat
  BY TreeAssumption DEF TreeAssumption
<1>2. T \in SUBSET Nat /\ T # {}
  BY <1>1
<1> HIDE DEF T
<1>3. PICK n \in T : \A m \in T : n <= m
  BY <1>2, LeastNat
<1>4. PICK x \in S : n = Height[b] - Height[x]
  BY <1>3 DEF T
<1>5. \A y \in S : n <= Height[b] - Height[y]
  BY <1>3 DEF T
<1>6. QED
  BY <1>1, <1>4, <1>5

\* A walk from a block at least as high as the tip, down a branch that joins the
\* main chain, stops where it joins unless a lock stops it before.
LEMMA WalkFindsJoin ==
  ASSUME NEW fork \in SUBSET Blocks, NEW main \in SUBSET Blocks, NEW locks,
         NEW b \in fork, NEW t \in main, NEW j \in fork \cap main,
         Height[t] <= Height[b],
         \A x, y \in fork : Height[x] = Height[y] => x = y,
         \A x, y \in main : Height[x] = Height[y] => x = y,
         \A x \in main : Height[x] <= Height[t],
         \A h \in Height[j] .. Height[b] : \E x \in fork : Height[x] = h,
         \A h \in Height[j] .. Height[t] : \E x \in main : Height[x] = h,
         \A z \in fork \cap main : Height[z] <= Height[j],
         ~LockedOut(WalkBack(fork, b, main, t, locks), locks)
  PROVE  WalkBack(fork, b, main, t, locks) = [b |-> j, b2 |-> j]
<1> DEFINE lead == IF Height[b] > Height[t] THEN Height[b] - Height[t] ELSE 0
           Fork(k) == IF k = 0 THEN b ELSE At(fork, Height[b] - k)
           Turns(k) == IF k > lead THEN k - lead ELSE 0
           Steps(k) == IF Fork(k) = NoBlock THEN Turns(k - 1) + 1 ELSE Turns(k)
           Main(k) == At(main, Height[t] - Steps(k))
           Stops(k) == \/ Fork(k) = NoBlock \/ Main(k) = NoBlock
                       \/ Fork(k) = Main(k) \/ Main(k) \in locks
           last == CHOOSE k \in 0 .. Height[b] :
                     Stops(k) /\ \A i \in 0 .. Height[b] : Stops(i) => k <= i
<1>1. WalkBack(fork, b, main, t, locks) = [b |-> Fork(last), b2 |-> Main(last)]
  BY DEF WalkBack
<1>2. /\ Height[b] \in Nat /\ Height[t] \in Nat /\ Height[j] \in Nat /\ Height[j] <= Height[t]
      /\ \A x \in fork \cup main : Height[x] \in Nat \ {0} /\ x # NoBlock
  BY TreeAssumption DEF TreeAssumption
<1>3. lead = Height[b] - Height[t] /\ lead \in Nat
  BY <1>2
<1> DEFINE kj == Height[b] - Height[j]
<1>4. ASSUME NEW k \in 0 .. kj
      PROVE  Fork(k) \in fork /\ Height[Fork(k)] = Height[b] - k /\ Fork(k) # NoBlock
  <2>1. CASE k = 0
    BY <1>2, <2>1
  <2>2. CASE k # 0
    <3>1. Height[b] - k \in Height[j] .. Height[b]
      BY <1>2
    <3>2. PICK x \in fork : Height[x] = Height[b] - k
      BY <3>1
    <3>3. At(fork, Height[b] - k) = x
      BY <3>2, AtHeight
    <3>4. QED
      BY <1>2, <2>2, <3>2, <3>3
  <2>3. QED
    BY <2>1, <2>2
<1>5. ASSUME NEW k \in 0 .. kj
      PROVE  Main(k) \in main /\ Height[Main(k)] = Height[t] - Turns(k) /\ Main(k) # NoBlock
  <2>1. Steps(k) = Turns(k)
    BY <1>4
  <2>2. Height[t] - Turns(k) \in Height[j] .. Height[t]
    BY <1>2, <1>3
  <2>3. PICK x \in main : Height[x] = Height[t] - Turns(k)
    BY <2>2
  <2>4. At(main, Height[t] - Turns(k)) = x
    BY <2>3, AtHeight
  <2>5. QED
    BY <1>2, <2>1, <2>3, <2>4
<1>6. kj \in 0 .. Height[b] /\ kj \in 0 .. kj /\ Height[b] - kj = Height[j]
      /\ Height[t] - Turns(kj) = Height[j]
  BY <1>2, <1>3
<1> HIDE DEF kj
<1>7. Fork(kj) = j /\ Main(kj) = j
  <2>1. Fork(kj) \in fork /\ Height[Fork(kj)] = Height[j]
    BY <1>4, <1>6
  <2>2. Main(kj) \in main /\ Height[Main(kj)] = Height[j]
    BY <1>5, <1>6
  <2> HIDE DEF Fork, Main
  <2>3. QED
    BY <2>1, <2>2
<1>8. Stops(kj)
  BY <1>7
<1> HIDE DEF Stops
<1>9. PICK k \in 0 .. Height[b] : Stops(k) /\ \A i \in 0 .. Height[b] : Stops(i) => k <= i
  <2> DEFINE T == {i \in 0 .. Height[b] : Stops(i)}
  <2>1. T \in SUBSET Nat /\ T # {}
    BY <1>6, <1>8
  <2> HIDE DEF T
  <2>2. PICK k \in T : \A i \in T : k <= i
    BY <2>1, LeastNat
  <2>3. QED
    BY <2>2 DEF T
<1>10. last \in 0 .. Height[b] /\ Stops(last) /\ last <= kj
  BY <1>6, <1>8, <1>9
<1> HIDE DEF last
<1>11. last \in 0 .. kj
  BY <1>6, <1>10
<1>12. /\ Fork(last) \in fork /\ Height[Fork(last)] = Height[b] - last /\ Fork(last) # NoBlock
       /\ Main(last) \in main /\ Main(last) # NoBlock
  BY <1>4, <1>5, <1>11
<1>13. Fork(last) = Main(last)
  <2>1. SUFFICES ASSUME Fork(last) # Main(last) PROVE FALSE
    OBVIOUS
  <2>2. Main(last) \in locks
    BY <1>10, <1>12, <2>1 DEF Stops
  <2>3. LockedOut(WalkBack(fork, b, main, t, locks), locks)
    BY <1>1, <2>1, <2>2 DEF LockedOut
  <2>4. QED
    BY <2>3
<1>14. Fork(last) = j
  <2> HIDE DEF Fork, Main
  <2>1. Fork(last) \in fork \cap main
    BY <1>12, <1>13
  <2>2. Height[Fork(last)] <= Height[j] /\ Height[Fork(last)] >= Height[j]
    BY <1>2, <1>6, <1>11, <1>12, <2>1
  <2>3. Height[Fork(last)] \in Nat
    BY <1>2, <2>1
  <2>4. QED
    BY <1>2, <2>1, <2>2, <2>3
<1>15. QED
  BY <1>1, <1>13, <1>14
\* What two chains have in common, when the sync chain changes from one to the
\* other, is what stands at or below the highest block of it.
LEMMA JoinOfChains ==
  ASSUME NEW n, NEW t \in Blocks, NEW b \in Blocks, b \in DOMAIN n => n[b].linked, NEW old,
         old \cap (DOMAIN n \cup {t}) \subseteq ChainOf(n, t), ChainOf(n, t) \subseteq old,
         b \notin old, NEW z \in old \cap ({b} \cup Below(n, b))
  PROVE  \E j \in old \cap Below(n, b) :
           /\ j \in ChainOf(n, t)
           /\ \A x \in ({b} \cup Below(n, b)) \cap ChainOf(n, t) : Height[x] <= Height[j]
           /\ \A x \in {b} \cup Below(n, b) : x \in old <=> Height[x] <= Height[j]
<1> DEFINE fork == {b} \cup Below(n, b)
           main == ChainOf(n, t)
           S == fork \cap main
<1>1. ASSUME NEW x \in fork, x \in old
      PROVE  x \in Below(n, b) /\ x \in main
  <2>1. x \in Below(n, b) /\ x \in DOMAIN n
    BY <1>1, BelowFacts
  <2>2. QED
    BY <1>1, <2>1
<1>2. \A x \in fork : x \in Blocks /\ x \in Anc[b] /\ Height[x] <= Height[b] /\ Height[x] \in Nat
  BY BelowFacts, ParentFacts
<1>3. PICK j \in S : \A x \in S : Height[x] <= Height[j]
  <2>1. S \in SUBSET Blocks /\ S # {} /\ \A x \in S : Height[x] <= Height[b]
    BY <1>1, <1>2
  <2> HIDE DEF S
  <2>2. QED
    BY <2>1, HighestBlock
<1>4. j \in old /\ j \in Below(n, b) /\ j \in DOMAIN n /\ j \in main /\ j # b
  <2>1. j \in old /\ j \in fork /\ j \in main
    BY <1>3
  <2>2. QED
    BY <1>1, <2>1, BelowFacts
<1>5. ASSUME NEW x \in fork, x \in old
      PROVE  Height[x] <= Height[j]
  BY <1>1, <1>3, <1>5
<1>6. ASSUME NEW x \in fork, Height[x] <= Height[j]
      PROVE  x \in old
  <2>1. CASE x = j
    BY <1>4, <2>1
  <2>2. CASE x # j
    <3>1. j \in Anc[b] /\ j # b /\ Height[j] < Height[b] /\ Height[j] \in Nat /\ Height[b] \in Nat
      BY <1>2, <1>4, BelowFacts, ParentFacts
    <3>2. Height[x] # Height[j]
      BY <1>2, <2>2, <3>1, AncestorsDistinct
    <3>3. Height[x] < Height[j] /\ x \in Below(n, b)
      BY <1>2, <1>6, <3>1, <3>2
    <3>4. n[j].linked
      BY <3>1, <3>3, WalkThrough
    <3>5. t \in DOMAIN n => n[t].linked
      BY <1>4, <3>4, ChainFacts
    <3>6. main = {t} \cup Below(n, t) /\ x \in ChainOf(n, b) /\ j \in ChainOf(n, b)
      <4>1. main = {t} \cup Below(n, t)
        BY <3>5 DEF ChainOf
      <4>2. x \in ChainOf(n, b) /\ j \in ChainOf(n, b)
        BY <1>4, <3>3 DEF ChainOf
      <4>3. QED
        BY <4>1, <4>2
    <3>7. x \in main
      BY <1>4, <1>6, <3>5, <3>6, ChainsMeet
    <3>8. QED
      BY <3>7
  <2>3. QED
    BY <2>1, <2>2
<1>7. QED
  BY <1>3, <1>4, <1>5, <1>6
\* A reorganisation to a branch that is no lower confirms what is new on the chain.
LEMMA ReorgConfirmsNew ==
  ASSUME TypeOK, NEW n, n = mSyncBlocks', NEW t \in Blocks, t = lastSyncBlock, NEW b \in Blocks,
         lastSyncBlock' = b, b \in DOMAIN n => n[b].linked, NEW old, old = SyncChain,
         old \cap (DOMAIN n \cup {t}) \subseteq ChainOf(n, t), ChainOf(n, t) \subseteq old,
         b \notin old, NEW locks, NEW join,
         join = WalkBack({b} \cup Below(n, b), b, ChainOf(n, t), t, locks), ~LockedOut(join, locks),
         NEW visited \in Visited(join),
         blockHeight' = ReorgHeights(n, {b} \cup Below(n, b), join, visited)
  PROVE  NewBlocksConfirm
<1> DEFINE fork == {b} \cup Below(n, b)
           main == ChainOf(n, t)
<1>1. SUFFICES ASSUME Height[t] <= Height[b], NEW z \in old \cap fork
               PROVE  \A x \in Txs :
                        LET mining == {y \in SyncChain' \ old : x \in HashesIn(n, y)}
                        IN \/ \E y \in mining : blockHeight'[x] = Height[y]
                           \/ mining = {} /\ blockHeight'[x] = blockHeight[x]
                           \/ /\ mining = {} /\ blockHeight'[x] = Unconfirmed
                              /\ \A y \in old \cap SyncChain' : blockHeight[x] > Height[y]
  <2>1. SyncChain' = fork
    BY NewTipChain
  <2>2. Height[b] \in Nat /\ Height[t] \in Nat
    BY ParentFacts
  <2>3. SyncTipMoves => Height[t] <= Height[b] /\ old \cap fork # {}
    BY <2>1, <2>2 DEF SyncTipMoves
  <2> HIDE DEF fork
  <2>4. QED
    BY <2>3 DEF NewBlocksConfirm
<1>2. SyncChain' = fork
  BY NewTipChain
<1>3. PICK j \in old \cap Below(n, b) :
        /\ j \in main
        /\ \A x \in fork \cap main : Height[x] <= Height[j]
        /\ \A x \in fork : x \in old <=> Height[x] <= Height[j]
  BY <1>1, JoinOfChains
<1>4. /\ j \in Blocks /\ j # NoBlock /\ Height[j] \in Nat
      /\ \A x \in fork : x \in Blocks /\ x \in Anc[b] /\ Height[x] \in Nat
      /\ \A x \in main : x \in Blocks /\ x \in Anc[t] /\ Height[x] <= Height[t]
  BY <1>3, BelowFacts, ParentFacts, ChainFacts, TreeAssumption DEF TreeAssumption
<1>5. join = [b |-> j, b2 |-> j]
  <2>1. fork \in SUBSET Blocks /\ main \in SUBSET Blocks /\ b \in fork /\ t \in main
    BY <1>4 DEF ChainOf
  <2>2. \A x, y \in fork : Height[x] = Height[y] => x = y
    BY <1>4, AncestorsDistinct
  <2>3. \A x, y \in main : Height[x] = Height[y] => x = y
    BY <1>4, AncestorsDistinct
  <2>4. \A h \in Height[j] .. Height[b] : \E x \in fork : Height[x] = h
    BY <1>3, ChainContiguous
  <2>5. \A h \in Height[j] .. Height[t] : \E x \in main : Height[x] = h
    <3>1. CASE j = t
      BY <1>3, <1>4, <3>1
    <3>2. CASE j # t
      <4>1. j \in Below(n, t) /\ main = {t} \cup Below(n, t)
        BY <1>3, <3>2 DEF ChainOf
      <4>2. QED
        BY <4>1, ChainContiguous
    <3>3. QED
      BY <3>1, <3>2
  <2>6. j \in fork \cap main
    BY <1>3
  <2>7. \A x \in main : Height[x] <= Height[t]
    BY <1>4
  <2>8. ~LockedOut(WalkBack(fork, b, main, t, locks), locks)
    OBVIOUS
  <2> HIDE DEF fork, main
  <2>9. WalkBack(fork, b, main, t, locks) = [b |-> j, b2 |-> j]
    BY <1>1, <1>3, <2>1, <2>2, <2>3, <2>4, <2>5, <2>6, <2>7, <2>8, WalkFindsJoin
  <2>10. QED
    BY <2>9 DEF fork, main
<1>6. HeightOf(join.b) = Height[j] /\ HeightOf(join.b2) = Height[j]
  BY <1>4, <1>5 DEF HeightOf
<1>7. TAKE x \in Txs
<1> DEFINE mining == {y \in fork \ old : x \in HashesIn(n, y)}
<1>8. \/ \E y \in fork : /\ Height[y] > Height[j] /\ x \in HashesIn(n, y)
                      /\ blockHeight'[x] = Height[y]
      \/ /\ \A y \in fork : Height[y] > Height[j] => x \notin HashesIn(n, y)
         /\ \/ blockHeight'[x] = blockHeight[x]
            \/ blockHeight'[x] = Unconfirmed /\ blockHeight[x] > Height[j]
  BY <1>6, ReorgHeightsOf
<1>9. \A y \in fork : y \notin old <=> Height[y] > Height[j]
  BY <1>3, <1>4
<1>10. \A y \in old \cap fork : blockHeight[x] > Height[j] => blockHeight[x] > Height[y]
  <2>1. blockHeight[x] \in Nat
    BY DEF TypeOK
  <2>2. QED
    BY <1>3, <1>4, <2>1
<1> HIDE DEF fork
<1>11. \/ \E y \in mining : blockHeight'[x] = Height[y]
       \/ mining = {} /\ blockHeight'[x] = blockHeight[x]
       \/ /\ mining = {} /\ blockHeight'[x] = Unconfirmed
          /\ \A y \in old \cap fork : blockHeight[x] > Height[y]
  BY <1>8, <1>9, <1>10
<1>12. QED
  BY <1>2, <1>11
\* What addBlock leaves of the old sync chain, when the chain that it changes to has
\* a block in common with it: the part that is kept, and nothing else below the tip.
LEMMA AddBlockLeavesMain ==
  ASSUME TypeOK, NEW b \in Blocks \ {Genesis}, NEW o \in Objects, o.linked, NEW peer, NEW rest,
         AddBlock(b, o, peer, rest), lastSyncBlock' # lastSyncBlock, SyncChain \cap SyncChain' # {},
         NEW n, n = mSyncBlocks', NEW t, t = lastSyncBlock
  PROVE  /\ b \in DOMAIN n /\ n[b].linked /\ n[b].full = o.full /\ b \notin SyncChain
         /\ SyncChain \cap (DOMAIN n \cup {t}) \subseteq ChainOf(n, t)
         /\ ChainOf(n, t) \subseteq SyncChain
<1> DEFINE m == mSyncBlocks
<1>1. PICK kept \in TrimmedBy(m, b, KeepSync), added \in {WithLock(b, o)} :
        added.linked /\ n = Put(kept, b, added) /\ lastSyncBlock' = b
  BY AddBlockSync
<1>2. /\ DOMAIN n = DOMAIN kept \cup {b} /\ b \in DOMAIN n /\ n[b].linked
      /\ \A x \in DOMAIN n \ {b} : n[x] = kept[x]
  BY <1>1 DEF Put
<1>3. n[b].full = o.full
  BY <1>1 DEF Put, WithLock, Objects
<1>4. t \in Blocks /\ SyncChain = ChainOf(m, t) /\ b # t
  BY <1>1 DEF TypeOK, SyncChain
<1>5. b \notin Anc[t]
  <2>1. Work[b] > Work[t]
    BY <1>1, <1>4, AddBlockTips
  <2>2. Work[b] \in Nat /\ Work[t] \in Nat
    BY <1>4, TreeAssumption DEF TreeAssumption
  <2>3. QED
    BY <1>4, <2>1, <2>2, AncestorsLighter
<1>6. b \notin SyncChain
  BY <1>4, <1>5, ChainFacts
<1>7. SyncChain \cap (DOMAIN n \cup {t}) \subseteq ChainOf(n, t)
  BY <1>1, <1>4, AddBlockKeepsChain
<1>8. DOMAIN kept \subseteq DOMAIN m /\ \A x \in DOMAIN kept : kept[x] = m[x]
  BY DEF TrimmedBy, Remove
<1>9. t \in DOMAIN m /\ ~m[t].linked => t \in DOMAIN n
  <2>1. SUFFICES ASSUME t \in DOMAIN m, ~m[t].linked PROVE t \in DOMAIN n
    OBVIOUS
  <2>2. SyncChain = {t}
    BY <1>4, <2>1 DEF ChainOf
  <2>3. t \in SyncChain'
    BY <2>2
  <2>4. t \in {b} \cup Below(n, b)
    BY <1>1, <1>2, <2>3, NewTipChain
  <2>5. QED
    BY <1>4, <2>4, BelowFacts
<1>10. ChainOf(n, t) \subseteq SyncChain
  <2>1. SUFFICES ASSUME NEW x \in ChainOf(n, t), x # t PROVE x \in ChainOf(m, t)
    BY <1>4 DEF ChainOf
  <2>2. x \in Below(n, t) /\ (t \in DOMAIN n => n[t].linked)
    BY <1>4, <2>1, ChainFacts
  <2>3. x \in Below(m, t)
    BY <1>2, <1>5, <1>8, <2>2 DEF Below
  <2>4. t \in DOMAIN m => m[t].linked
    BY <1>2, <1>4, <1>8, <1>9, <2>2
  <2>5. QED
    BY <2>3, <2>4 DEF ChainOf
<1>11. QED
  BY <1>2, <1>3, <1>6, <1>7, <1>10

\* A block that extends the sync tip is all that is new on the chain.
LEMMA ExtensionConfirmsNew ==
  ASSUME NEW n, n = mSyncBlocks', NEW t \in Blocks, t = lastSyncBlock, NEW b \in Blocks \ {Genesis},
         lastSyncBlock' = b, b \in DOMAIN n, n[b].linked, NEW old, old = SyncChain,
         ChainOf(n, t) \subseteq old, b \notin old, Parent[b] = t,
         NEW o, n[b].full = o.full,
         blockHeight' = SetBlockHeight(blockHeight, Hashes(b, o), Height[b])
  PROVE  NewBlocksConfirm
<1>1. SyncChain' = {b} \cup Below(n, b)
  BY NewTipChain
<1>2. ASSUME NEW z \in old, z \in SyncChain', NEW x \in SyncChain' \ {b}
      PROVE  x \in old
  <2>1. z \in Below(n, b) /\ x \in Below(n, b)
    BY <1>1, <1>2
  <2>2. /\ z \in Blocks /\ z \in Anc[t] /\ z \in Anc[b] /\ x \in Blocks /\ x \in Anc[t] /\ x \in Anc[b]
        /\ Height[z] \in Nat /\ Height[x] \in Nat /\ Height[t] \in Nat /\ t \in Anc[b] \ {b}
    BY <2>1, BelowFacts, ParentFacts
  <2>3. CASE x = t
    BY <2>3 DEF ChainOf
  <2>4. CASE x # t
    <3>1. Height[x] < Height[t]
      BY <2>2, <2>4, AncestorsLower
    <3>2. n[t].linked /\ x \in Below(n, t)
      BY <2>1, <2>2, <3>1, WalkThrough
    <3>3. QED
      BY <3>2 DEF ChainOf
  <2>5. QED
    BY <2>3, <2>4
<1>3. HashesIn(n, b) = Hashes(b, o)
  BY DEF HashesIn, Hashes
<1>4. \A x \in Txs : blockHeight'[x] = IF x \in HashesIn(n, b) THEN Height[b] ELSE blockHeight[x]
  BY <1>3 DEF SetBlockHeight
<1>5. SUFFICES ASSUME NEW z \in old, z \in SyncChain', NEW x \in Txs
               PROVE  LET mining == {y \in SyncChain' \ old : x \in HashesIn(n, y)}
                      IN \/ \E y \in mining : blockHeight'[x] = Height[y]
                         \/ mining = {} /\ blockHeight'[x] = blockHeight[x]
  BY DEF NewBlocksConfirm, SyncTipMoves
<1>6. SyncChain' \ old = {b}
  BY <1>1, <1>2, <1>5
<1>7. QED
  BY <1>4, <1>6

\* However addBlock moves the sync tip, it confirms what is new on the chain.
LEMMA AddBlockConfirmsNew ==
  ASSUME TypeOK, NEW b \in Blocks \ {Genesis}, NEW o \in Objects, o.linked, NEW peer, NEW rest,
         AddBlock(b, o, peer, rest)
  PROVE  NewBlocksConfirm
<1>1. SUFFICES ASSUME lastSyncBlock' # lastSyncBlock, SyncChain \cap SyncChain' # {}
               PROVE  NewBlocksConfirm
  BY DEF NewBlocksConfirm, SyncTipMoves
<1>2. PICK n, t, old : n = mSyncBlocks' /\ t = lastSyncBlock /\ old = SyncChain
  OBVIOUS
<1>3. /\ t \in Blocks /\ b \in DOMAIN n /\ n[b].linked /\ n[b].full = o.full /\ b \notin old
      /\ old \cap (DOMAIN n \cup {t}) \subseteq ChainOf(n, t) /\ ChainOf(n, t) \subseteq old
  BY <1>1, <1>2, AddBlockLeavesMain DEF TypeOK
<1>4. CASE /\ blockHeight' = SetBlockHeight(blockHeight, Hashes(b, o), Height[b])
           /\ lastSyncBlock' = b /\ Parent[b] = lastSyncBlock
  BY <1>2, <1>3, <1>4, ExtensionConfirmsNew
<1>5. CASE LET join == SyncJoin(n, b)
           IN /\ \E visited \in Visited(join) :
                   blockHeight' = ReorgHeights(n, {b} \cup Below(n, b), join, visited)
              /\ lastSyncBlock' = b /\ ~LockedOut(join, Locked(n))
  <2>1. PICK join : join = SyncJoin(n, b)
    OBVIOUS
  <2>2. join = WalkBack({b} \cup Below(n, b), b, ChainOf(n, t), t, Locked(n))
    BY <1>2, <2>1 DEF SyncJoin
  <2>3. PICK visited \in Visited(join) :
          blockHeight' = ReorgHeights(n, {b} \cup Below(n, b), join, visited)
    BY <1>5, <2>1
  <2>4. ~LockedOut(join, Locked(n)) /\ lastSyncBlock' = b
    BY <1>5, <2>1
  <2>5. QED
    BY <1>2, <1>3, <2>2, <2>3, <2>4, ReorgConfirmsNew
<1>6. QED
  BY <1>1, <1>2, <1>4, <1>5, AddBlockHeights

\* So does the sync half of addChainLock, which asks for no lock on its way back.
LEMMA LockSyncConfirmsNew ==
  ASSUME TypeOK, TipsInv, LockSync
  PROVE  NewBlocksConfirm
<1> DEFINE b == Head(calls).block
           verified == Head(calls).verified
<1>1. b \in Lockable /\ b \in Blocks \ Checkpoints /\ verified \in BOOLEAN
  BY CallsType, LockSyncCallType, LockAssumption DEF LockSync, LockAssumption
<1>2. PICK n, t, old : n = mSyncBlocks' /\ t = lastSyncBlock /\ old = SyncChain
  OBVIOUS
<1>3. n = SetLock(mSyncBlocks, b, verified) /\ t \in Blocks
  BY <1>2 DEF LockSync, TypeOK
<1>4. \/ lastSyncBlock' = lastSyncBlock
      \/ /\ lastSyncBlock' = b /\ b \in DOMAIN mSyncBlocks /\ b \notin SyncChain
         /\ \E visited \in Visited(WalkBack({b} \cup Below(n, b), b, ChainOf(n, t), t, {})) :
              blockHeight' = ReorgHeights(n, {b} \cup Below(n, b),
                                          WalkBack({b} \cup Below(n, b), b, ChainOf(n, t), t, {}), visited)
  BY <1>2, <1>3 DEF LockSync
<1> HIDE DEF b, verified
<1>5. CASE lastSyncBlock' = lastSyncBlock
  BY <1>5 DEF NewBlocksConfirm, SyncTipMoves
<1>6. CASE /\ lastSyncBlock' = b /\ b \in DOMAIN mSyncBlocks /\ b \notin SyncChain
           /\ \E visited \in Visited(WalkBack({b} \cup Below(n, b), b, ChainOf(n, t), t, {})) :
                blockHeight' = ReorgHeights(n, {b} \cup Below(n, b),
                                            WalkBack({b} \cup Below(n, b), b, ChainOf(n, t), t, {}), visited)
  <2>1. PICK join : join = WalkBack({b} \cup Below(n, b), b, ChainOf(n, t), t, {})
    OBVIOUS
  <2>2. PICK visited \in Visited(join) :
          blockHeight' = ReorgHeights(n, {b} \cup Below(n, b), join, visited)
    BY <1>6, <2>1
  <2>3. /\ DOMAIN n = DOMAIN mSyncBlocks
        /\ \A x \in DOMAIN mSyncBlocks : n[x].linked = mSyncBlocks[x].linked
    BY <1>1, <1>3, SetLockLinks DEF TypeOK
  <2>4. n[b].linked
    BY <1>1, <1>6, <2>3 DEF TipsInv, SyncBlocksLinked
  <2>5. ChainOf(n, t) = old
    BY <1>2, <2>3, SameLinksChain DEF SyncChain
  <2>6. ~LockedOut(join, {})
    BY DEF LockedOut
  <2>7. QED
    BY <1>1, <1>2, <1>3, <1>6, <2>1, <2>2, <2>4, <2>5, <2>6, ReorgConfirmsNew
<1>7. QED
  BY <1>4, <1>5, <1>6

\* A branch that the sync chain changes to has all that is new on it confirmed, and
\* nothing at or below the join unconfirmed, whatever its length, whether it has more
\* work or a chain lock, and whatever was trimmed, adopted or relinked before.
THEOREM ReorgsConfirm == Spec => ReorgConfirms
<1>1. TypeOK /\ LocksInv /\ LocksSigned /\ TipsInv /\ [Next]_vars => [NewBlocksConfirm]_vars
  <2> SUFFICES ASSUME TypeOK, LocksInv, LocksSigned, TipsInv, Next PROVE NewBlocksConfirm
    OBVIOUS
  <2>1. CASE WipeBlockchain \/ WipeBlockchainNonTerminal
    <3>1. mSyncBlocks' = CheckpointBlocks /\ lastSyncBlock' = SyncStart
      BY <2>1 DEF WipeBlockchain, WipeBlockchainNonTerminal
    <3>2. SyncStart \in DOMAIN CheckpointBlocks /\ ~CheckpointBlocks[SyncStart].linked
      BY CheckpointAssumption DEF CheckpointAssumption, CheckpointBlocks, CheckpointObject
    <3>3. SyncChain' = ChainOf(mSyncBlocks', lastSyncBlock')
      BY DEF SyncChain
    <3>4. SyncChain' = {SyncStart}
      BY <3>1, <3>2, <3>3 DEF ChainOf
    <3>5. SyncStart \in SyncChain => SyncStart = lastSyncBlock \/ Height[SyncStart] < Height[lastSyncBlock]
      BY ChainFacts DEF SyncChain, TypeOK
    <3>6. Height[SyncStart] \in Nat /\ Height[lastSyncBlock] \in Nat
      BY CheckpointAssumption, TreeAssumption DEF CheckpointAssumption, TreeAssumption, TypeOK
    <3>7. ~SyncTipMoves
      BY <3>1, <3>4, <3>5, <3>6 DEF SyncTipMoves
    <3>8. QED
      BY <3>7 DEF NewBlocksConfirm
  <2>2. CASE UNCHANGED <<mSyncBlocks, lastSyncBlock, blockHeight>>
    BY <2>2 DEF NewBlocksConfirm, SyncTipMoves
  <2>3. QED
    BY <2>1, <2>2, SyncSteps, AddBlockConfirmsNew, LockSyncConfirmsNew
<1>2. QED
  BY <1>1, TypeCorrect, LocksInvariant, SignedInvariant, TipsInvariant, PTL
  DEF Spec, ReorgConfirms
=============================================================================
