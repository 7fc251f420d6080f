------------------------------ MODULE DSChainMC ------------------------------
(***************************************************************************)
(* Small block trees for TLC.  A block is a string, its branch and height; *)
(* "g" is the genesis block and work is height unless said otherwise.      *)
(***************************************************************************)
EXTENDS DSChain

AncestorsOf(parent, blocks) ==
  LET up[b \in blocks] == {b} \cup (IF b \in DOMAIN parent THEN up[parent[b]] ELSE {})
  IN up

\* Two branches that part above a2, the second ending one block higher; t1 is
\* mined in both.  Two reorganisations are possible, back and forth.
ForkHeight == [g |-> 1, a2 |-> 2, a3 |-> 3, a4 |-> 4, b3 |-> 3, b4 |-> 4, b5 |-> 5]
ForkBlocks == DOMAIN ForkHeight
ForkParent == [a2 |-> "g", a3 |-> "a2", a4 |-> "a3", b3 |-> "a2", b4 |-> "b3", b5 |-> "b4"]
ForkAnc == AncestorsOf(ForkParent, ForkBlocks)
ForkTxs == [b \in ForkBlocks |-> CASE b = "a2" -> {"t2"}
                                   [] b \in {"a3", "b4"} -> {"t1"}
                                   [] OTHER -> {}]

\* Two branches of the same height, one of which a quorum locks at b3.
LockHeight == [g |-> 1, a2 |-> 2, a3 |-> 3, a4 |-> 4, b3 |-> 3, b4 |-> 4]
LockBlocks == DOMAIN LockHeight
LockParent == [a2 |-> "g", a3 |-> "a2", a4 |-> "a3", b3 |-> "a2", b4 |-> "b3"]
LockAnc == AncestorsOf(LockParent, LockBlocks)
LockTxs == [b \in LockBlocks |-> {}]

\* The last checkpoint is a3; x3 takes its place, y4 has an invalid hash.
CheckpointHeight ==
  [g |-> 1, a2 |-> 2, a3 |-> 3, a4 |-> 4, a5 |-> 5, x3 |-> 3, y4 |-> 4, y5 |-> 5]
CheckpointTree == DOMAIN CheckpointHeight
CheckpointParent ==
  [a2 |-> "g", a3 |-> "a2", a4 |-> "a3", a5 |-> "a4", x3 |-> "a2", y4 |-> "a3", y5 |-> "y4"]
CheckpointAnc == AncestorsOf(CheckpointParent, CheckpointTree)
CheckpointTxs == [b \in CheckpointTree |-> {}]

\* One block against two; the second branch mines t1 again and t3 never.
PayHeight == [g |-> 1, a2 |-> 2, a3 |-> 3, b3 |-> 3, b4 |-> 4]
PayBlocks == DOMAIN PayHeight
PayParent == [a2 |-> "g", a3 |-> "a2", b3 |-> "a2", b4 |-> "b3"]
PayAnc == AncestorsOf(PayParent, PayBlocks)
PayTxs == [g |-> {}, a2 |-> {"t2"}, a3 |-> {"t1", "t3"}, b3 |-> {}, b4 |-> {"t1"}]
PayNoTxs == [b \in PayBlocks |-> {}]

\* A quorum locks b3 when the other branch is two blocks higher; t2 is below both.
DeepHeight == [g |-> 1, a2 |-> 2, a3 |-> 3, a4 |-> 4, a5 |-> 5, b3 |-> 3]
DeepBlocks == DOMAIN DeepHeight
DeepParent == [a2 |-> "g", a3 |-> "a2", a4 |-> "a3", a5 |-> "a4", b3 |-> "a2"]
DeepAnc == AncestorsOf(DeepParent, DeepBlocks)
DeepTxs == [b \in DeepBlocks |-> IF b = "a2" THEN {"t2"} ELSE {}]
=============================================================================
