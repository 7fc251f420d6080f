----------------------------- MODULE DSPublishMC -----------------------------
(***************************************************************************)
(* Small instances of DSPublish.  A child spends an output of its parent.  *)
(***************************************************************************)
EXTENDS DSPublish

ChildAndParent == [t \in Txs |-> IF t = "child" THEN {"parent"} \cap Txs ELSE {}]
=============================================================================
