-------------------------- MODULE DSMasternodesMC --------------------------
(* Instances of DSMasternodes for TLC. *)
EXTENDS DSMasternodes

\* The list of the first tip, 2, and of the block after it need older ones.
NewQuorums == [b \in Blocks |-> CASE b = 2 -> {1} [] b = 3 -> {1} [] OTHER -> {}]

=============================================================================
