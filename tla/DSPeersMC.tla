----------------------------- MODULE DSPeersMC -----------------------------
(* Instances of DSPeers for TLC. *)
EXTENDS DSPeers, TLC

AnyPeer == Permutations(Peers)

=============================================================================
