---------------------------- MODULE MC_NodeSync ----------------------------
(* NodeSync for TLC; the .cfg files choose the peers and the bounds. *)
EXTENDS NodeSync, TLC

(* Every peer is alike when all of them write; for safety runs only. *)
Symmetry == Permutations(Peer)
=============================================================================
