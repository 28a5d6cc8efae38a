---------------------------- MODULE MCPendingIrp ----------------------------
(* Small instances of PendingIrp for TLC. *)
EXTENDS PendingIrp

Symmetry == Permutations(Threads) \cup Permutations(Irps)
=============================================================================
