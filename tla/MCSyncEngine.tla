---------------------------- MODULE MCSyncEngine ----------------------------
(* Instances of SyncEngine for TLC. *)
EXTENDS SyncEngine, TLC

Symmetry == Permutations(Objs) \cup Permutations(Slots)
=============================================================================
