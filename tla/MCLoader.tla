------------------------------ MODULE MCLoader ------------------------------
(* An instance of Loader for TLC: concurrent loads are interchangeable, and
   so are the two instances. *)
EXTENDS Loader, TLC

Symmetry == Permutations(Jobs) \cup Permutations(Instances)
=============================================================================
