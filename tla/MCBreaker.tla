------------------------------ MODULE MCBreaker ------------------------------
(* Instances of Breaker for TLC.  No symmetry: liveness is checked too. *)
EXTENDS Breaker
=============================================================================
