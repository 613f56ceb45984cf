----------------------------- MODULE MCBindings -----------------------------
(* Instances of Bindings for TLC. *)
EXTENDS Bindings
=============================================================================
