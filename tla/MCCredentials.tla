---------------------------- MODULE MCCredentials ----------------------------
(* Instances of Credentials for TLC.  No symmetry: liveness is checked too. *)
EXTENDS Credentials
=============================================================================
