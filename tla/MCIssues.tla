------------------------------ MODULE MCIssues ------------------------------
(* Instances of Issues for TLC.  No symmetry: liveness is checked too. *)
EXTENDS Issues
=============================================================================
