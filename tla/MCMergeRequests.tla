--------------------------- MODULE MCMergeRequests ---------------------------
(* Instances of MergeRequests for TLC. *)
EXTENDS MergeRequests
=============================================================================
