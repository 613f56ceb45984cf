------------------------------- MODULE MCNotes -------------------------------
(* Instances of Notes for TLC.  No symmetry: notes are numbered, and liveness *)
(* is checked too.                                                            *)
EXTENDS Notes
InDef == [n \in Notes |-> IF n \in Plain THEN 10 ELSE 20]
=============================================================================
