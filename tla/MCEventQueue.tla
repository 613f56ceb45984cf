---------------------------- MODULE MCEventQueue ----------------------------
(* The instance of EventQueue for TLC; the values are in the configuration. *)
EXTENDS EventQueue
=============================================================================
