------------------------------ MODULE KeyedFifo ------------------------------
(***************************************************************************)
(* What the sync engine expects of its queue: one waiting line per key.    *)
(* The head of a line is in service from the moment it becomes the head    *)
(* until it is completed, so each key has one server, items are served in  *)
(* arrival order, none is lost, and lines do not wait for each other.      *)
(* The promise is void once it is broken, which EventQueue does by         *)
(* evicting the entry of a busy key, and only so.                          *)
(***************************************************************************)
EXTENDS Sequences

CONSTANTS Keys, Items

VARIABLES
  line,      \* line[k]: the unfinished items of key k, oldest first
  broken     \* the promise no longer holds

vars == <<line, broken>>

Init == line = [k \in Keys |-> <<>>] /\ broken = FALSE

Submit(k, i) ==
  /\ ~broken
  /\ line' = [line EXCEPT ![k] = Append(@, i)]
  /\ UNCHANGED broken

Complete(k) ==
  /\ ~broken
  /\ line[k] # <<>>
  /\ line' = [line EXCEPT ![k] = Tail(@)]
  /\ UNCHANGED broken

(* The step that breaks the promise, and any step after it. *)
Break == broken' = TRUE

Next ==
  \/ \E k \in Keys : Complete(k) \/ \E i \in Items : Submit(k, i)
  \/ Break

(* Every item in service is eventually completed, whatever other keys do. *)
Fairness == \A k \in Keys : WF_vars(Complete(k))

Spec == Init /\ [][Next]_vars /\ Fairness
=============================================================================
