----------------------------- MODULE MCTakService -----------------------------
(* Two callers with three messages, one more than the queue holds. *)
EXTENDS TakService

CONSTANTS m1, m2, m3, c1, c2

===============================================================================
