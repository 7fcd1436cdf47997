---------------------------- MODULE MCWorkQueue -----------------------------
(* A daemon with as many workers as connections: all of them may sleep,    *)
(* one may find that another has taken its item, one may take two items.   *)
(* Liveness is checked, so there is no symmetry set.                       *)
EXTENDS WorkQueue
=============================================================================
