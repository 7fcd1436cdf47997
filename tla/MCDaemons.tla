----------------------------- MODULE MCDaemons ------------------------------
(* Two workers on each side and three jobs: the refused ones may take one  *)
(* content worker, both, or ask for more than there are.                   *)
EXTENDS Daemons
=============================================================================
