--------------------------- MODULE MCEncodeDaemon ---------------------------
(* A daemon of two workers and three clients: one client may hold a worker *)
(* while two requests are served, and the numbers of closed descriptors    *)
(* are given out again.                                                    *)
EXTENDS EncodeDaemon
=============================================================================
