--------------------------- MODULE MCConnections ---------------------------
(* Connections for TLC.  Worker threads are interchangeable.               *)
EXTENDS Connections, TLC

Interchangeable == Permutations(Workers)
=============================================================================
