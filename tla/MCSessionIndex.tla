--------------------------- MODULE MCSessionIndex ---------------------------
(* SessionIndex on small instances; the workloads are in the configurations. *)
EXTENDS SessionIndex

NoNames == {}
=============================================================================
