----------------------------- MODULE MCGoClient -----------------------------
(* GoClient on small sets; without symmetry, because of its liveness check. *)
EXTENDS GoClient
=============================================================================
