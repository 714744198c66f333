----------------------------- MODULE MCPyClient -----------------------------
(* PyClient on the small sets of the two cfg files.                        *)
EXTENDS PyClient
=============================================================================
