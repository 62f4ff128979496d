--------------------------- MODULE MCSecurityBans ---------------------------
(* One edge and one address, for TLC. *)
EXTENDS SecurityBans

CONSTANTS g1, v1
=============================================================================
