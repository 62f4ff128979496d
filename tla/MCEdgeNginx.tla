------------------------------ MODULE MCEdgeNginx ------------------------------
(***************************************************************************)
(* Three desired states with one pool, whose service probes may fail; the  *)
(* second is not accepted by nginx and is for another site.                *)
(***************************************************************************)
EXTENDS EdgeNginx

CONSTANT p1

FlakyService == {<<p1, "service">>}
VersionUses == [v \in Versions |-> IF v = 0 THEN {} ELSE {p1}]
VersionCertificates ==
    [v \in Versions |-> CASE v = 0 -> {} [] v = 2 -> {"blog"} [] OTHER -> {"shop"}]
===============================================================================
