--------------------------- MODULE MCPublishTasks ---------------------------
(***************************************************************************)
(* An instance of PublishTasks for TLC.                                    *)
(***************************************************************************)
EXTENDS PublishTasks

CONSTANTS n1, n2, w1

TwoNodes == {n1, n2}
OneWorker == {w1}
=============================================================================
