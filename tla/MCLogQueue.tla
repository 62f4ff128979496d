------------------------------ MODULE MCLogQueue ------------------------------
(* Instances of LogQueue for TLC; the constants are in the .cfg files. *)
EXTENDS LogQueue
===============================================================================
