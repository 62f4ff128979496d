---------------------------- MODULE MCSiteMoves ----------------------------
(***************************************************************************)
(* Two instances of SiteDrains in one run: a site that moves between two   *)
(* nodes and back while one is upgraded, and two sites that share a node   *)
(* while the first one moves away.                                         *)
(***************************************************************************)
EXTENDS MCSiteDrains

CONSTANT s2

MoveBounds == [s \in Sites |-> IF s = s1 THEN 3 ELSE 1]

VARIABLE sharing

\* The bounds of the instance, where they are tighter than the constants.
Starts(s) == publisher'.busy /\ ~publisher.busy /\ publisher'.site = s

WithinInstance ==
    IF sharing
    THEN /\ \A e \in Editors : editor'[e][s1] < 2
         /\ Starts(s1) => Generation(pub[s1]) < 2
         /\ UNCHANGED upgrading
    ELSE /\ \A e \in Editors : editor'[e][s2] = 0
         /\ ~Starts(s2)

Moves == /\ Init /\ sharing \in BOOLEAN
         /\ [][Next /\ WithinInstance /\ UNCHANGED sharing]_<<sharing, vars>>
=============================================================================
