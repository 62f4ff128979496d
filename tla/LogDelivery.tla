------------------------------ MODULE LogDelivery ------------------------------
(***************************************************************************)
(* What the access-log forwarder of an edge promises, whatever it keeps on *)
(* disk: the lines nginx has written reach the controller in their order   *)
(* and without a gap; only the rotation of the log loses lines.  A line    *)
(* may reach the controller more than once, which is not seen here.        *)
(***************************************************************************)
EXTENDS Naturals

VARIABLES
    written,    \* the number of lines nginx has written; line n is the n-th
    lost,       \* the lines that a rotation took away before their collection
    delivered   \* the lines the controller has stored

vars == <<written, lost, delivered>>

Lines == 1..written
Outstanding == Lines \ (lost \cup delivered)

Init == written = 0 /\ lost = {} /\ delivered = {}

Write ==
    /\ written' = written + 1
    /\ UNCHANGED <<lost, delivered>>

\* Nothing is delivered before an older line.
Deliver ==
    \E batch \in SUBSET Outstanding :
        /\ batch # {}
        /\ \A m \in batch, n \in Outstanding \ batch : m < n
        /\ delivered' = delivered \cup batch
        /\ UNCHANGED <<written, lost>>

\* A rotation takes the newest lines away, those not collected.
Rotate ==
    \E tail \in SUBSET Outstanding :
        /\ \A m \in tail, n \in Outstanding \ tail : n < m
        /\ lost' = lost \cup tail
        /\ UNCHANGED <<written, delivered>>

Next == Write \/ Deliver \/ Rotate

Spec == Init /\ [][Next]_vars
===============================================================================
