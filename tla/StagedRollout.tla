--------------------------- MODULE StagedRollout ---------------------------
(***************************************************************************)
(* What a staged upgrade of the fleet promises, without tasks, reports or  *)
(* the controller's loop: one node, the canary, goes first and alone; at   *)
(* most MaxParallel nodes are in flight; nothing is started unless the     *)
(* rollout is moving; and a node that fails stops the rollout.             *)
(***************************************************************************)
EXTENDS FiniteSets, Naturals

CONSTANTS Nodes, MaxParallel

VARIABLES
  moving,   \* nodes may be started
  canary,   \* a set: the canary of the rollout, or nothing before the first one
  waiting,  \* the nodes that are still to be started, or to be started again
  flying,   \* the nodes that are being upgraded or watched
  passed    \* the nodes that are upgraded and were found healthy

vars == <<moving, canary, waiting, flying, passed>>

Init == /\ moving = FALSE
        /\ canary = {} /\ waiting = {} /\ flying = {} /\ passed = {}

\* A rollout begins when the last one can start nothing any more.
Begin == /\ ~moving /\ waiting = {}
         /\ \E members \in SUBSET Nodes : \E c \in members :
              /\ canary' = {c} /\ waiting' = members
         /\ moving' = TRUE /\ flying' = {} /\ passed' = {}

Start(n) == /\ moving /\ n \in waiting
            /\ n \in canary \/ canary \subseteq passed
            /\ Cardinality(flying) < MaxParallel
            /\ waiting' = waiting \ {n} /\ flying' = flying \union {n}
            /\ UNCHANGED <<moving, canary, passed>>

\* Some nodes pass, some fail.  Those that fail may be started again, later.
Watch == /\ \E ok, bad \in SUBSET flying :
              /\ ok \intersect bad = {}
              /\ flying' = flying \ (ok \union bad)
              /\ passed' = passed \union ok
              /\ waiting' = waiting \union bad
              /\ moving' = (moving /\ bad = {})
         /\ UNCHANGED canary

Halt == moving /\ moving' = FALSE /\ UNCHANGED <<canary, waiting, flying, passed>>

Resume == ~moving /\ moving' = TRUE /\ UNCHANGED <<canary, waiting, flying, passed>>

Cancel == moving' = FALSE /\ waiting' = {} /\ UNCHANGED <<canary, flying, passed>>

Next == Begin \/ (\E n \in Nodes : Start(n)) \/ Watch \/ Halt \/ Resume \/ Cancel

Spec == Init /\ [][Next]_vars
=============================================================================
