----------------------------- MODULE MCWorkflows -----------------------------
(***************************************************************************)
(* Long workflows of the controller that share no state: the deletion of a *)
(* site, the removal of a node, the online restore.  A behaviour is one of *)
(* any of them, chosen at the start; the others keep one initial state.    *)
(***************************************************************************)
EXTENDS SiteDeletion, NodeLifecycle, OnlineRestore

CONSTANTS d1, d2

VARIABLE focus

workflowVars == <<focus, deletionVars, lifecycleVars, restoreVars>>

WorkflowInit ==
  /\ focus \in {"deletion", "lifecycle", "restore"}
  /\ DeletionInit /\ LifecycleInit /\ RestoreInit
  /\ focus # "deletion" => siteRow.published /\ \A n \in Serving : member[n].active
  /\ focus # "lifecycle" =>
       node.status = "active" /\ otherUp /\ live = draft /\ draft.nodes = Assigned
  /\ focus # "restore" => expected["assets"] = "old"

WorkflowNext ==
  \/ focus = "deletion" /\ DeletionNext /\ UNCHANGED <<focus, lifecycleVars, restoreVars>>
  \/ focus = "lifecycle" /\ LifecycleNext /\ UNCHANGED <<focus, deletionVars, restoreVars>>
  \/ focus = "restore" /\ RestoreNext /\ UNCHANGED <<focus, deletionVars, lifecycleVars>>

\* The fairness of each module, while it is the one that goes on.
WorkflowFairness ==
  /\ WF_deletionVars(focus = "deletion" /\ ManagerStep)
  /\ WF_deletionVars(focus = "deletion" /\ DeadlinePasses)
  /\ WF_deletionVars(focus = "deletion" /\ RoundReads)
  /\ WF_deletionVars(focus = "deletion" /\ RoundChecks)
  /\ WF_deletionVars(focus = "deletion" /\ RoundReconciles)
  /\ \A n \in Serving : /\ WF_deletionVars(focus = "deletion" /\ ApplyState(n))
                       /\ WF_deletionVars(focus = "deletion" /\ ConfirmState(n))
  /\ WF_lifecycleVars(focus = "lifecycle" /\ DNSWaitOver)
  /\ WF_lifecycleVars(focus = "lifecycle" /\ ScriptStep)
  /\ WF_restoreVars(focus = "restore" /\ StageStep)
  /\ WF_restoreVars(focus = "restore" /\ CommitRestore)
  /\ WF_restoreVars(focus = "restore" /\ DeleteSnapshot)
  /\ WF_restoreVars(focus = "restore" /\ operating /\ RunOperation)
  /\ WF_restoreVars(focus = "restore" /\ ControlStep)
  /\ WF_restoreVars(focus = "restore" /\ CutoverStep)

Workflows == WorkflowInit /\ [][WorkflowNext]_workflowVars /\ WorkflowFairness

\* What was begun ends: a deletion's withdrawal, waits and retries
\* (control/site_deletion.go), an uninstallation unless it has to be forced
\* (control/uninstall.go), and a restore with its operations and its restart
\* (control/online_restore.go, online_restore_apply.go).
WorkflowsEnd == DeletionEnds /\ UninstallCanEnd /\ RestoreSettles
=============================================================================
