---------------------------- MODULE NodeLifecycle ----------------------------
(***************************************************************************)
(* One node from its enrollment to its removal: mutual TLS identity,       *)
(* status, upgrades as far as they exclude other work, and the uninstall   *)
(* workflow with the script that runs on the host                          *)
(* (internal/store/uninstall.go, internal/control/uninstall.go,            *)
(* internal/control/uninstall-edge.sh, enrollment in store.go, server.go   *)
(* and agent.go).  One site uses the node, or the `other' one.             *)
(*                                                                         *)
(* Requests of the administrator are handled one after the other; those of *)
(* the edge are authorised first and take effect later.                    *)
(***************************************************************************)
EXTENDS Naturals

CONSTANTS
  MaxTokens,   \* bound: uninstall commands
  MaxEdits,    \* bound: changes of the site and of node statuses
  MaxMishaps   \* bound: lost calls and replies, kills, failures, expiring tokens

ASSUME LifecycleAssumption ==
  MaxTokens \in Nat /\ MaxEdits \in Nat /\ MaxMishaps \in Nat

VARIABLES
  node,     \* nodes: status, monitor_auto_paused, cert_fingerprint, active_upgrade_task_id
  banned,   \* history: the administrator revoked the node and did not take it back
  task,     \* an upgrade of the node is queued or applying
  draft,    \* sites: assigned nodes and whether the site is enabled
  live,     \* site_publications: the same, without nodes when there is none
  otherUp,  \* the other node is active
  job,      \* node_uninstall_jobs
  issued,   \* the uninstall commands that were handed out
  invite,   \* enrollment_tokens: the token of the node
  request,  \* a request of the edge that is authorised and not yet handled
  host,     \* the machine: what is installed, its certificate, whether it upgrades
  script,   \* uninstall-edge.sh on the host: next step, token, what it found
  edits, mishaps  \* bounds

lifecycleVars == <<node, banned, task, draft, live, otherUp, job, issued, invite,
                   request, host, script, edits, mishaps>>

Assigned == {"node", "other"}

NoJob == [status |-> "none", previous |-> "none", token |-> 0, expired |-> FALSE,
          waiting |-> FALSE, started |-> FALSE, affected |-> FALSE]

NoScript == [pc |-> "off", token |-> 0, found |-> "none"]

Site == [nodes : SUBSET Assigned, enabled : BOOLEAN]

LifecycleInit ==
  /\ \/ /\ node = [status |-> "pending", auto |-> FALSE, cert |-> 0, marker |-> FALSE]
        /\ host = [state |-> "none", cert |-> 0, upgrading |-> FALSE]
     \/ /\ node = [status |-> "active", auto |-> FALSE, cert |-> 1, marker |-> FALSE]
        /\ host = [state |-> "installed", cert |-> 1, upgrading |-> FALSE]
  /\ banned = FALSE /\ task = FALSE /\ otherUp \in BOOLEAN
  /\ draft \in [nodes : SUBSET Assigned \ {{}}, enabled : {TRUE}]
  /\ live \in {draft, [nodes |-> {}, enabled |-> FALSE]}
  /\ job = NoJob /\ issued = 0 /\ invite = "none" /\ request = "none"
  /\ script = NoScript /\ edits = 0 /\ mishaps = 0

Mishap == mishaps < MaxMishaps /\ mishaps' = mishaps + 1
Edit == edits < MaxEdits /\ edits' = edits + 1

\* The jobs that stand in the way of other work.
Blocks(status) == status \in {"preparing", "ready", "running", "failed"}

Retired == {"revoked", "uninstalling", "uninstalled"}

\* Enrollment, certificates and assignments all ask for this.
Admitted == node.status \notin Retired \union {"gone"} /\ ~Blocks(job.status)

-----------------------------------------------------------------------------
(* Identity.                                                               *)

CreateEnrollmentToken ==
  /\ Admitted /\ node.cert = 0 /\ invite # "fresh" /\ Edit
  /\ invite' = "fresh"
  /\ UNCHANGED <<node, banned, task, draft, live, otherUp, job, issued, request, host, script, mishaps>>

\* The install command on a machine without the edge, or again on a stopped one.
InstallEdge ==
  /\ host.state # "installed" /\ script.pc = "off" /\ invite = "fresh"
  /\ host' = [host EXCEPT !.state = "installed"]
  /\ UNCHANGED <<node, banned, task, draft, live, otherUp, job, issued, invite, request,
                 script, edits, mishaps>>

\* ConsumeEnrollmentToken, in a transaction of its own.
ConsumeEnrollmentToken ==
  /\ host.state = "installed" /\ host.cert = 0 /\ request = "none"
  /\ invite = "fresh" /\ Admitted
  /\ invite' = "used" /\ request' = "enroll"
  /\ UNCHANGED <<node, banned, task, draft, live, otherUp, job, issued, host, script, edits, mishaps>>

\* requireEdge: the fingerprint is the one of a node that is not retired.
Authorised ==
  /\ host.state = "installed" /\ host.cert # 0 /\ host.cert = node.cert
  /\ node.status \notin Retired \union {"gone"}

BeginRequest(kind) ==
  /\ Authorised /\ request = "none" /\ request' = kind
  /\ UNCHANGED <<node, banned, task, draft, live, otherUp, job, issued, invite, host, script,
                 edits, mishaps>>

NewCertificate == CHOOSE c \in 1..3 : c \notin {node.cert, host.cert}

\* SetNodeCertificate.
Signed == IF Admitted THEN [node EXCEPT !.cert = NewCertificate] ELSE node

\* The end of enroll and renew: the edge writes the certificate it is sent.
IssueCertificate ==
  /\ request \in {"enroll", "renew"} /\ request' = "none"
  /\ node' = Signed
  /\ \/ /\ host' = IF node' # node /\ host.state = "installed"
                   THEN [host EXCEPT !.cert = node'.cert] ELSE host
        /\ UNCHANGED mishaps
     \/ Mishap /\ UNCHANGED host
  /\ UNCHANGED <<banned, task, draft, live, otherUp, job, issued, invite, script, edits>>

\* HeartbeatWithArtifacts: a pending node becomes active.
RecordHeartbeat ==
  /\ request = "heartbeat" /\ request' = "none"
  /\ node' = IF node.status = "gone" THEN node
             ELSE [node EXCEPT !.status = IF @ = "pending" THEN "active" ELSE @,
                               !.marker = host.upgrading]
  /\ UNCHANGED <<banned, task, draft, live, otherUp, job, issued, invite, host, script, edits, mishaps>>

-----------------------------------------------------------------------------
(* Status, upgrades, sites.                                                *)

\* Mutant: the job of a node that is revoked keeps the status to return to.
JobOnRevocationKept(status) == job

\* A failed uninstall must not bring back a node that was revoked meanwhile.
JobOnRevocation(status) ==
  IF status = "revoked" /\ Blocks(job.status) THEN [job EXCEPT !.previous = "revoked"] ELSE job

\* setNodeStatus, asked for by the administrator.
SetStatus(status) ==
  /\ node.status \notin {"uninstalling", "uninstalled", "gone"}
  /\ Blocks(job.status) => status \in {node.status, "revoked"}
  /\ Edit
  /\ node' = IF status = "revoked"
             THEN [status |-> status, auto |-> FALSE, cert |-> 0, marker |-> FALSE]
             ELSE [node EXCEPT !.status = status, !.auto = FALSE]
  /\ banned' = (status = "revoked")
  /\ invite' = IF status = "revoked" /\ invite = "fresh" THEN "none" ELSE invite
  /\ job' = JobOnRevocation(status)
  /\ task' = (task /\ status # "revoked")
  /\ UNCHANGED <<draft, live, otherUp, issued, request, host, script, mishaps>>

\* Smart routing pauses an active node and resumes what it has paused itself;
\* it does not ask for uninstall jobs.
RouteAround ==
  /\ \/ node.status = "active" /\ Edit
        /\ node' = [node EXCEPT !.status = "draining", !.auto = TRUE]
     \/ node.status = "draining" /\ node.auto /\ UNCHANGED edits
        /\ node' = [node EXCEPT !.status = "active", !.auto = FALSE]
     \/ node.status \notin {"active", "draining"} /\ node.auto /\ UNCHANGED edits
        /\ node' = [node EXCEPT !.auto = FALSE]
  /\ UNCHANGED <<banned, task, draft, live, otherUp, job, issued, invite, request, host, script, mishaps>>

Upgradable ==
  /\ node.status \in {"active", "draining"} /\ ~node.marker /\ ~Blocks(job.status)

StartUpgrade ==
  /\ ~task /\ Upgradable /\ Edit
  /\ task' = TRUE
  /\ UNCHANGED <<node, banned, draft, live, otherUp, job, issued, invite, request, host, script, mishaps>>

\* The edge takes the upgrade up, and finishes it; the task may end before.
UpgradeProceeds ==
  /\ \/ Authorised /\ task /\ ~host.upgrading /\ UNCHANGED <<task, mishaps>>
        /\ host' = [host EXCEPT !.upgrading = TRUE]
     \/ host.upgrading /\ UNCHANGED mishaps
        /\ host' = [host EXCEPT !.upgrading = FALSE] /\ task' = (task /\ ~Authorised)
     \/ task /\ ~host.upgrading /\ task' = FALSE /\ Mishap /\ UNCHANGED host
  /\ UNCHANGED <<node, banned, draft, live, otherUp, job, issued, invite, request, script, edits>>

\* validateSiteNodes.
Assignable(nodes) == "node" \in nodes => Admitted

\* What an administrator does who wants the node gone.
Released == [nodes |-> {"other"}, enabled |-> FALSE]

UpdateSite(site) ==
  /\ site # draft /\ site.nodes # {} /\ Assignable(site.nodes)
  /\ IF site = Released THEN UNCHANGED edits ELSE Edit
  /\ draft' = site
  /\ UNCHANGED <<node, banned, task, live, otherUp, job, issued, invite, request, host, script, mishaps>>

\* A publication that concerns the node waits for its upgrade.
PublishSite ==
  /\ live # draft /\ (task => "node" \notin draft.nodes \union live.nodes)
  /\ live' = draft
  /\ UNCHANGED <<node, banned, task, draft, otherUp, job, issued, invite, request, host, script,
                 edits, mishaps>>

OtherNodeChanges ==
  /\ Edit /\ otherUp' = ~otherUp
  /\ UNCHANGED <<node, banned, task, draft, live, job, issued, invite, request, host, script, mishaps>>

-----------------------------------------------------------------------------
(* The uninstall workflow in the controller.                               *)

\* prepareNodeUninstall: DNS records first, then PrepareNodeUninstall.
PrepareUninstall ==
  /\ node.status \in {"draining", "revoked"} /\ job.status \in {"none", "canceled"}
  /\ ~task /\ ~node.marker
  /\ job' = [NoJob EXCEPT !.status = "preparing", !.previous = node.status, !.waiting = TRUE,
               !.affected = "node" \in draft.nodes \union live.nodes]
  /\ UNCHANGED <<node, banned, task, draft, live, otherUp, issued, invite, request, host, script,
                 edits, mishaps>>

DNSWaitOver ==
  /\ job.waiting /\ job' = [job EXCEPT !.waiting = FALSE]
  /\ UNCHANGED <<node, banned, task, draft, live, otherUp, issued, invite, request, host, script,
                 edits, mishaps>>

\* Mutant: the publication is not looked at.
UnblockedInDraft == "node" \notin draft.nodes

\* buildNodeUninstallStatus has no blocker.
Unblocked ==
  /\ "node" \notin draft.nodes
  /\ job.affected =>
       /\ live.nodes # {} /\ "node" \notin live.nodes
       /\ live.enabled => "other" \in live.nodes /\ otherUp

\* The token of an earlier command is replaced.
CreateUninstallCommand ==
  /\ job.status \in {"preparing", "ready", "failed"} /\ ~job.waiting /\ Unblocked
  /\ issued < MaxTokens /\ issued' = issued + 1
  /\ job' = [job EXCEPT !.status = "ready", !.token = issued', !.expired = FALSE]
  /\ UNCHANGED <<node, banned, task, draft, live, otherUp, invite, request, host, script,
                 edits, mishaps>>

TokenExpires ==
  /\ job.token # 0 /\ ~job.expired /\ Mishap
  /\ job' = [job EXCEPT !.expired = TRUE]
  /\ UNCHANGED <<node, banned, task, draft, live, otherUp, issued, invite, request, host, script, edits>>

CancelUninstall ==
  /\ job.status \in {"preparing", "ready", "failed"}
  /\ job' = [job EXCEPT !.status = "canceled", !.token = 0, !.expired = FALSE]
  /\ UNCHANGED <<node, banned, task, draft, live, otherUp, issued, invite, request, host, script,
                 edits, mishaps>>

\* completeNodeUninstall.
Uninstalled(status) ==
  /\ job' = [job EXCEPT !.status = status]
  /\ node' = [node EXCEPT !.status = "uninstalled", !.cert = 0]
  /\ invite' = "none"

\* Mutant: a job that the script has taken up is left to the script.
ForcibleUnlessRunning == Blocks(job.status) /\ job.status # "running"

Forcible == Blocks(job.status)

ForceCompleteUninstall ==
  /\ Forcible /\ Unblocked /\ ~job.waiting
  /\ Uninstalled("forced")
  /\ UNCHANGED <<banned, task, draft, live, otherUp, issued, request, host, script, edits, mishaps>>

\* deleteNode: an uninstalled node, or a pending one that never was enrolled.
DeleteNode ==
  /\ \/ node.status = "uninstalled"
     \/ node.status = "pending" /\ node.cert = 0 /\ "node" \notin live.nodes
  /\ "node" \notin draft.nodes \union live.nodes
  /\ node' = [status |-> "gone", auto |-> FALSE, cert |-> 0, marker |-> FALSE]
  /\ job' = NoJob /\ invite' = "none" /\ task' = FALSE
  /\ UNCHANGED <<banned, draft, live, otherUp, issued, request, host, script, edits, mishaps>>

-----------------------------------------------------------------------------
(* The script on the host and its three calls.  A call is handled and      *)
(* answered, handled without the answer coming back, or not handled.       *)

Valid == script.token # 0 /\ script.token = job.token /\ ~job.expired

Off == script' = NoScript

\* Any command that was handed out may be run, again and again; the lock file
\* lets one script run at a time.
RunCommand ==
  /\ script.pc = "off" /\ host.state # "none"
  /\ \E t \in 1..issued : script' = [pc |-> "start", token |-> t, found |-> host.state]
  /\ UNCHANGED <<node, banned, task, draft, live, otherUp, job, issued, invite, request, host,
                 edits, mishaps>>

StartAllowed == Valid /\ job.status \in {"ready", "running", "failed", "succeeded", "forced"}

HandleStart ==
  CASE StartAllowed /\ job.status \in {"ready", "running", "failed"} ->
         /\ job' = [job EXCEPT !.status = "running", !.started = TRUE]
         /\ node' = [node EXCEPT !.status = "uninstalling"]
    [] StartAllowed /\ job.status = "forced" ->
         job' = [job EXCEPT !.started = TRUE] /\ UNCHANGED node
    [] OTHER -> UNCHANGED <<job, node>>

CallStart ==
  /\ script.pc = "start"
  /\ \/ HandleStart /\ UNCHANGED mishaps
        /\ IF StartAllowed THEN script' = [script EXCEPT !.pc = "stop"] ELSE Off
     \/ HandleStart /\ Mishap /\ Off
     \/ UNCHANGED <<job, node>> /\ Mishap /\ Off
  /\ UNCHANGED <<banned, task, draft, live, otherUp, issued, invite, request, host, edits>>

StopServices ==
  /\ script.pc = "stop"
  /\ host' = [host EXCEPT !.state = IF @ = "installed" THEN "stopped" ELSE @, !.upgrading = FALSE]
  /\ script' = [script EXCEPT !.pc = "clean"]
  /\ UNCHANGED <<node, banned, task, draft, live, otherUp, job, issued, invite, request, edits, mishaps>>

\* From here on the cleanup is idempotent and only the last call can fail.
CleanHost ==
  /\ script.pc = "clean"
  /\ host' = [state |-> "cleaned", cert |-> 0, upgrading |-> FALSE]
  /\ script' = [script EXCEPT !.pc = "complete"]
  /\ UNCHANGED <<node, banned, task, draft, live, otherUp, job, issued, invite, request, edits, mishaps>>

Uncommitted == script.pc \in {"stop", "clean"} /\ host.state # "cleaned"

\* report_failure: the services that ran are started again.
ScriptFails ==
  /\ Uncommitted /\ Mishap
  /\ host' = IF script.found = "installed" THEN [host EXCEPT !.state = "installed"] ELSE host
  /\ script' = [script EXCEPT !.pc = "fail"]
  /\ UNCHANGED <<node, banned, task, draft, live, otherUp, job, issued, invite, request, edits>>

HandleFail ==
  IF Valid /\ job.status \in {"running", "failed"}
  THEN /\ job' = [job EXCEPT !.status = "failed"]
       /\ node' = [node EXCEPT !.status = job.previous]
  ELSE UNCHANGED <<job, node>>

CallFail ==
  /\ script.pc = "fail" /\ Off
  /\ \/ HandleFail /\ UNCHANGED mishaps
     \/ UNCHANGED <<job, node>> /\ Mishap
  /\ UNCHANGED <<banned, task, draft, live, otherUp, issued, invite, request, host, edits>>

HandleComplete ==
  IF Valid /\ (job.status = "running" \/ (job.status = "forced" /\ job.started))
  THEN Uninstalled("succeeded")
  ELSE UNCHANGED <<job, node, invite>>

CallComplete ==
  /\ script.pc = "complete" /\ Off
  /\ \/ HandleComplete /\ UNCHANGED mishaps
     \/ UNCHANGED <<job, node, invite>> /\ Mishap
  /\ UNCHANGED <<banned, task, draft, live, otherUp, issued, request, host, edits>>

KillScript ==
  /\ script.pc # "off" /\ Mishap /\ Off
  /\ UNCHANGED <<node, banned, task, draft, live, otherUp, job, issued, invite, request, host, edits>>

ScriptStep == CallStart \/ StopServices \/ CleanHost \/ ScriptFails \/ CallFail \/ CallComplete

LifecycleNext ==
  \/ CreateEnrollmentToken \/ InstallEdge \/ ConsumeEnrollmentToken
  \/ \E kind \in {"renew", "heartbeat"} : BeginRequest(kind)
  \/ IssueCertificate \/ RecordHeartbeat
  \/ \E status \in {"active", "draining", "revoked"} : SetStatus(status)
  \/ RouteAround \/ StartUpgrade \/ UpgradeProceeds
  \/ \E site \in Site : UpdateSite(site)
  \/ PublishSite \/ OtherNodeChanges
  \/ PrepareUninstall \/ DNSWaitOver \/ CreateUninstallCommand \/ TokenExpires
  \/ CancelUninstall \/ ForceCompleteUninstall \/ DeleteNode
  \/ RunCommand \/ ScriptStep \/ KillScript

\* The clock and requests that have begun go on; the administrator owes nothing.
LifecycleFairness == WF_lifecycleVars(DNSWaitOver) /\ WF_lifecycleVars(ScriptStep)

LifecycleSpec == LifecycleInit /\ [][LifecycleNext]_lifecycleVars /\ LifecycleFairness

-----------------------------------------------------------------------------
LifecycleTypeOK ==
  /\ node \in [status : {"pending", "active", "draining", "gone"} \union Retired,
               auto : BOOLEAN, cert : 0..3, marker : BOOLEAN]
  /\ banned \in BOOLEAN /\ task \in BOOLEAN /\ otherUp \in BOOLEAN
  /\ draft \in Site /\ live \in Site
  /\ job \in [status : {"none", "preparing", "ready", "running", "failed", "succeeded",
                        "forced", "canceled"},
              previous : {"none", "draining", "revoked"}, token : 0..MaxTokens, expired : BOOLEAN,
              waiting : BOOLEAN, started : BOOLEAN, affected : BOOLEAN]
  /\ issued \in 0..MaxTokens /\ invite \in {"none", "fresh", "used"}
  /\ request \in {"none", "enroll", "renew", "heartbeat"}
  /\ host \in [state : {"none", "installed", "stopped", "cleaned"}, cert : 0..3, upgrading : BOOLEAN]
  /\ script \in [pc : {"off", "start", "stop", "clean", "fail", "complete"}, token : 0..MaxTokens,
                 found : {"none", "installed", "stopped", "cleaned"}]
  /\ edits \in 0..MaxEdits /\ mishaps \in 0..MaxMishaps

\* docs and README.md:165: a node is uninstalled when no site needs it.  From
\* the script's first call on no draft, no publication and no upgrade has the
\* node, and a host whose edge is removed is not taken for a working one,
\* whichever calls get lost and however often the command is run.
LeavesUnneeded ==
  /\ LifecycleTypeOK
  /\ node.status \in {"uninstalling", "uninstalled"} =>
       "node" \notin draft.nodes \union live.nodes /\ ~task
  /\ host.state = "cleaned" => node.status \in {"uninstalling", "uninstalled", "gone"}

\* A node that the administrator revoked has no certificate and stays out,
\* whatever requests were under way and whatever becomes of its uninstallation,
\* until the administrator takes it back.
RevocationSticks ==
  banned => node.cert = 0 /\ node.status \in Retired \union {"gone"}

\* An uninstallation can always be ended by an administrator who takes the node
\* out of the site and confirms, even if the host is lost and the token expired.
UninstallCanEnd ==
  /\ WF_lifecycleVars(UpdateSite(Released))
  /\ WF_lifecycleVars(PublishSite) /\ WF_lifecycleVars(ForceCompleteUninstall)
  => []<>~Blocks(job.status)
=============================================================================
