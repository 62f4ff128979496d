---------------------------- MODULE SiteDeletion ----------------------------
(***************************************************************************)
(* The retirement of a site: managed DNS is withdrawn, the edges drop the  *)
(* site and confirm, the certificate lineage goes, and then the rows       *)
(* (internal/control/site_deletion.go, internal/store/site_deletion.go).   *)
(*                                                                         *)
(* Whoever advances a deletion - the request, a status poll, the health    *)
(* round - holds the manager's mutex, so there is one `manager'.  The DNS  *)
(* part of a health round runs beside it, with what it has read before.    *)
(***************************************************************************)
EXTENDS Naturals

CONSTANTS
  Serving,          \* the nodes that the publication or a drain keeps the site on
  OthersMeanwhile,  \* whether other sites are rendered while edges remove this one
  MaxRenders,       \* bound: renderings of a node for another site
  MaxHitches        \* bound: failed calls, lost or paused nodes, missed deadlines, restarts

ASSUME DeletionAssumption ==
  /\ Serving # {} /\ OthersMeanwhile \in BOOLEAN
  /\ MaxRenders \in Nat /\ MaxHitches \in Nat

VARIABLES
  siteRow,   \* sites and site_publications
  deletion,  \* site_deletion_jobs and the delete_site task it names
  removal,   \* publish_task_nodes of that task
  states,    \* node_states: the version, and whether the site is part of it
  member,    \* nodes: is it active, applied_version
  records,   \* the site has managed DNS records
  lineage,   \* certbot has the site's lineage
  manager,   \* the holder of SiteDeletionManager.mu: its next step, what it has counted
  dnsRound,  \* the DNS part of a health round: its next step, what it has read
  served,    \* edge: the state that nginx has loaded
  down,      \* edge: it does not answer
  renders, hitches  \* bounds

deletionVars == <<siteRow, deletion, removal, states, member, records, lineage,
                  manager, dnsRound, served, down, renders, hitches>>

Active(status) == status \in {"queued", "dispatching", "applying"}

NoRemoval == [version |-> 0, status |-> "none"]

IdleManager == [pc |-> "idle", pending |-> {}, failed |-> {}, late |-> FALSE]

IdleDNS == [pc |-> "idle", deleting |-> FALSE]

DeletionInit ==
  /\ siteRow \in [exists : {TRUE}, published : BOOLEAN, deleting : {FALSE}]
  /\ deletion = [phase |-> "none", status |-> "none", late |-> FALSE]
  /\ removal = [n \in Serving |-> NoRemoval]
  /\ states = [n \in Serving |-> [version |-> 1, has |-> siteRow.published]]
  /\ member \in [Serving -> [active : BOOLEAN, applied : {1}]]
  /\ records = siteRow.published /\ lineage = TRUE
  /\ manager = IdleManager /\ dnsRound = IdleDNS
  /\ served = states /\ down = [n \in Serving |-> FALSE]
  /\ renders = 0 /\ hitches = 0

Hitch == hitches < MaxHitches /\ hitches' = hitches + 1

-----------------------------------------------------------------------------
(* The manager.                                                            *)

Manager(pc) == manager' = [IdleManager EXCEPT !.pc = pc]

\* BeginSiteDeletion, for a site without an active task.
StartDeletion ==
  /\ manager.pc = "idle" /\ siteRow.exists /\ ~Active(deletion.status)
  /\ siteRow' = [siteRow EXCEPT !.deleting = TRUE]
  /\ deletion' = [phase |-> "withdrawing_dns", status |-> "queued", late |-> FALSE]
  /\ removal' = [n \in Serving |-> NoRemoval]
  /\ Manager("advance")
  /\ UNCHANGED <<states, member, records, lineage, dnsRound, served, down, renders, hitches>>

\* A status poll, a second request, or the next health round.
ResumeDeletion ==
  /\ manager.pc = "idle" /\ Active(deletion.status) /\ Manager("advance")
  /\ UNCHANGED <<siteRow, deletion, removal, states, member, records, lineage,
                 dnsRound, served, down, renders, hitches>>

BeginWithdrawal ==
  /\ manager.pc = "advance" /\ deletion.phase = "withdrawing_dns"
  /\ deletion' = [deletion EXCEPT !.status = "dispatching"] /\ Manager("withdraw")
  /\ UNCHANGED <<siteRow, removal, states, member, records, lineage,
                 dnsRound, served, down, renders, hitches>>

WithdrawDNS ==
  /\ manager.pc = "withdraw"
  /\ \/ records' = FALSE /\ Manager("stage") /\ UNCHANGED hitches
     \/ Hitch /\ Manager("fail") /\ UNCHANGED records
  /\ UNCHANGED <<siteRow, deletion, removal, states, member, lineage,
                 dnsRound, served, down, renders>>

\* The version without the site, for an active edge that does not run it yet.
Removal(n) ==
  LET version == IF states[n].has THEN states[n].version + 1 ELSE states[n].version IN
  IF ~member[n].active THEN [version |-> 0, status |-> "inactive"]
  ELSE IF member[n].applied < version THEN [version |-> version, status |-> "pending"]
  ELSE NoRemoval

\* StageSiteRemoval: render the edges and StageSiteDeletion, under desiredStateMu.
\* It fails when one of the nodes is being upgraded.
StageRemoval ==
  /\ manager.pc = "stage"
  /\ \/ /\ removal' = [n \in Serving |-> Removal(n)]
        /\ states' = [n \in Serving |->
             IF states[n].has THEN [version |-> states[n].version + 1, has |-> FALSE] ELSE states[n]]
        /\ deletion' = [deletion EXCEPT !.phase = "waiting_for_edges", !.status = "applying"]
        /\ Manager("advance") /\ UNCHANGED hitches
     \/ Hitch /\ Manager("fail") /\ UNCHANGED <<removal, states, deletion>>
  /\ UNCHANGED <<siteRow, member, records, lineage, dnsRound, served, down, renders>>

With(targets, status) == {n \in Serving : targets[n].status = status}

\* SiteDeletionReady, up to the counts: the deadline is read first, and
\* applied_version confirms what a lost report did not.
CountTargets ==
  LET confirmed(n) == removal[n].status = "pending" /\ member[n].applied >= removal[n].version
      counted == [n \in Serving |->
                    IF confirmed(n) THEN [removal[n] EXCEPT !.status = "succeeded"] ELSE removal[n]]
  IN  /\ manager.pc = "advance" /\ deletion.phase = "waiting_for_edges"
      /\ removal' = counted
      /\ manager' = [pc |-> "decide", late |-> deletion.late, failed |-> With(counted, "failed"),
                     pending |-> With(counted, "pending")]
      /\ UNCHANGED <<siteRow, deletion, states, member, records, lineage,
                     dnsRound, served, down, renders, hitches>>

Undecided == manager.pending # {} /\ ~manager.late

KeepWaiting ==
  /\ manager.pc = "decide" /\ Undecided /\ Manager("idle")
  /\ UNCHANGED <<siteRow, deletion, removal, states, member, records, lineage,
                 dnsRound, served, down, renders, hitches>>

\* Mutant: only the edges that have not answered keep the site alive.
SomeUnanswered == manager.pending # {}

SomeFailed == manager.pending \union manager.failed # {}

\* FailSiteDeletion comes to the same: the task is over and the site stays.
GiveUpTargets ==
  /\ manager.pc = "decide" /\ ~Undecided /\ SomeFailed
  /\ removal' = [n \in Serving |-> IF removal[n].status = "pending"
                                   THEN [removal[n] EXCEPT !.status = "timed_out"] ELSE removal[n]]
  /\ deletion' = [deletion EXCEPT !.status = "failed"] /\ Manager("idle")
  /\ UNCHANGED <<siteRow, states, member, records, lineage, dnsRound, served, down, renders, hitches>>

BeginFinalizing ==
  /\ manager.pc = "decide" /\ ~Undecided /\ ~SomeFailed
  /\ deletion' = [deletion EXCEPT !.phase = "finalizing", !.status = "applying"] /\ Manager("advance")
  /\ UNCHANGED <<siteRow, removal, states, member, records, lineage,
                 dnsRound, served, down, renders, hitches>>

DeleteLineage ==
  /\ manager.pc = "advance" /\ deletion.phase = "finalizing"
  /\ \/ lineage' = FALSE /\ Manager("complete") /\ UNCHANGED hitches
     \/ Hitch /\ Manager("fail") /\ UNCHANGED lineage
  /\ UNCHANGED <<siteRow, deletion, removal, states, member, records,
                 dnsRound, served, down, renders>>

\* The publication, the drains and the job go with the site.
CompleteDeletion ==
  /\ manager.pc = "complete"
  /\ siteRow' = [exists |-> FALSE, published |-> FALSE, deleting |-> FALSE]
  /\ deletion' = [deletion EXCEPT !.phase = "none", !.status = "succeeded"] /\ Manager("idle")
  /\ UNCHANGED <<removal, states, member, records, lineage,
                 dnsRound, served, down, renders, hitches>>

FailDeletion ==
  /\ manager.pc = "fail"
  /\ deletion' = [deletion EXCEPT !.status = "failed"] /\ Manager("idle")
  /\ UNCHANGED <<siteRow, removal, states, member, records, lineage,
                 dnsRound, served, down, renders, hitches>>

ManagerStep ==
  \/ ResumeDeletion \/ BeginWithdrawal \/ WithdrawDNS \/ StageRemoval
  \/ CountTargets \/ KeepWaiting \/ GiveUpTargets \/ BeginFinalizing
  \/ DeleteLineage \/ CompleteDeletion \/ FailDeletion

\* Ninety seconds are over: because an edge is down, or for no such reason.
DeadlinePasses ==
  /\ Active(deletion.status) /\ ~deletion.late
  /\ \/ \E n \in Serving : down[n] /\ removal[n].status = "pending" /\ UNCHANGED hitches
     \/ Hitch
  /\ deletion' = [deletion EXCEPT !.late = TRUE]
  /\ UNCHANGED <<siteRow, removal, states, member, records, lineage, manager,
                 dnsRound, served, down, renders>>

RestartManager ==
  /\ manager.pc # "idle" \/ dnsRound.pc # "idle"
  /\ Hitch /\ manager' = IdleManager /\ dnsRound' = IdleDNS
  /\ UNCHANGED <<siteRow, deletion, removal, states, member, records, lineage, served, down, renders>>

-----------------------------------------------------------------------------
(* The edges.                                                              *)

EdgesOnly == UNCHANGED <<siteRow, deletion, records, lineage, manager, dnsRound>>

ApplyState(n) ==
  /\ ~down[n] /\ served[n] # states[n]
  /\ served' = [served EXCEPT ![n] = states[n]]
  /\ EdgesOnly /\ UNCHANGED <<removal, states, member, down, renders, hitches>>

\* The targets that a report about `version' settles.
Reported(n, version, status) ==
  IF Active(deletion.status) /\ removal[n].status = "pending" /\ removal[n].version <= version
  THEN [removal EXCEPT ![n].status = status]
  ELSE removal

\* A heartbeat and the report of the version that is applied; the report may get lost.
ConfirmState(n) ==
  /\ ~down[n] /\ member[n].applied # served[n].version
  /\ member' = [member EXCEPT ![n].applied = served[n].version]
  /\ removal' \in {removal, Reported(n, served[n].version, "succeeded")}
  /\ EdgesOnly /\ UNCHANGED <<states, served, down, renders, hitches>>

\* nginx refuses the state: the edge keeps the previous one and says so.
RejectState(n) ==
  /\ ~down[n] /\ served[n] # states[n] /\ Hitch
  /\ removal' = Reported(n, states[n].version, "failed")
  /\ EdgesOnly /\ UNCHANGED <<states, member, served, down, renders>>

LoseEdge(n) ==
  /\ ~down[n] /\ Hitch /\ down' = [down EXCEPT ![n] = TRUE]
  /\ EdgesOnly /\ UNCHANGED <<removal, states, member, served, renders>>

\* What README.md:198 asks of the administrator before a retry.
RepairEdge(n) ==
  /\ down[n] /\ down' = [down EXCEPT ![n] = FALSE]
  /\ EdgesOnly /\ UNCHANGED <<removal, states, member, served, renders, hitches>>

SetNodeStatus(n) ==
  /\ Hitch /\ member' = [member EXCEPT ![n].active = ~@]
  /\ EdgesOnly /\ UNCHANGED <<removal, states, served, down, renders>>

\* Another site of node n is published: publicationMaterials leaves out only
\* publications that are marked deleting, which no publication ever is.
RenderOther(n) ==
  /\ renders < MaxRenders /\ renders' = renders + 1
  /\ OthersMeanwhile \/ ~(Active(deletion.status) /\ deletion.phase \in {"waiting_for_edges", "finalizing"})
  /\ states' = [states EXCEPT ![n] = [version |-> @.version + 1, has |-> siteRow.published]]
  /\ EdgesOnly /\ UNCHANGED <<removal, member, served, down, hitches>>

-----------------------------------------------------------------------------
(* The DNS part of a health round.                                         *)

DNSRound(pc) == dnsRound' = [dnsRound EXCEPT !.pc = pc]

RoundOnly == UNCHANGED <<siteRow, deletion, removal, states, member, lineage,
                         manager, served, down, renders>>

RoundReads ==
  /\ dnsRound.pc = "idle" /\ siteRow.exists /\ (siteRow.published \/ siteRow.deleting)
  /\ dnsRound' = [pc |-> "check", deleting |-> siteRow.deleting]
  /\ RoundOnly /\ UNCHANGED <<records, hitches>>

\* Mutant: a site that is being deleted is left to the manager.
RoundChecksEnabled ==
  /\ dnsRound.pc = "check"
  /\ IF ~siteRow.exists \/ dnsRound.deleting THEN DNSRound("idle")
     ELSE \/ DNSRound("push")
          \/ (\A n \in Serving : ~member[n].active) /\ DNSRound("clear")
  /\ RoundOnly /\ UNCHANGED <<records, hitches>>

\* SitePublicationCurrent, then what the draft that was read asks for.
RoundChecks ==
  /\ dnsRound.pc = "check"
  /\ \/ ~siteRow.exists /\ DNSRound("idle")
     \/ siteRow.exists /\ dnsRound.deleting /\ DNSRound("clear")
     \/ siteRow.exists /\ ~dnsRound.deleting /\ DNSRound("push")
     \/ /\ siteRow.exists /\ ~dnsRound.deleting /\ \A n \in Serving : ~member[n].active
        /\ DNSRound("clear")
  /\ RoundOnly /\ UNCHANGED <<records, hitches>>

RoundReconciles ==
  /\ dnsRound.pc \in {"push", "clear"} /\ dnsRound' = IdleDNS
  /\ \/ records' = (dnsRound.pc = "push") /\ UNCHANGED hitches
     \/ Hitch /\ UNCHANGED records
  /\ RoundOnly

DeletionNext ==
  \/ StartDeletion \/ ManagerStep \/ DeadlinePasses \/ RestartManager
  \/ \E n \in Serving :
       \/ ApplyState(n) \/ ConfirmState(n) \/ RejectState(n) \/ LoseEdge(n)
       \/ RepairEdge(n) \/ SetNodeStatus(n) \/ RenderOther(n)
  \/ RoundReads \/ RoundChecks \/ RoundReconciles

DeletionSpec == DeletionInit /\ [][DeletionNext]_deletionVars

\* The health loop, the edges' loops and the clock go on; a request is not owed.
DeletionFairness ==
  /\ WF_deletionVars(ManagerStep) /\ WF_deletionVars(DeadlinePasses)
  /\ WF_deletionVars(RoundReads) /\ WF_deletionVars(RoundChecks)
  /\ WF_deletionVars(RoundReconciles)
  /\ \A n \in Serving : /\ WF_deletionVars(ApplyState(n))
                       /\ WF_deletionVars(ConfirmState(n))

LiveDeletion == DeletionSpec /\ DeletionFairness

-----------------------------------------------------------------------------
DeletionTypeOK ==
  /\ siteRow \in [exists : BOOLEAN, published : BOOLEAN, deleting : BOOLEAN]
  /\ deletion \in [phase : {"none", "withdrawing_dns", "waiting_for_edges", "finalizing"},
                   status : {"none", "queued", "dispatching", "applying", "failed", "succeeded"},
                   late : BOOLEAN]
  /\ removal \in [Serving -> [version : Nat,
                    status : {"none", "inactive", "pending", "succeeded", "failed", "timed_out"}]]
  /\ states \in [Serving -> [version : Nat, has : BOOLEAN]]
  /\ served \in [Serving -> [version : Nat, has : BOOLEAN]]
  /\ member \in [Serving -> [active : BOOLEAN, applied : Nat]]
  /\ manager \in [pc : {"idle", "advance", "withdraw", "stage", "decide", "complete", "fail"},
                  pending : SUBSET Serving, failed : SUBSET Serving, late : BOOLEAN]
  /\ dnsRound \in [pc : {"idle", "check", "push", "clear"}, deleting : BOOLEAN]
  /\ down \in [Serving -> BOOLEAN]
  /\ records \in BOOLEAN /\ lineage \in BOOLEAN
  /\ renders \in 0..MaxRenders /\ hitches \in 0..MaxHitches

\* What is left of the service: no desired state has the site, and no edge
\* serves it that was active when the removal was staged.  The others drop it
\* when they come back, as their desired state says.
Unserved == \A n \in Serving : ~states[n].has /\ (served[n].has => removal[n].status = "inactive")

\* README.md:196: "waits for every currently assigned active edge to confirm
\* the new configuration.  It then removes the local Certbot lineage and
\* deletes the site metadata": whatever calls fail or are cut off and repeated,
\* the lineage goes when the site is served no more, and so it stays without a row.
ServiceEndsFirst ==
  /\ []DeletionTypeOK
  /\ [][(lineage /\ ~lineage') \/ ~siteRow'.exists => Unserved']_deletionVars

\* Records that a round brings back, because it had looked at the site before
\* the deletion began, are removed by the next one (health.go:169).
StaleRecordsGo == siteRow.deleting ~> ~records \/ ~siteRow.exists

\* A deletion never stays active: it succeeds, or it fails, by its deadline at
\* the latest.  README.md:198: an administrator who repairs the edges and asks
\* again gets the site deleted, whatever the first attempts left behind.
DeletionSettles == []<>~Active(deletion.status)

RetriesComplete ==
  /\ WF_deletionVars(StartDeletion)
  /\ \A n \in Serving : WF_deletionVars(RepairEdge(n))
  => (siteRow.deleting ~> ~siteRow.exists)

DeletionEnds == StaleRecordsGo /\ DeletionSettles /\ RetriesComplete
=============================================================================
