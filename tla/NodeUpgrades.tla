---------------------------- MODULE NodeUpgrades ----------------------------
(***************************************************************************)
(* Online upgrades of the edges: the controller's upgrade tasks            *)
(* (internal/store/upgrade.go), the staged rollout that creates them       *)
(* (internal/store/upgrade_rollout.go, internal/control/upgrade_rollout.go)*)
(* and the agent with the installer it starts (internal/edge/upgrade.go).  *)
(*                                                                         *)
(* A version stands for an agent binary and an nginx bundle.  Everything   *)
(* that changes a rollout holds upgradeRolloutMu, so the holder is one     *)
(* process, `driver'; reports, heartbeats and deadlines come at any time.  *)
(***************************************************************************)
EXTENDS FiniteSets, Integers, Sequences

CONSTANTS
  NodeOrder,    \* the nodes, in the order in which the controller lists them
  Requested,    \* bound: the nodes that are upgraded one by one as well
  MaxParallel,  \* how many nodes a rollout upgrades at the same time
  MaxArtifact,  \* bound: the newest version the controller is given
  MaxUpgradeTasks,     \* bound: upgrade tasks
  MaxRollouts,  \* bound: rollouts
  MaxDisturbances  \* bound: lost calls, kills, failed installations, restarts, other requests

EdgeNodes == {NodeOrder[i] : i \in DOMAIN NodeOrder}

ASSUME UpgradeAssumption ==
  /\ NodeOrder \in Seq(EdgeNodes)
  /\ \A i, j \in DOMAIN NodeOrder : NodeOrder[i] = NodeOrder[j] => i = j
  /\ Requested \subseteq EdgeNodes
  /\ MaxParallel \in 1..10 /\ MaxArtifact \in Nat \ {0}
  /\ MaxUpgradeTasks \in Nat /\ MaxRollouts \in Nat /\ MaxDisturbances \in Nat

Versions == 0..MaxArtifact

NoUpgradeTask == 0

VARIABLES
  artifact,      \* the version that the controller hands out
  upgradeTasks,  \* node_upgrade_tasks, by age
  rollout,       \* the latest row of node_upgrade_rollouts
  driver,        \* the holder of upgradeRolloutMu: its step, the member it is at, its copy
  heard,         \* what the last heartbeat wrote into nodes
  edges,         \* the agent's binary, its upgrade directory and its installer
  hasRun,        \* history: the versions a node has run
  disturbances  \* bound: the disturbances so far

upgradeVars == <<artifact, upgradeTasks, rollout, driver, heard, edges, hasRun, disturbances>>

Open == {"queued", "applying"}

\* "interrupted" is failed with the error code updater_interrupted.
Failed == {"failed", "interrupted"}

UpgradeTask == [node : EdgeNodes, target : Versions, status : Open \union Failed \union {"succeeded"}]

TaskIDs == 0..MaxUpgradeTasks

Member == [node : EdgeNodes, task : TaskIDs, healthy : BOOLEAN,
           state : {"pending", "upgrading", "verifying", "succeeded", "failed", "skipped"}]

Rollout == [number : 0..MaxRollouts, target : Versions, members : Seq(Member),
            state : {"none", "running", "paused", "cancelled", "succeeded"}]

NoRollout == [number |-> 0, state |-> "none", target |-> 0, members |-> <<>>]

IdleEdge(version) ==
  [runs |-> version, backup |-> version, task |-> NoUpgradeTask, stage |-> "none",
   ready |-> FALSE, doubt |-> FALSE, result |-> "none", installer |-> "off"]

IdleDriver == [pc |-> "idle", at |-> 0, work |-> NoRollout]

UpgradesInit ==
  /\ artifact = 1
  /\ upgradeTasks = <<>> /\ rollout = NoRollout /\ driver = IdleDriver
  /\ heard = [n \in EdgeNodes |-> [version |-> 0, active |-> NoUpgradeTask, fresh |-> TRUE]]
  /\ edges = [n \in EdgeNodes |-> IdleEdge(0)]
  /\ hasRun = [n \in EdgeNodes |-> {0}]
  /\ disturbances = 0

Disturbance == disturbances < MaxDisturbances /\ disturbances' = disturbances + 1

-----------------------------------------------------------------------------
(* Upgrade tasks.                                                          *)

TasksOf(n) == {t \in DOMAIN upgradeTasks : upgradeTasks[t].node = n}

HasOpenTask(n) == \E t \in TasksOf(n) : upgradeTasks[t].status \in Open

IsLatest(t) == \A u \in TasksOf(upgradeTasks[t].node) : u <= t

ActiveRollout == rollout.state \in {"running", "paused"}

RolloutMembers == {rollout.members[i].node : i \in DOMAIN rollout.members}

Reserved(n) == ActiveRollout /\ n \in RolloutMembers

QueuedTask(n, version) == [node |-> n, target |-> version, status |-> "queued"]

\* What a report makes of a task; `version' is the one of the last heartbeat.
ResultRecorded(task, result, version) ==
  CASE result = "succeeded" -> [task EXCEPT !.status = "succeeded"]
    [] result = "interrupted" /\ task.status # "succeeded" ->
         [task EXCEPT !.status = IF version = task.target THEN "succeeded" ELSE "interrupted"]
    [] result = "failed" /\ task.status # "succeeded" -> [task EXCEPT !.status = "failed"]
    [] OTHER -> task

\* The bound on tasks counts those that the members of the rollout still need.
Room(k) == k + Len(upgradeTasks)
             + Cardinality({i \in DOMAIN rollout.members : ActiveRollout /\ rollout.members[i].state = "pending"})
           <= MaxUpgradeTasks

CanUpgrade(n) == /\ ~HasOpenTask(n) /\ ~Reserved(n)
                 /\ heard[n].version # artifact /\ heard[n].active = NoUpgradeTask

\* ReconcileNodeUpgrades: a transaction that heartbeats, requests and the rollout loop run.
TimeoutUpgrade(t) ==
  /\ upgradeTasks[t].status \in Open
  /\ upgradeTasks' = [upgradeTasks EXCEPT ![t].status = "failed"]
  /\ UNCHANGED <<artifact, rollout, driver, heard, edges, hasRun, disturbances>>

RepairInterrupted(t) ==
  LET task == upgradeTasks[t] IN
  /\ task.status = "interrupted" /\ IsLatest(t)
  /\ heard[task.node].version = task.target /\ heard[task.node].active = NoUpgradeTask
  /\ upgradeTasks' = [upgradeTasks EXCEPT ![t].status = "succeeded"]
  /\ heard' = [heard EXCEPT ![task.node].fresh = FALSE]
  /\ UNCHANGED <<artifact, rollout, driver, edges, hasRun, disturbances>>

StartNodeUpgrade(n) ==
  /\ CanUpgrade(n) /\ Room(1) /\ Disturbance
  /\ upgradeTasks' = Append(upgradeTasks, QueuedTask(n, artifact))
  /\ UNCHANGED <<artifact, rollout, driver, heard, edges, hasRun>>

\* A new build of the controller, or an nginx bundle that is promoted.
PromoteArtifact ==
  /\ artifact < MaxArtifact /\ artifact' = artifact + 1 /\ Disturbance
  /\ UNCHANGED <<upgradeTasks, rollout, driver, heard, edges, hasRun>>

-----------------------------------------------------------------------------
(* The agent.  `stage' is what its upgrade directory says: "staging" while *)
(* it downloads, "prepared" when that was cut off, "launching" once the    *)
(* file `launched' is there, "launched" when the agent has left the        *)
(* installer to itself.                                                    *)

Edge(n, fields) == edges' = [edges EXCEPT ![n] = fields]

OnlyEdge == UNCHANGED <<artifact, upgradeTasks, rollout, driver, heard, hasRun>>

\* nodes, after a heartbeat; the agent then tells the installer that it is up.
EdgeHeartbeat(n) ==
  LET e == edges[n] IN
  /\ heard' = [heard EXCEPT ![n] = [version |-> e.runs, active |-> e.task, fresh |-> TRUE]]
  /\ Edge(n, [e EXCEPT !.ready = @ \/ (e.task # NoUpgradeTask /\ e.runs = upgradeTasks[e.task].target)])
  /\ UNCHANGED <<artifact, upgradeTasks, rollout, driver, hasRun, disturbances>>

InstructionFor(n) == {t \in TasksOf(n) : upgradeTasks[t].status \in Open}

\* ProcessUpgrade: there is an instruction and no upgrade in progress.
BeginStaging(n) ==
  \E t \in InstructionFor(n) :
    /\ edges[n].task = NoUpgradeTask /\ edges[n].runs # upgradeTasks[t].target
    /\ Edge(n, [IdleEdge(edges[n].runs) EXCEPT !.task = t, !.stage = "staging"])
    /\ OnlyEdge /\ UNCHANGED disturbances

ReportCurrent(n) ==
  \E t \in InstructionFor(n) :
    /\ edges[n].task = NoUpgradeTask /\ edges[n].runs = upgradeTasks[t].target
    /\ upgradeTasks' = [upgradeTasks EXCEPT ![t] = ResultRecorded(@, "succeeded", edges[n].runs)]
    /\ heard' = [heard EXCEPT ![n].fresh = FALSE]
    /\ UNCHANGED <<artifact, rollout, driver, edges, hasRun, disturbances>>

\* The artifacts are there: the applying report, then the file `launched'.
ReportApplying(n) ==
  LET t == edges[n].task IN
  /\ edges[n].stage = "staging" /\ edges[n].result = "none" /\ IsLatest(t)
  /\ upgradeTasks' = [upgradeTasks EXCEPT ![t].status = IF @ \in Open THEN "applying" ELSE @]
  /\ Edge(n, [edges[n] EXCEPT !.stage = "launching"])
  /\ UNCHANGED <<artifact, rollout, driver, heard, hasRun, disturbances>>

StagingFails(n) ==
  /\ edges[n].stage \in {"staging", "launching"} /\ edges[n].result = "none"
  /\ \/ ~IsLatest(edges[n].task) /\ edges[n].stage = "staging" /\ UNCHANGED disturbances
     \/ Disturbance
  /\ Edge(n, [edges[n] EXCEPT !.result = "failed", !.stage = "launched"])
  /\ OnlyEdge

\* The agent is killed, or a file cannot be written, before the installer starts.
StagingCutOff(n) ==
  /\ edges[n].stage \in {"staging", "launching"} /\ Disturbance
  /\ Edge(n, [edges[n] EXCEPT !.stage = IF @ = "staging" THEN "prepared" ELSE "launched"])
  /\ OnlyEdge

StartInstaller(n) ==
  /\ edges[n].stage = "launching" /\ edges[n].result = "none"
  /\ Edge(n, [edges[n] EXCEPT !.stage = "launched", !.installer = "begin"])
  /\ OnlyEdge /\ UNCHANGED disturbances

\* The installer stops the agent, puts the new files in place and starts the new agent.
Install(n) ==
  LET target == upgradeTasks[edges[n].task].target IN
  /\ edges[n].installer = "begin"
  /\ Edge(n, [edges[n] EXCEPT !.runs = target, !.backup = edges[n].runs, !.installer = "wait"])
  /\ hasRun' = [hasRun EXCEPT ![n] = @ \union {target}]
  /\ UNCHANGED <<artifact, upgradeTasks, rollout, driver, heard, disturbances>>

\* The new agent has had a heartbeat accepted: the installation is final.
CommitInstall(n) ==
  /\ edges[n].installer = "wait" /\ edges[n].ready
  /\ Edge(n, [edges[n] EXCEPT !.installer = "off", !.result = "succeeded"])
  /\ OnlyEdge /\ UNCHANGED disturbances

\* An error, or two minutes without a heartbeat: the previous files come back.
RollBack(n) ==
  /\ edges[n].installer \in {"begin", "wait"}
  /\ Disturbance
  /\ Edge(n, [edges[n] EXCEPT !.runs = IF edges[n].installer = "wait" THEN edges[n].backup ELSE @,
                              !.installer = "report"])
  /\ OnlyEdge

WriteFailure(n) ==
  /\ edges[n].installer = "report"
  /\ Edge(n, [edges[n] EXCEPT !.installer = "off", !.result = "failed"])
  /\ OnlyEdge /\ UNCHANGED disturbances

\* The machine restarts under the installer, which leaves the files as they are.
\* It may be the same failure that made it roll back.
InstallerDies(n) ==
  /\ edges[n].installer # "off"
  /\ \/ edges[n].installer = "report" /\ UNCHANGED disturbances
     \/ edges[n].installer # "report" /\ Disturbance
  /\ Edge(n, [edges[n] EXCEPT !.installer = "off"])
  /\ OnlyEdge

\* Mutant: a staging that was cut off is left alone.
ObserveLaunched(n) ==
  LET e == edges[n] IN
  /\ e.task # NoUpgradeTask /\ e.result = "none" /\ e.stage = "launched"
  /\ \/ e.installer # "off" /\ e.doubt /\ Edge(n, [e EXCEPT !.doubt = FALSE])
     \/ e.installer = "off" /\ ~e.doubt /\ Edge(n, [e EXCEPT !.doubt = TRUE])
     \/ e.installer = "off" /\ e.doubt /\ Edge(n, [e EXCEPT !.result = "interrupted"])
  /\ OnlyEdge /\ UNCHANGED disturbances

\* resumeUpgrade, when no result is recorded.
ObserveInstaller(n) ==
  LET e == edges[n] IN
  /\ e.task # NoUpgradeTask /\ e.result = "none"
  /\ \/ /\ e.stage = "prepared" /\ Edge(n, [e EXCEPT !.result = "interrupted"])
     \/ /\ e.stage = "launched" /\ e.installer # "off" /\ e.doubt
        /\ Edge(n, [e EXCEPT !.doubt = FALSE])
     \/ /\ e.stage = "launched" /\ e.installer = "off" /\ ~e.doubt
        /\ Edge(n, [e EXCEPT !.doubt = TRUE])
     \/ /\ e.stage = "launched" /\ e.installer = "off" /\ e.doubt
        /\ Edge(n, [e EXCEPT !.result = "interrupted"])
  /\ OnlyEdge /\ UNCHANGED disturbances

\* The controller refuses a report for another task than the latest, and a
\* success with another version than the target.  A reply may get lost.
ReportResult(n) ==
  LET e == edges[n]  t == e.task IN
  /\ e.result # "none" /\ IsLatest(t)
  /\ e.result = "succeeded" => e.runs = upgradeTasks[t].target
  /\ upgradeTasks' = [upgradeTasks EXCEPT ![t] = ResultRecorded(@, e.result, heard[n].version)]
  /\ heard' = [heard EXCEPT ![n].fresh = @ /\ upgradeTasks[t].status = "succeeded" /\ e.result # "succeeded"]
  /\ \/ Edge(n, IdleEdge(e.runs)) /\ UNCHANGED disturbances
     \/ Disturbance /\ UNCHANGED edges
  /\ UNCHANGED <<artifact, rollout, driver, hasRun>>

-----------------------------------------------------------------------------
(* The rollout: requests and RunUpgradeRollouts, under upgradeRolloutMu.   *)

InFlight(members) == {i \in DOMAIN members : members[i].state \in {"upgrading", "verifying"}}

Pending(members) == {i \in DOMAIN members : members[i].state = "pending"}

FirstOf(S) == CHOOSE i \in S : \A j \in S : i <= j

NewMember(n) == [node |-> n, task |-> NoUpgradeTask, healthy |-> FALSE, state |-> "pending"]

\* The nodes in the order of the list, with the canary exchanged for the first.
CanaryFirst(members, c) == [members EXCEPT ![1] = members[c], ![c] = members[1]]

\* The positions of the nodes that can be upgraded, in the order of the list.
Eligible == {i \in DOMAIN NodeOrder : CanUpgrade(NodeOrder[i])}

InOrder(places) == \A i, j \in DOMAIN places : i < j => places[i] < places[j]

StartAllUpgrades ==
  /\ driver.pc = "idle" /\ ~ActiveRollout /\ rollout.number < MaxRollouts
  /\ Eligible # {} /\ Room(Cardinality(Eligible))
  /\ \E places \in [1..Cardinality(Eligible) -> Eligible] : \E c \in DOMAIN places :
       /\ InOrder(places)
       /\ rollout' = [number |-> rollout.number + 1, state |-> "running", target |-> artifact,
                      members |-> CanaryFirst([i \in DOMAIN places |-> NewMember(NodeOrder[places[i]])], c)]
  /\ driver' = [IdleDriver EXCEPT !.pc = "dispatch first"]
  /\ UNCHANGED <<artifact, upgradeTasks, heard, edges, hasRun, disturbances>>

SetRollout(row) == rollout' = row /\ driver' = IdleDriver

PauseRollout ==
  /\ driver.pc = "idle" /\ rollout.state = "running"
  /\ SetRollout([rollout EXCEPT !.state = "paused"])
  /\ UNCHANGED <<artifact, upgradeTasks, heard, edges, hasRun, disturbances>>

Retry(m) == IF m.state = "failed" THEN [m EXCEPT !.state = "pending", !.healthy = FALSE] ELSE m

SkipMember(m) == IF m.state \in {"pending", "failed"} THEN [m EXCEPT !.state = "skipped"] ELSE m

ResumeRollout ==
  LET failed == {i \in DOMAIN rollout.members : rollout.members[i].state = "failed"} IN
  /\ driver.pc = "idle" /\ rollout.state = "paused" /\ Room(Cardinality(failed))
  /\ SetRollout([rollout EXCEPT !.state = "running",
                                !.members = [i \in DOMAIN @ |-> Retry(@[i])]])
  /\ UNCHANGED <<artifact, upgradeTasks, heard, edges, hasRun, disturbances>>

CancelRollout ==
  /\ driver.pc = "idle" /\ ActiveRollout
  /\ SetRollout([rollout EXCEPT !.state = "cancelled", !.members = [i \in DOMAIN @ |-> SkipMember(@[i])]])
  /\ UNCHANGED <<artifact, upgradeTasks, heard, edges, hasRun, disturbances>>

\* The members after position i whose task is looked at, and then the dispatching.
Onward(work, i) ==
  LET later == {j \in InFlight(work.members) : j > i} IN
  IF later # {} THEN [pc |-> "observe", at |-> FirstOf(later), work |-> work]
  ELSE [pc |-> "save", at |-> 0, work |-> work]

BeginReconcileRollout ==
  /\ driver.pc = "idle" /\ ActiveRollout
  /\ driver' = Onward(rollout, 0)
  /\ UNCHANGED <<artifact, upgradeTasks, rollout, heard, edges, hasRun, disturbances>>

Observing(i) == driver.pc = "observe" /\ driver.at = i

ObservedTask(i) == upgradeTasks[driver.work.members[i].task]

\* Mutant: a member that fails does not stop the rollout.
ConcludeAlone(i, state, healthy) ==
  /\ driver' = Onward([driver.work EXCEPT !.members[i].state = state, !.members[i].healthy = healthy], i)
  /\ UNCHANGED <<artifact, upgradeTasks, rollout, heard, edges, hasRun>>

Conclude(i, state, healthy) ==
  /\ driver' = Onward([driver.work EXCEPT
                         !.members[i].state = state, !.members[i].healthy = healthy,
                         !.state = IF state = "failed" THEN "paused" ELSE @], i)
  /\ UNCHANGED <<artifact, upgradeTasks, rollout, heard, edges, hasRun>>

\* Mutant: the task is trusted to say what the node runs.
NodeReadyOnTrust(i) == LET h == heard[driver.work.members[i].node] IN h.fresh /\ h.active = NoUpgradeTask

\* upgradeRolloutNodeReady, up to the applied configuration and the probe.
NodeReady(i) == LET h == heard[driver.work.members[i].node] IN
                h.fresh /\ h.active = NoUpgradeTask /\ h.version = ObservedTask(i).target

MemberTaskOpen(i) ==
  /\ Observing(i) /\ ObservedTask(i).status \in Open
  /\ Conclude(i, driver.work.members[i].state, driver.work.members[i].healthy) /\ UNCHANGED disturbances

MemberTaskFailed(i) ==
  /\ Observing(i) /\ ObservedTask(i).status \in Failed
  /\ Conclude(i, "failed", driver.work.members[i].healthy) /\ UNCHANGED disturbances

\* Not ready, or a configuration that is not applied yet.
MemberNotReady(i) ==
  /\ Observing(i) /\ ObservedTask(i).status = "succeeded"
  /\ \/ ~NodeReady(i) /\ UNCHANGED disturbances
     \/ NodeReady(i) /\ Disturbance
  /\ Conclude(i, "verifying", FALSE)

\* Five minutes of that, or a probe that fails.
MemberUnhealthy(i) ==
  /\ Observing(i) /\ ObservedTask(i).status = "succeeded"
  /\ \/ ~NodeReady(i) /\ driver.work.members[i].state = "verifying" /\ UNCHANGED disturbances
     \/ NodeReady(i) /\ Disturbance
  /\ Conclude(i, "failed", FALSE)

\* Healthy, and watched for less, or at least, the health window.
MemberHealthy(i) ==
  /\ Observing(i) /\ ObservedTask(i).status = "succeeded" /\ NodeReady(i)
  /\ Conclude(i, "verifying", TRUE) /\ UNCHANGED disturbances

MemberVerified(i) ==
  /\ Observing(i) /\ ObservedTask(i).status = "succeeded" /\ NodeReady(i) /\ driver.work.members[i].healthy
  /\ Conclude(i, "succeeded", TRUE) /\ UNCHANGED disturbances

\* Nothing else writes the row while the mutex is held, so the revision matches.
SaveObserved ==
  /\ driver.pc = "save"
  /\ rollout' = driver.work
  /\ driver' = IF driver.work.state = "paused" THEN IdleDriver
               ELSE [IdleDriver EXCEPT !.pc = "dispatch"]
  /\ UNCHANGED <<artifact, upgradeTasks, heard, edges, hasRun, disturbances>>

\* Mutant: the capacity is not looked at.
NextInOrder ==
  LET members == rollout.members IN
  {i \in Pending(members) : (\A j \in Pending(members) : i <= j) /\ (i = 1 \/ members[1].state = "succeeded")}

\* The next member the loop would dispatch: in order, within the capacity, after the canary.
NextToDispatch ==
  LET members == rollout.members IN
  {i \in Pending(members) :
     /\ \A j \in Pending(members) : i <= j
     /\ Cardinality(InFlight(members)) < MaxParallel
     /\ i = 1 \/ members[1].state = "succeeded"}

\* A retry after a successful installation only repeats the observation.
AlreadyInstalled(m) == m.task # NoUpgradeTask /\ upgradeTasks[m.task].status = "succeeded"

\* DispatchUpgradeRolloutNode: one transaction for the task and the row.
Dispatch(i) ==
  LET m == rollout.members[i] IN
  /\ rollout.state = "running" /\ i \in Pending(rollout.members)
  /\ \/ /\ AlreadyInstalled(m)
        /\ rollout' = [rollout EXCEPT !.members[i].state = "verifying"]
        /\ UNCHANGED upgradeTasks
     \/ /\ ~AlreadyInstalled(m)
        /\ ~HasOpenTask(m.node) /\ heard[m.node].active = NoUpgradeTask
        /\ upgradeTasks' = Append(upgradeTasks, QueuedTask(m.node, rollout.target))
        /\ rollout' = [rollout EXCEPT !.members[i].state = "upgrading",
                                      !.members[i].task = Len(upgradeTasks')]

DispatchRefused(i) ==
  LET m == rollout.members[i] IN
  /\ ~AlreadyInstalled(m)
  /\ HasOpenTask(m.node) \/ heard[m.node].active # NoUpgradeTask

DispatchFirst ==
  /\ driver.pc = "dispatch first"
  /\ \/ Dispatch(1)
     \/ /\ DispatchRefused(1) /\ rollout' = [rollout EXCEPT !.state = "paused"] /\ UNCHANGED upgradeTasks
  /\ driver' = IdleDriver
  /\ UNCHANGED <<artifact, heard, edges, hasRun, disturbances>>

DispatchNext ==
  /\ driver.pc = "dispatch" /\ artifact = rollout.target
  /\ \E i \in NextToDispatch :
       \/ Dispatch(i) /\ UNCHANGED <<driver, disturbances>>
       \/ /\ DispatchRefused(i) /\ SetRollout([rollout EXCEPT !.state = "paused"])
          /\ UNCHANGED <<upgradeTasks, disturbances>>
       \/ /\ Disturbance \* its last heartbeat is too old
          /\ SetRollout([rollout EXCEPT !.state = "paused"]) /\ UNCHANGED upgradeTasks
  /\ UNCHANGED <<artifact, heard, edges, hasRun>>

ArtifactChanged ==
  /\ driver.pc = "dispatch" /\ artifact # rollout.target
  /\ SetRollout([rollout EXCEPT !.state = "paused"])
  /\ UNCHANGED <<artifact, upgradeTasks, heard, edges, hasRun, disturbances>>

EndReconcileRollout ==
  /\ driver.pc = "dispatch" /\ artifact = rollout.target /\ NextToDispatch = {}
  /\ SetRollout(IF \A i \in DOMAIN rollout.members : rollout.members[i].state = "succeeded"
                THEN [rollout EXCEPT !.state = "succeeded"] ELSE rollout)
  /\ UNCHANGED <<artifact, upgradeTasks, heard, edges, hasRun, disturbances>>

RestartController ==
  /\ driver.pc # "idle" /\ Disturbance /\ driver' = IdleDriver
  /\ UNCHANGED <<artifact, upgradeTasks, rollout, heard, edges, hasRun>>

-----------------------------------------------------------------------------
(* The specification.                                                      *)

UpgradeRequest ==
  \/ \E n \in Requested : StartNodeUpgrade(n)
  \/ PromoteArtifact \/ StartAllUpgrades \/ PauseRollout \/ ResumeRollout \/ CancelRollout

ReconcileUpgrades == \E t \in DOMAIN upgradeTasks : TimeoutUpgrade(t) \/ RepairInterrupted(t)

\* The steps of the agent and the installer that come if nothing goes wrong.
EdgeWorks(n) ==
  \/ BeginStaging(n) \/ ReportCurrent(n) \/ ReportApplying(n) \/ StartInstaller(n)
  \/ Install(n) \/ CommitInstall(n) \/ WriteFailure(n) \/ ObserveInstaller(n) \/ ReportResult(n)

EdgeFails(n) == StagingFails(n) \/ StagingCutOff(n) \/ RollBack(n) \/ InstallerDies(n)

ObserveMember(i) ==
  \/ MemberTaskOpen(i) \/ MemberTaskFailed(i) \/ MemberNotReady(i) \/ MemberUnhealthy(i)
  \/ MemberHealthy(i) \/ MemberVerified(i)

RolloutStep ==
  \/ BeginReconcileRollout \/ SaveObserved \/ DispatchFirst \/ DispatchNext \/ ArtifactChanged
  \/ EndReconcileRollout
  \/ \E i \in DOMAIN NodeOrder : ObserveMember(i)

UpgradesNext ==
  \/ UpgradeRequest \/ ReconcileUpgrades \/ RolloutStep \/ RestartController
  \/ \E n \in EdgeNodes : EdgeHeartbeat(n) \/ EdgeWorks(n) \/ EdgeFails(n)

UpgradesSpec == UpgradesInit /\ [][UpgradesNext]_upgradeVars

\* The loops of the agent and of the controller go on, deadlines pass, and a
\* member that stays healthy, or stays unhealthy, is found so for long enough.
\* Nobody has to ask for an upgrade.
UpgradesFairness ==
  /\ WF_upgradeVars(RolloutStep) /\ WF_upgradeVars(ReconcileUpgrades)
  /\ \A n \in EdgeNodes : WF_upgradeVars(EdgeHeartbeat(n)) /\ WF_upgradeVars(EdgeWorks(n))
  /\ SF_upgradeVars(\E i \in DOMAIN NodeOrder : MemberVerified(i))
  /\ SF_upgradeVars(\E i \in DOMAIN NodeOrder : MemberUnhealthy(i))

LiveUpgrades == UpgradesSpec /\ UpgradesFairness

-----------------------------------------------------------------------------
(* Properties.                                                             *)

UpgradeTypeOK ==
  /\ artifact \in Versions
  /\ upgradeTasks \in Seq(UpgradeTask) /\ Len(upgradeTasks) <= MaxUpgradeTasks
  /\ rollout \in Rollout
  /\ driver \in [pc : {"idle", "dispatch first", "observe", "save", "dispatch"},
                 at : 0..Len(NodeOrder), work : Rollout]
  /\ heard \in [EdgeNodes -> [version : Versions, active : TaskIDs, fresh : BOOLEAN]]
  /\ edges \in [EdgeNodes ->
        [runs : Versions, backup : Versions, task : TaskIDs,
         stage : {"none", "staging", "prepared", "launching", "launched"},
         ready : BOOLEAN, doubt : BOOLEAN, result : {"none", "succeeded", "failed", "interrupted"},
         installer : {"off", "begin", "wait", "report"}]]
  /\ hasRun \in [EdgeNodes -> SUBSET Versions]
  /\ disturbances \in 0..MaxDisturbances

Installing(m) == m.task # NoUpgradeTask /\ edges[m.node].task = m.task /\ edges[m.node].installer # "off"

\* A rollout never has the installers of more than MaxParallel nodes at work,
\* whatever timeouts, retries and lost reports make the controller believe.
InstallersBounded ==
  /\ UpgradeTypeOK
  /\ ActiveRollout =>
       Cardinality({i \in DOMAIN rollout.members : Installing(rollout.members[i])}) <= MaxParallel

\* A node that a rollout in progress counts as upgraded runs the target and is
\* not being changed, even when its task was only recovered from an old heartbeat;
\* and no task is recorded as succeeded whose node has never run the target.
VerifiedRunsTarget ==
  /\ ActiveRollout =>
       \A i \in DOMAIN rollout.members :
         LET m == rollout.members[i] IN
         m.state = "succeeded" =>
           edges[m.node].runs = rollout.target /\ edges[m.node].installer = "off"
  /\ \A t \in DOMAIN upgradeTasks :
       upgradeTasks[t].status = "succeeded" =>
         upgradeTasks[t].target \in hasRun[upgradeTasks[t].node]

\* What a rollout may count on, and what it may do at once.
InstallsHold == InstallersBounded /\ VerifiedRunsTarget

\* What the row of the rollout says of the nodes.
NodesAt(places) == {rollout.members[i].node : i \in places}

Moving == rollout.state = "running"
CanaryNode == NodesAt({1} \intersect DOMAIN rollout.members)
WaitingNodes == NodesAt({i \in DOMAIN rollout.members : rollout.members[i].state \in {"pending", "failed"}})
FlyingNodes == NodesAt(InFlight(rollout.members))
PassedNodes == NodesAt({i \in DOMAIN rollout.members : rollout.members[i].state = "succeeded"})

\* The rollout implements the staged rollout: canary first, bounded, stopped by
\* a failure, and no start of a node while it is paused, cancelled or over.
RolloutPlan == INSTANCE StagedRollout WITH
  Nodes <- EdgeNodes, moving <- Moving, canary <- CanaryNode, waiting <- WaitingNodes,
  flying <- FlyingNodes, passed <- PassedNodes

RolloutStaged == RolloutPlan!Spec

\* A rollout that runs comes to an end or is paused.
RolloutSettles == rollout.state = "running" ~> rollout.state # "running"

\* ... and when nothing more is asked for, every task gets closed and every agent gets
\* rid of the upgrade it has begun, unless the controller has made a newer task
\* before it heard of that one: reports for the older task are refused for ever.
UpgradesFinish ==
  <>[](/\ \A t \in DOMAIN upgradeTasks : upgradeTasks[t].status \notin Open
       /\ \A n \in EdgeNodes : edges[n].task = NoUpgradeTask \/ ~IsLatest(edges[n].task))

\* Neither the rollout nor a single upgrade stays under way for ever, whatever
\* was lost, interrupted or timed out on its way.
UpgradesEnd == RolloutSettles /\ UpgradesFinish
=============================================================================
