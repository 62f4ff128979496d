------------------------------ MODULE MCRaces ------------------------------
(***************************************************************************)
(* Parts of the system that share no state, for the safety properties that *)
(* need the larger instances.  A behaviour is one of any of them, chosen   *)
(* at the start; the others keep one initial state.                        *)
(***************************************************************************)
EXTENDS PublishTasks, WireGuardTunnels, LogQueue, SecurityBans, NodeUpgrades,
        SystemHealth, TLC

CONSTANTS n1, w1, w2, p1, p2, u1, u2, u3, h1, h2, c1, c2

WorkerSymmetry == Permutations({w1, w2})
ThreeNodes == <<u1, u2, u3>>

VARIABLE focus

raceVars == <<focus, vars, tunnelVars, queueVars, banVars, upgradeVars, healthCenterVars>>

RaceInit ==
  /\ focus \in {"tasks", "tunnel", "queue", "bans", "upgrades", "verdicts", "history"}
  /\ review \in IF focus = "verdicts" THEN ReviewCases ELSE {NoCase}
  /\ TunnelInit /\ p1 \in Members
  /\ focus # "tunnel" => Members = {p1}
  /\ Init /\ QueueInit /\ BansInit /\ UpgradesInit /\ HealthCenterInit

\* With two members, a change or a trouble; with one, both.
TunnelSteps == TunnelNext /\ (Members' = Peers => changes' + troubles' <= 1)

\* The second check is never a warning or unknown.
HistorySteps ==
  /\ SnapshotNext
  /\ \A i \in DOMAIN past' :
       c2 \in DOMAIN past'[i].verdicts => past'[i].verdicts[c2] \in {"healthy", "critical"}

TasksOnly == UNCHANGED <<tunnelVars, queueVars, banVars, upgradeVars, healthCenterVars>>
TunnelOnly == UNCHANGED <<vars, queueVars, banVars, upgradeVars, healthCenterVars>>
QueueOnly == UNCHANGED <<vars, tunnelVars, banVars, upgradeVars, healthCenterVars>>
BansOnly == UNCHANGED <<vars, tunnelVars, queueVars, upgradeVars, healthCenterVars>>
UpgradesOnly == UNCHANGED <<vars, tunnelVars, queueVars, banVars, healthCenterVars>>
HistoryOnly == UNCHANGED <<vars, tunnelVars, queueVars, banVars, upgradeVars>>

RaceNext ==
  /\ UNCHANGED focus
  /\ \/ focus = "tasks" /\ Next /\ TasksOnly
     \/ focus = "tunnel" /\ TunnelSteps /\ TunnelOnly
     \/ focus = "queue" /\ QueueNext /\ QueueOnly
     \/ focus = "bans" /\ BansNext /\ BansOnly
     \/ focus = "upgrades" /\ UpgradesNext /\ UpgradesOnly
     \/ focus = "history" /\ HistorySteps /\ HistoryOnly

Races == RaceInit /\ [][RaceNext]_raceVars
=============================================================================
