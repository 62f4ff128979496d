----------------------------- MODULE MCServices -----------------------------
(***************************************************************************)
(* Progress of parts of the system that share no state, on small           *)
(* instances.  A behaviour is one of any of them, chosen at the start; the *)
(* others keep one initial state.                                          *)
(***************************************************************************)
EXTENDS WireGuardTunnels, LogQueue, SecurityBans, NodeUpgrades

CONSTANTS u1, u2

TwoNodes == <<u1, u2>>

VARIABLE focus

serviceVars == <<focus, tunnelVars, queueVars, banVars, upgradeVars>>

ServiceInit ==
  /\ focus \in {"tunnel", "queue", "bans", "upgrades"}
  /\ TunnelInit /\ QueueInit /\ BansInit /\ UpgradesInit

ServiceNext ==
  \/ focus = "tunnel" /\ TunnelNext /\ UNCHANGED <<focus, queueVars, banVars, upgradeVars>>
  \/ focus = "queue" /\ QueueNext /\ UNCHANGED <<focus, tunnelVars, banVars, upgradeVars>>
  \/ focus = "bans" /\ BansNext /\ UNCHANGED <<focus, tunnelVars, queueVars, upgradeVars>>
  \/ focus = "upgrades" /\ UpgradesNext /\ UNCHANGED <<focus, tunnelVars, queueVars, banVars>>

\* The fairness of each module, while it is the one that goes on.
TunnelGoesOn ==
  /\ WF_tunnelVars(focus = "tunnel" /\ ConfigureOrigin)
  /\ WF_tunnelVars(focus = "tunnel" /\ ApplyAnswer)
  /\ \A n \in Peers : /\ WF_tunnelVars(focus = "tunnel" /\ EdgeRound(n))
                      /\ WF_tunnelVars(focus = "tunnel" /\ ReportStatus(n))
                      /\ SF_tunnelVars(focus = "tunnel" /\ ClaimTest(n))
                      /\ WF_tunnelVars(focus = "tunnel" /\ FinishTest(n))

QueueGoesOn == WF_queueVars(focus = "queue" /\ (Collect \/ DrainQueue))

BansGoOn ==
  \A e \in Guards : /\ WF_banVars(focus = "bans" /\ RoundStep(e))
                   /\ SF_banVars(focus = "bans" /\ Advance(e))
                   /\ SF_banVars(focus = "bans" /\ Pull(e))

UpgradesGoOn ==
  /\ WF_upgradeVars(focus = "upgrades" /\ RolloutStep)
  /\ WF_upgradeVars(focus = "upgrades" /\ ReconcileUpgrades)
  /\ \A n \in EdgeNodes : /\ WF_upgradeVars(focus = "upgrades" /\ EdgeHeartbeat(n))
                          /\ WF_upgradeVars(focus = "upgrades" /\ EdgeWorks(n))
  /\ SF_upgradeVars(focus = "upgrades" /\ \E i \in DOMAIN NodeOrder : MemberVerified(i))
  /\ SF_upgradeVars(focus = "upgrades" /\ \E i \in DOMAIN NodeOrder : MemberUnhealthy(i))

Services ==
  /\ ServiceInit /\ [][ServiceNext]_serviceVars
  /\ TunnelGoesOn /\ QueueGoesOn /\ BansGoOn /\ UpgradesGoOn
=============================================================================
