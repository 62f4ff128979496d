--------------------------- MODULE WireGuardTunnels ---------------------------
(***************************************************************************)
(* A managed WireGuard tunnel between one origin and the edges that are    *)
(* its peers (internal/store/wireguard.go, internal/control/wireguard.go,  *)
(* install-origin-wireguard.sh, internal/edge/wireguard.go and             *)
(* wireguard_control.go), and the site whose draft uses it.                *)
(*                                                                         *)
(* Every host has a key of its own and knows the others' only through the  *)
(* controller, which counts revisions; revision numbers alone decide       *)
(* whether a site may be published through the tunnel.  A `plan' is an     *)
(* address range: the origin's address and those of the peers.  Endpoint,  *)
(* MTU, keepalive and limits change nothing here but the revision.         *)
(***************************************************************************)
EXTENDS Naturals, Sequences, FiniteSets

CONSTANTS
  Peers,        \* the edges that may be peers
  MaxChanges,   \* bound: changes of the tunnel and of the site's draft
  MaxTests,     \* bound: performance tests
  MaxTroubles   \* bound: lost messages, failing commands, reinstalled hosts

ASSUME TunnelAssumption ==
  /\ Peers # {}
  /\ MaxChanges \in Nat /\ MaxTests \in Nat /\ MaxTroubles \in Nat

VARIABLES
  tunnel,   \* wireguard_tunnels
  peer,     \* wireguard_tunnel_nodes; `in' when there is a row
  tunnelDraft,    \* the nodes on which the site's draft uses the tunnel
  test,     \* wireguard_performance_tests: the status of the latest of a node
  origin,   \* the origin: its key, what it runs, and the answer it applies
  agent,    \* an edge: key file, configuration file, interface, report
  changes, tests, troubles  \* bounds

tunnelVars == <<tunnel, peer, tunnelDraft, test, origin, agent, changes, tests, troubles>>

Plans == {"a", "b"}

NoKey == 0
Keys == 0..(MaxTroubles + MaxChanges + 2)

NoConfig == [plan |-> "none", remote |-> NoKey, own |-> NoKey]

\* Addresses and routes are named by their plan.
Interface == [up : BOOLEAN, remote : Keys, own : Keys,
              addresses : SUBSET Plans, routes : SUBSET Plans]

Down == [up |-> FALSE, remote |-> NoKey, own |-> NoKey, addresses |-> {}, routes |-> {}]

NoPeer == [in |-> FALSE, key |-> NoKey, applied |-> 0, error |-> FALSE]

NewPeer == [NoPeer EXCEPT !.in = TRUE]

NoStatus == [revision |-> 0, key |-> NoKey, error |-> FALSE]

\* An edge that has had so many keys and keeps none.
Bare(had) == [had |-> had, key |-> NoKey, file |-> NoConfig, link |-> Down,
              managed |-> FALSE, report |-> NoStatus, settled |-> FALSE]

NotInstalled == [revision |-> 0, plan |-> "none", peers |-> [n \in Peers |-> NoKey]]

\* CreateWireGuardTunnel.
TunnelInit ==
  /\ tunnel = [exists |-> TRUE, revision |-> 1, plan |-> "a", key |-> NoKey, configured |-> 0]
  /\ \E members \in SUBSET Peers \ {{}} :
       peer = [n \in Peers |-> IF n \in members THEN NewPeer ELSE NoPeer]
  /\ tunnelDraft = {}
  /\ test = [n \in Peers |-> "none"]
  /\ origin = [key |-> 1, runs |-> NotInstalled, asks |-> FALSE, answer |-> NotInstalled]
  /\ agent = [n \in Peers |-> [Bare(0) EXCEPT !.settled = TRUE]]
  /\ changes = 0 /\ tests = 0 /\ troubles = 0

Change == changes < MaxChanges /\ changes' = changes + 1
Trouble == troubles < MaxTroubles /\ troubles' = troubles + 1

Members == {n \in Peers : peer[n].in}

-----------------------------------------------------------------------------
(* The administrator.                                                      *)

UpdateTunnel(plan, members) ==
  /\ tunnel.exists /\ members # {} /\ tunnelDraft \subseteq members /\ Change
  /\ tunnel' = [tunnel EXCEPT !.plan = plan, !.revision = @ + 1]
  /\ peer' = [n \in Peers |-> IF n \notin members THEN NoPeer
                              ELSE IF peer[n].in THEN peer[n] ELSE NewPeer]
  /\ UNCHANGED <<tunnelDraft, test, origin, agent, tests, troubles>>

\* The draft is asked for, not the publication.
DeleteTunnel ==
  /\ tunnel.exists /\ tunnelDraft = {} /\ Change
  /\ tunnel' = [tunnel EXCEPT !.exists = FALSE]
  /\ peer' = [n \in Peers |-> NoPeer]
  /\ test' = [n \in Peers |-> "none"]
  /\ UNCHANGED <<tunnelDraft, origin, agent, tests, troubles>>

\* validateSiteWireGuardTunnels.
EditDraft(nodes) ==
  /\ nodes # tunnelDraft /\ Change
  /\ nodes # {} => tunnel.exists /\ nodes \subseteq Members
  /\ tunnelDraft' = nodes
  /\ UNCHANGED <<tunnel, peer, test, origin, agent, tests, troubles>>

\* prepareWireGuardSiteForNode.
Ready(n) ==
  /\ tunnel.exists /\ tunnel.key # NoKey /\ tunnel.configured = tunnel.revision
  /\ peer[n].in /\ peer[n].key # NoKey
  /\ peer[n].applied = tunnel.revision /\ ~peer[n].error

Installed == tunnel.configured = tunnel.revision /\ origin.runs.revision = tunnel.revision

-----------------------------------------------------------------------------
(* The origin.                                                             *)

\* CreateWireGuardInstallToken, and the script that the administrator starts with it.
RunInstaller ==
  /\ tunnel.exists /\ ~Installed /\ ~origin.asks /\ origin.answer = NotInstalled
  /\ origin' = [origin EXCEPT !.asks = TRUE]
  /\ UNCHANGED <<tunnel, peer, tunnelDraft, test, agent, changes, tests, troubles>>

WithOriginKey ==
  IF tunnel.key = origin.key THEN tunnel
  ELSE [tunnel EXCEPT !.key = origin.key, !.revision = @ + 1]

\* ConfigureWireGuardOrigin, and what the origin is told.  The origin asks until
\* every peer has a key and the token is used; that answer may get lost.
ConfigureOrigin ==
  LET known == WithOriginKey
      ready == \A n \in Members : peer[n].key # NoKey
      told  == [revision |-> known.revision, plan |-> known.plan,
                peers |-> [n \in Peers |-> peer[n].key]]
  IN  /\ origin.asks
      /\ \/ ~tunnel.exists /\ origin' = [origin EXCEPT !.asks = FALSE] /\ UNCHANGED <<tunnel, troubles>>
         \/ tunnel.exists /\ ~ready /\ tunnel' = known /\ UNCHANGED <<origin, troubles>>
         \/ /\ tunnel.exists /\ ready /\ tunnel' = [known EXCEPT !.configured = known.revision]
            /\ \/ origin' = [origin EXCEPT !.asks = FALSE, !.answer = told] /\ UNCHANGED troubles
               \/ origin' = [origin EXCEPT !.asks = FALSE] /\ Trouble
      /\ UNCHANGED <<peer, tunnelDraft, test, agent, changes, tests>>

\* The rest of the script: it puts everything in place, or puts it back.
ApplyAnswer ==
  /\ origin.answer # NotInstalled
  /\ \/ origin' = [origin EXCEPT !.runs = origin.answer, !.answer = NotInstalled] /\ UNCHANGED troubles
     \/ origin' = [origin EXCEPT !.answer = NotInstalled] /\ Trouble
  /\ UNCHANGED <<tunnel, peer, tunnelDraft, test, agent, changes, tests>>

\* The origin gives up waiting for keys, or is set up anew.
OriginFails ==
  /\ Trouble
  /\ \/ origin.asks /\ origin' = [origin EXCEPT !.asks = FALSE]
     \/ origin' = [key |-> origin.key + 1, runs |-> NotInstalled, asks |-> FALSE, answer |-> NotInstalled]
  /\ UNCHANGED <<tunnel, peer, tunnelDraft, test, agent, changes, tests>>

-----------------------------------------------------------------------------
(* An edge: Reconcile for this tunnel.                                     *)

\* loadOrCreateKey: a key this host has not had before.
Own(n) == IF agent[n].key = NoKey THEN agent[n].had + 1 ELSE agent[n].key

Wanted(n) == [plan |-> tunnel.plan, remote |-> tunnel.key, own |-> Own(n)]

LinkFits(link, config) ==
  /\ link.up /\ link.remote = config.remote /\ link.own = config.own
  /\ link.addresses = {config.plan} /\ link.routes = {config.plan}

\* What wg-quick makes of a configuration.
BroughtUp(config) == [up |-> TRUE, remote |-> config.remote, own |-> config.own,
                  addresses |-> {config.plan}, routes |-> {config.plan}]

\* The commands of transitionEdgeNetwork after `wg syncconf'.
Transition(old, new) ==
  IF old.plan = new.plan THEN <<"sync">>
  ELSE <<"sync", "add address", "add route", "delete route", "delete address">>

Done(commands, k) == {commands[i] : i \in 1..k}

\* What a link is after these commands.  No command deletes what another adds.
After(link, done, old, new) ==
  LET keys == IF "sync" \in done THEN new ELSE link
      added(command) == IF command \in done THEN {new.plan} ELSE {}
      deleted(command) == IF command \in done THEN {old.plan} ELSE {}
  IN  [link EXCEPT !.remote = keys.remote, !.own = keys.own,
                   !.addresses = (@ \union added("add address")) \ deleted("delete address"),
                   !.routes = (@ \union added("add route")) \ deleted("delete route")]

\* rollbackEdgeNetwork, then `wg syncconf' with the previous file.
Undone(link, done, old, new) ==
  LET keys == IF "sync" \in done THEN old ELSE link
      restored(command) == IF command \in done THEN {old.plan} ELSE {}
      withdrawn(command) == IF command \in done THEN {new.plan} ELSE {}
  IN  [link EXCEPT !.remote = keys.remote, !.own = keys.own,
                   !.addresses = (@ \union restored("delete address")) \ withdrawn("add address"),
                   !.routes = (@ \union restored("delete route")) \ withdrawn("add route")]

Reports(n, error) == [revision |-> tunnel.revision, key |-> Own(n), error |-> error]

\* The end of a round for a desired tunnel.
EndTunnelRound(n, file, link, error) ==
  agent' = [agent EXCEPT ![n] =
              [@ EXCEPT !.had = Own(n), !.key = Own(n), !.file = file, !.link = link, !.managed = TRUE,
                        !.report = Reports(n, error), !.settled = FALSE]]

EdgeOnly == UNCHANGED <<tunnel, peer, tunnelDraft, test, origin, changes, tests>>

\* One round at a time: the last report has been sent or given up.
BeginsRound(n) == peer[n].in /\ agent[n].report = NoStatus

\* The end with the wanted configuration; applyEgressLimit and readPeerStatus
\* may still fail.
EndApplied(n, link) ==
  \/ EndTunnelRound(n, Wanted(n), link, FALSE) /\ UNCHANGED troubles
  \/ EndTunnelRound(n, Wanted(n), link, TRUE) /\ Trouble

AwaitOriginKey(n) ==
  /\ BeginsRound(n) /\ tunnel.key = NoKey
  /\ EndTunnelRound(n, agent[n].file, Down, TRUE)
  /\ UNCHANGED troubles /\ EdgeOnly

KeepTunnel(n) ==
  /\ BeginsRound(n) /\ tunnel.key # NoKey /\ agent[n].file = Wanted(n) /\ agent[n].link.up
  /\ EndApplied(n, agent[n].link) /\ EdgeOnly

\* applyConfig without an interface.  When wg-quick fails with the new file, the
\* previous one is put back and may be brought up.
StartTunnel(n) ==
  LET old == agent[n].file IN
  /\ BeginsRound(n) /\ tunnel.key # NoKey /\ ~agent[n].link.up
  /\ \/ EndApplied(n, BroughtUp(Wanted(n)))
     \/ /\ Trouble
        /\ \/ old = NoConfig /\ \E file \in {NoConfig, Wanted(n)} : EndTunnelRound(n, file, Down, TRUE)
           \/ old # NoConfig /\ \E link \in {Down, BroughtUp(old)} : EndTunnelRound(n, old, link, TRUE)
  /\ EdgeOnly

\* applyConfig on an active interface; a command or the write may fail.
UpdateInPlace(n) ==
  LET a == agent[n]  new == Wanted(n)  old == a.file
      commands == Transition(old, new)
      fails(done) == EndTunnelRound(n, old, Undone(After(a.link, done, old, new), done, old, new), TRUE)
  IN  /\ BeginsRound(n) /\ new.remote # NoKey /\ a.link.up /\ old # new
      /\ \/ EndApplied(n, After(a.link, Done(commands, Len(commands)), old, new))
         \/ Trouble /\ \E k \in 0..Len(commands) : fails(Done(commands, k))
      /\ EdgeOnly

\* removeTunnel; one that failed is not tried again.
RemoveTunnel(n) ==
  /\ ~peer[n].in /\ agent[n].report = NoStatus /\ (agent[n].managed \/ ~agent[n].settled)
  /\ \/ agent' = [agent EXCEPT ![n] = [(IF @.managed THEN Bare(@.had) ELSE @) EXCEPT !.settled = TRUE]]
        /\ UNCHANGED troubles
     \/ agent[n].managed /\ Trouble
        /\ \E link \in {agent[n].link, Down} :
             agent' = [agent EXCEPT ![n] = [@ EXCEPT !.link = link, !.managed = FALSE, !.settled = FALSE]]
  /\ EdgeOnly

\* The machine was restarted, or is set up anew.
EdgeLosesState(n) ==
  /\ Trouble
  /\ \/ agent' = [agent EXCEPT ![n].link = Down, ![n].report = NoStatus, ![n].settled = FALSE]
     \/ agent' = [agent EXCEPT ![n] = Bare(@.had)]
  /\ EdgeOnly

\* Mutant: a new key of an edge is stored with the revision it came with.
TunnelOnReportSame(n, report) == tunnel

TunnelOnReport(n, report) ==
  IF peer[n].key = report.key THEN tunnel ELSE [tunnel EXCEPT !.revision = @ + 1]

\* reportWireGuardStatus and UpdateWireGuardPeerReports; the report may get lost.
ReportStatus(n) ==
  LET report == agent[n].report IN
  /\ report # NoStatus
  /\ \/ /\ IF peer[n].in
           THEN /\ tunnel' = TunnelOnReport(n, report)
                /\ peer' = [peer EXCEPT ![n] = [in |-> TRUE, key |-> report.key,
                                                applied |-> report.revision, error |-> report.error]]
           ELSE UNCHANGED <<tunnel, peer>>
        /\ agent' = [agent EXCEPT ![n].report = NoStatus, ![n].settled = peer[n].in /\ ~report.error]
        /\ UNCHANGED troubles
     \/ Trouble /\ agent' = [agent EXCEPT ![n].report = NoStatus] /\ UNCHANGED <<tunnel, peer>>
  /\ UNCHANGED <<tunnelDraft, test, origin, changes, tests>>

-----------------------------------------------------------------------------
(* Performance tests.                                                      *)

TestOnly == UNCHANGED <<tunnel, peer, tunnelDraft, origin, agent, changes>>

\* One active test of a node (a unique index).
CreateTest(n) ==
  /\ Ready(n) /\ test[n] \notin {"queued", "running", "overdue"}
  /\ tests < MaxTests /\ tests' = tests + 1
  /\ test' = [test EXCEPT ![n] = "queued"]
  /\ TestOnly /\ UNCHANGED troubles

\* Mutant: a test that is overdue keeps its place.
ClaimQueued(n) ==
  /\ agent[n].settled
  /\ \/ test[n] = "queued" /\ ~peer[n].in /\ test' = [test EXCEPT ![n] = "failed"]
     \/ test[n] = "queued" /\ Ready(n) /\ test' = [test EXCEPT ![n] = "running"]
  /\ TestOnly /\ UNCHANGED <<tests, troubles>>

\* ClaimWireGuardPerformanceTest, and the end of the test; its result may get lost.
ClaimTest(n) ==
  /\ agent[n].settled
  /\ \/ test[n] = "overdue" /\ test' = [test EXCEPT ![n] = "failed"]
     \/ test[n] = "queued" /\ ~peer[n].in /\ test' = [test EXCEPT ![n] = "failed"]
     \/ test[n] = "queued" /\ Ready(n) /\ test' = [test EXCEPT ![n] = "running"]
  /\ TestOnly /\ UNCHANGED <<tests, troubles>>

FinishTest(n) ==
  /\ test[n] = "running"
  /\ \/ test' \in {[test EXCEPT ![n] = outcome] : outcome \in {"succeeded", "failed"}} /\ UNCHANGED troubles
     \/ Trouble /\ test' = [test EXCEPT ![n] = "overdue"]
  /\ TestOnly /\ UNCHANGED tests

-----------------------------------------------------------------------------
EdgeRound(n) ==
  AwaitOriginKey(n) \/ KeepTunnel(n) \/ StartTunnel(n) \/ UpdateInPlace(n) \/ RemoveTunnel(n)

TunnelNext ==
  \/ \E plan \in Plans, members \in SUBSET Peers : UpdateTunnel(plan, members)
  \/ DeleteTunnel
  \/ \E nodes \in SUBSET Peers : EditDraft(nodes)
  \/ RunInstaller \/ ConfigureOrigin \/ ApplyAnswer \/ OriginFails
  \/ \E n \in Peers :
       \/ EdgeRound(n) \/ EdgeLosesState(n) \/ ReportStatus(n)
       \/ CreateTest(n) \/ ClaimTest(n) \/ FinishTest(n)

\* Loops of the agent and of the controller keep running; the origin's script
\* goes on once it has been started.  The two loops of an agent have different
\* periods, so that a claim does not fall into a round for ever.
TunnelFairness ==
  /\ WF_tunnelVars(ConfigureOrigin) /\ WF_tunnelVars(ApplyAnswer)
  /\ \A n \in Peers :
       /\ WF_tunnelVars(EdgeRound(n)) /\ WF_tunnelVars(ReportStatus(n))
       /\ SF_tunnelVars(ClaimTest(n)) /\ WF_tunnelVars(FinishTest(n))

TunnelSpec == TunnelInit /\ [][TunnelNext]_tunnelVars /\ TunnelFairness

-----------------------------------------------------------------------------
TunnelTypeOK ==
  /\ tunnel \in [exists : BOOLEAN, revision : Nat, plan : Plans, key : Keys, configured : Nat]
  /\ peer \in [Peers -> [in : BOOLEAN, key : Keys, applied : Nat, error : BOOLEAN]]
  /\ tunnelDraft \subseteq Peers
  /\ \A n \in Peers :
       /\ test[n] \in {"none", "queued", "running", "overdue", "succeeded", "failed"}
       /\ agent[n].key \in 0..agent[n].had /\ agent[n].had \in Keys /\ agent[n].link \in Interface
  /\ origin.key \in Keys /\ origin.asks \in BOOLEAN
  /\ changes \in 0..MaxChanges /\ tests \in 0..MaxTests /\ troubles \in 0..MaxTroubles

\* docs/WIREGUARD_ORIGIN.md:45: a site is published through a tunnel only while
\* origin and edge are at one revision.  Then they are also at one configuration:
\* a node that the controller calls ready and an origin that runs that revision
\* know each other's present keys and addresses, however keys were replaced and
\* whichever reports and answers were lost - unless the node has become another
\* since its last report.  And whatever update has failed, an interface that is
\* up is the one of the file (:48).
TunnelAgrees ==
  /\ TunnelTypeOK
  /\ \A n \in Peers : agent[n].link.up => LinkFits(agent[n].link, agent[n].file)
  /\ \A n \in Peers :
       Ready(n) /\ Installed /\ agent[n].key = peer[n].key /\ agent[n].link.up =>
         /\ LinkFits(agent[n].link, [plan |-> origin.runs.plan, remote |-> origin.key,
                                     own |-> agent[n].key])
         /\ origin.runs.peers[n] = agent[n].key

\* However often keys, addresses and members change and messages get lost, once
\* the administrator runs the installer whenever one is due the tunnel becomes
\* usable on every member, with the interface it asks for, and no performance
\* test of a member stays open.
InstallerRuns == WF_tunnelVars(RunInstaller)

Converged == tunnel.exists => Installed /\ \A n \in Members : Ready(n) /\ LinkFits(agent[n].link, Wanted(n))

TestsEnd == \A n \in Peers : []<>(test[n] \notin {"queued", "running", "overdue"})

TunnelSettles == InstallerRuns => <>[]Converged /\ TestsEnd
=============================================================================
