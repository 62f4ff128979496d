---------------------------- MODULE MCController ----------------------------
(***************************************************************************)
(* Parts of the controller that share no state.  A behaviour is one of     *)
(* any of them, chosen at the start; the others keep one initial state.    *)
(***************************************************************************)
EXTENDS NodeGates, CacheOperations, StaticAssets, NginxArtifacts,
        Notifications, BackupVerification, PolicyRollout, TerminalSessions, TLC

CONSTANTS probe, edge, page, other, object, image, url, url2, carrier1,
  bundle1, bundle2, rebuilt, task1, slot, enforcer1, author1, author2, rule1, rule2,
  console, visit1, visit2

\* Smart routing rules: the score rule if some low rounds pause the node, and a
\* timetable if there are windows.
Rules(below, lows, at, goods, windows) ==
  [on |-> TRUE, scoreOn |-> lows > 0, pauseBelow |-> below,
   pauseRounds |-> IF lows > 0 THEN lows ELSE 1,
   resumeAt |-> at, resumeRounds |-> goods, scheduleOn |-> windows # {}, windows |-> windows]
Windows == [days : SUBSET (0..2) \ {{}}, start : 0..2, end : 0..2]
Timetables == {Rules(1, 0, 1, 2, {v, w}) : v \in Windows, w \in Windows}
NightShift == {[days |-> {0}, start |-> 2, end |-> 1]}
RoutingRules == {Rules(2, 2, 3, 2, {}), Rules(2, 1, 2, 2, NightShift), Rules(3, 2, 2, 2, NightShift)}
AnyRules == Timetables \union RoutingRules

\* The whole site, one page, the other, and both by a prefix.
SomeScopes == {{}, {page}, {other}, {page, other}}

\* Two versions, the second one released again with another content.
Versions == bundle1 :> 1 @@ bundle2 :> 2 @@ rebuilt :> 2

VARIABLE focus

controllerVars == <<focus, gateVars, cacheVars, assetVars, artifactVars,
                    inboxVars, mailVars, watchVars, ruleVars, terminalVars>>

ControllerInit ==
  /\ focus \in {"routing", "schedule", "health", "keys", "prewarm", "assets", "bundles",
               "messages", "mails", "backups", "policies", "overview",
               "sessions", "shell"}
  /\ GatesInit
  /\ focus # "schedule" => moment = 0 /\ policy.windows \in {{}, NightShift}
  /\ focus \notin {"schedule", "routing"} => policy.windows = {}
  /\ focus # "routing" => probeList = {}
  /\ CacheInit
  /\ focus # "prewarm" => \A n \in Edges : heard[n].capable
  /\ RulesInit
  /\ focus \notin {"policies", "overview"} => \A n \in Enforcers : level[n] = 2
  /\ AssetsInit /\ ArtifactsInit /\ NotificationsInit /\ WatchInit /\ TerminalInit

\* Rules and keys, without jobs: at most this many operations, edits and faults, an
\* edit or a fault counted twice, and two pages kept.
KeySteps ==
  /\ CacheNext /\ UNCHANGED beat /\ Cardinality(cached'[edge]) <= 2
  /\ Len(ops') + 2 * used'.edits + 2 * used'.faults <= 3
  /\ \A o \in DOMAIN ops' : ops'[o].paths = {}

\* Operations on the whole site, without visitors.
PrewarmSteps ==
  /\ CacheNext
  /\ Len(ops') <= 2 /\ used'.edits = 0 /\ Len(ops') + used'.faults <= 2
  /\ \A o \in DOMAIN ops' : ops'[o].scope = {}
  /\ cached' = cached \/ round' # round

\* A stop of the controller or an order, not both; no release is withdrawn, and no
\* file ages during a check or a backup.
BundleSteps ==
  /\ ArtifactsNext /\ orders'.count + stops' <= 1
  /\ \A b \in Shelved \intersect DOMAIN shelf' :
       shelf'[b] = shelf[b] \/ (checker.at = "idle" /\ archive.at = "idle")
  /\ offered' # {} \/ offered = {}

\* Two jobs at most, and one message that an administrator handles.
MessageSteps ==
  /\ InboxNext
  /\ work'[task1].life + work'[slot].life <= 2 /\ Cardinality(attended') <= 1

\* Two changes by two administrators, or one with an agent installed or a hindrance.
PolicySteps ==
  RulesNext /\ UNCHANGED viewer /\ counts'.saves + counts'.agents + counts'.hindrances <= 2

\* One change by one administrator, no hindrance, and overviews at any time.
OverviewSteps ==
  /\ RulesNext /\ request'[author2] = "idle"
  /\ counts'.saves <= 1 /\ counts'.hindrances = 0 /\ rules'.chain = <<>>

\* Two sessions on two connections, without faults, input and output; only the
\* end of a connection asks a session to stop.
SessionFocus ==
  /\ TerminalNext /\ UNCHANGED <<hubClosed, hitches>>
  /\ \A k \in Wires :
       /\ \A i \in DOMAIN wires'[k].up : wires'[k].up[i].kind # "output"
       /\ \A i \in DOMAIN wires'[k].down : wires'[k].down[i].kind # "input"
  /\ \A s \in Terminals : live'[s].stop => live[s].stop \/ wires' # wires

\* One session on one connection, and everything else.
ShellFocus ==
  /\ TerminalNext
  /\ live'[visit2].at = "none" /\ wires'[MaxWires] = NoWire

ControllerNext ==
  /\ UNCHANGED focus
  /\ \/ /\ \/ focus = "routing" /\ RoutingNext
           \/ focus = "health" /\ HealthNext
        /\ UNCHANGED <<cacheVars, assetVars, artifactVars, inboxVars, mailVars, watchVars, ruleVars, terminalVars>>
     \/ /\ \/ focus = "keys" /\ KeySteps
           \/ focus = "prewarm" /\ PrewarmSteps
        /\ UNCHANGED <<gateVars, assetVars, artifactVars, inboxVars, mailVars, watchVars, ruleVars, terminalVars>>
     \/ /\ focus = "assets" /\ AssetsNext
        /\ UNCHANGED <<gateVars, cacheVars, artifactVars, inboxVars, mailVars, watchVars, ruleVars, terminalVars>>
     \/ /\ focus = "bundles" /\ BundleSteps
        /\ UNCHANGED <<gateVars, cacheVars, assetVars, inboxVars, mailVars, watchVars, ruleVars, terminalVars>>
     \/ /\ focus = "messages" /\ MessageSteps
        /\ UNCHANGED <<gateVars, cacheVars, assetVars, artifactVars, mailVars, watchVars, ruleVars, terminalVars>>
     \/ /\ focus = "mails" /\ MailNext
        /\ UNCHANGED <<gateVars, cacheVars, assetVars, artifactVars, inboxVars, watchVars, ruleVars, terminalVars>>
     \/ /\ focus = "backups" /\ WatchNext
        /\ UNCHANGED <<gateVars, cacheVars, assetVars, artifactVars, inboxVars, mailVars, ruleVars, terminalVars>>
     \/ /\ \/ focus = "policies" /\ PolicySteps
           \/ focus = "overview" /\ OverviewSteps
        /\ UNCHANGED <<gateVars, cacheVars, assetVars, artifactVars, inboxVars, mailVars, watchVars,
                       terminalVars>>
     \/ /\ \/ focus = "sessions" /\ SessionFocus
           \/ focus = "shell" /\ ShellFocus
        /\ UNCHANGED <<gateVars, cacheVars, assetVars, artifactVars, inboxVars, mailVars, watchVars,
                       ruleVars>>

Controller == ControllerInit /\ [][ControllerNext]_controllerVars
=============================================================================
